-------------------------------- MODULE Login --------------------------------
(***************************************************************************)
(* Login by a code sent to one mobile number, and the session it opens     *)
(* (requestOtp, verifyOtp, userFromSession and logout of                   *)
(* repositories/prisma-runtime.ts, services/sms-service.ts, the auth       *)
(* routes of app.ts).                                                      *)
(*                                                                         *)
(* A challenge is made by one request, so challenges are named after their *)
(* requests; numbers share nothing, so one is enough.  Looking for a       *)
(* recent challenge and creating one are two statements, and so are every  *)
(* read and count of a verification; only the claim of a challenge and the *)
(* session it opens are one serializable transaction.  Time is the steps   *)
(* in which a challenge stops being recent, then valid, and a session      *)
(* expires.                                                                *)
(***************************************************************************)
EXTENDS Naturals, FiniteSets

CONSTANTS
    Challenges,  \* requests for a code
    Verifiers,   \* verifications that may be in flight at once
    Browsers,    \* requests that present a session
    MaxAttempts  \* tries a challenge allows; 5 in the code

VARIABLES
    otp,       \* OtpChallenge: its age, its attempts and whether it is used
    sms,       \* SmsDeliveryAttempt.status, or none
    arrived,   \* the challenges whose message the provider has delivered
    ask,       \* where each request for a code is
    verifier,  \* what each verification has found
    session,   \* AuthSession opened by a challenge: none, live, expired or gone
    browser,   \* the expired session a request is about to delete, or none
    tried,     \* ghost: codes compared with the hash of a challenge
    opened,    \* ghost: sessions a challenge has opened
    raced      \* ghost: challenges created by a request that another one overtook

challenges == <<otp, sms, arrived, ask, raced>>
logins     == <<verifier, tried, opened>>
sessions   == <<session, browser>>
vars       == <<challenges, logins, sessions>>

Ages     == {"none", "recent", "valid", "expired"}
NoVerify == [phase |-> "idle"]
Nobody   == "none"

Init ==
    /\ otp      = [c \in Challenges |-> [age |-> "none", attempts |-> 0, used |-> FALSE]]
    /\ sms      = [c \in Challenges |-> "none"]
    /\ arrived  = {}
    /\ ask      = [c \in Challenges |-> "idle"]
    /\ verifier = [v \in Verifiers |-> NoVerify]
    /\ session  = [c \in Challenges |-> "none"]
    /\ browser  = [b \in Browsers |-> Nobody]
    /\ tried    = [c \in Challenges |-> 0]
    /\ opened   = [c \in Challenges |-> 0]
    /\ raced    = {}

-----------------------------------------------------------------------------
(* Asking for a code *)

Recent == {c \in Challenges : otp[c].age = "recent"}

Throttled_PerRequest(c) == otp[c].age = "recent"

\* requestOtp: a challenge of the last minute refuses another one.
Throttled(c) == Recent # {}

Ask(c) ==
    /\ ask[c] = "idle" /\ otp[c].age = "none"
    /\ ~Throttled(c)
    /\ ask' = [ask EXCEPT ![c] = "create"]
    /\ UNCHANGED <<otp, sms, arrived, raced, logins, sessions>>

\* The challenge is stored; whoever has looked for a recent one has not seen it.
CreateChallenge(c) ==
    /\ ask[c] \in {"create", "create late"}
    /\ otp'   = [otp EXCEPT ![c].age = "recent"]
    /\ raced' = IF ask[c] = "create late" THEN raced \cup {c} ELSE raced
    /\ ask'   = [d \in Challenges |-> IF d = c THEN "queue"
                                      ELSE IF ask[d] = "create" THEN "create late" ELSE ask[d]]
    /\ UNCHANGED <<sms, arrived, logins, sessions>>

\* SmsService.send: the attempt is on record before the provider is called.
QueueMessage(c) ==
    /\ ask[c] = "queue"
    /\ sms' = [sms EXCEPT ![c] = "queued"]
    /\ ask' = [ask EXCEPT ![c] = "send"]
    /\ UNCHANGED <<otp, arrived, raced, logins, sessions>>

Outcome_Optimistic(delivered) == {"sent", "failed"}

\* What the service records of a call: a message that went out may count as
\* failed, when the provider's answer is late or lost.
Outcome(delivered) == IF delivered THEN {"sent", "failed"} ELSE {"failed"}

SendMessage(c) ==
    /\ ask[c] = "send"
    /\ \E delivered \in BOOLEAN :
          /\ arrived' = IF delivered THEN arrived \cup {c} ELSE arrived
          /\ ask' \in {[ask EXCEPT ![c] = s] : s \in Outcome(delivered)}
    /\ UNCHANGED <<otp, sms, raced, logins, sessions>>

RecordMessage(c) ==
    /\ ask[c] \in {"sent", "failed"}
    /\ sms' = [sms EXCEPT ![c] = ask[c]]
    /\ ask' = [ask EXCEPT ![c] = "done"]
    /\ UNCHANGED <<otp, arrived, raced, logins, sessions>>

\* A storage error or the end of the process ends the request where it is.
Drop(c) ==
    /\ ask[c] \notin {"idle", "done"}
    /\ ask' = [ask EXCEPT ![c] = "done"]
    /\ UNCHANGED <<otp, sms, arrived, raced, logins, sessions>>

Age(c) ==
    /\ \/ otp[c].age = "recent" /\ otp' = [otp EXCEPT ![c].age = "valid"]
       \/ otp[c].age = "valid"  /\ otp' = [otp EXCEPT ![c].age = "expired"]
    /\ UNCHANGED <<sms, arrived, ask, raced, logins, sessions>>

-----------------------------------------------------------------------------
(* Verifying it *)

Verify(phase, c) == [phase |-> phase, challenge |-> c]

\* verifyOtp finds the challenge unused and in time; this is not looked at again.
Find(v, c) ==
    /\ verifier[v] = NoVerify
    /\ otp[c].age \in {"recent", "valid"} /\ ~otp[c].used
    /\ verifier' = [verifier EXCEPT ![v] = Verify("count", c)]
    /\ UNCHANGED <<challenges, tried, opened, sessions>>

Countable_Unlimited(c) == ~otp[c].used

\* The condition of the counting update.
Countable(c) == ~otp[c].used /\ otp[c].attempts < MaxAttempts

Count(v) ==
    LET c == verifier[v].challenge IN
    /\ verifier[v].phase = "count"
    /\ IF Countable(c)
       THEN /\ otp' = [otp EXCEPT ![c].attempts = @ + 1]
            /\ verifier' = [verifier EXCEPT ![v].phase = "compare"]
       ELSE UNCHANGED otp /\ verifier' = [verifier EXCEPT ![v] = NoVerify]
    /\ UNCHANGED <<sms, arrived, ask, raced, tried, opened, sessions>>

Compare(v) ==
    LET c == verifier[v].challenge IN
    /\ verifier[v].phase = "compare"
    /\ tried' = [tried EXCEPT ![c] = @ + 1]
    /\ verifier' \in {[verifier EXCEPT ![v].phase = "claim"], [verifier EXCEPT ![v] = NoVerify]}
    /\ UNCHANGED <<challenges, opened, sessions>>

Claimable_Found(c) == TRUE

\* Of all verifications with the right code one finds the challenge unused.
Claimable(c) == ~otp[c].used

Claim(v) ==
    LET c == verifier[v].challenge IN
    /\ verifier[v].phase = "claim"
    /\ IF Claimable(c)
       THEN /\ otp'     = [otp EXCEPT ![c].used = TRUE]
            /\ session' = [session EXCEPT ![c] = "live"]
            /\ opened'  = [opened EXCEPT ![c] = @ + 1]
       ELSE UNCHANGED <<otp, session, opened>>
    /\ verifier' = [verifier EXCEPT ![v] = NoVerify]
    /\ UNCHANGED <<sms, arrived, ask, raced, tried, browser>>

\* A storage error, a serialization failure or the end of the process.
Fail(v) ==
    /\ verifier[v] # NoVerify
    /\ verifier' = [verifier EXCEPT ![v] = NoVerify]
    /\ UNCHANGED <<challenges, tried, opened, sessions>>

-----------------------------------------------------------------------------
(* The session *)

Expire(c) ==
    /\ session[c] = "live"
    /\ session' = [session EXCEPT ![c] = "expired"]
    /\ UNCHANGED <<challenges, logins, browser>>

\* userFromSession reads a session past its time and is going to delete it; one
\* that is live lets the request pass and changes nothing.
Present(b, c) ==
    /\ browser[b] = Nobody /\ session[c] = "expired"
    /\ browser' = [browser EXCEPT ![b] = c]
    /\ UNCHANGED <<challenges, logins, session>>

\* A row that is gone by then makes the delete fail and the request with it.
DeleteExpired(b) ==
    /\ browser[b] # Nobody
    /\ session' = [session EXCEPT ![browser[b]] = "gone"]
    /\ browser' = [browser EXCEPT ![b] = Nobody]
    /\ UNCHANGED <<challenges, logins>>

Logout(c) ==
    /\ session[c] \in {"live", "expired"}
    /\ session' = [session EXCEPT ![c] = "gone"]
    /\ UNCHANGED <<challenges, logins, browser>>

-----------------------------------------------------------------------------
AskStep(c) ==
    \/ Ask(c) \/ CreateChallenge(c) \/ QueueMessage(c) \/ SendMessage(c)
    \/ RecordMessage(c) \/ Drop(c) \/ Age(c)

VerifyStep(v) ==
    (\E c \in Challenges : Find(v, c)) \/ Count(v) \/ Compare(v) \/ Claim(v) \/ Fail(v)

SessionStep ==
    \/ \E c \in Challenges : Expire(c) \/ Logout(c)
    \/ \E b \in Browsers : (\E c \in Challenges : Present(b, c)) \/ DeleteExpired(b)

Next ==
    \/ \E c \in Challenges : AskStep(c)
    \/ \E v \in Verifiers : VerifyStep(v)
    \/ SessionStep

Spec == Init /\ [][Next]_vars

-----------------------------------------------------------------------------
(* Properties *)

Phases == {"idle", "create", "create late", "queue", "send", "sent", "failed", "done"}

TypeOK ==
    /\ otp \in [Challenges -> [age : Ages, attempts : Nat, used : BOOLEAN]]
    /\ sms \in [Challenges -> {"none", "queued", "sent", "failed"}]
    /\ arrived \in SUBSET Challenges
    /\ ask \in [Challenges -> Phases]
    /\ verifier \in [Verifiers -> {NoVerify}
          \cup [phase : {"count", "compare", "claim"}, challenge : Challenges]]
    /\ session \in [Challenges -> {"none", "live", "expired", "gone"}]
    /\ browser \in [Browsers -> Challenges \cup {Nobody}]
    /\ tried \in [Challenges -> Nat]
    /\ opened \in [Challenges -> Nat]
    /\ raced \in SUBSET Challenges

\* However many verifications of one challenge overlap, no more codes are
\* compared with it than it allows tries: each is counted, on condition, before
\* it is compared (verifyOtp).
TriesBounded == \A c \in Challenges : tried[c] <= MaxAttempts

\* A challenge opens one session at most, and none without a try, though every
\* verification that was in flight may hold the right code (verifyOtp).
OneLogin ==
    \A c \in Challenges :
        /\ opened[c] <= 1 /\ opened[c] <= tried[c]
        /\ session[c] # "none" <=> opened[c] = 1

\* Two codes for one number within a minute are asked for by requests that looked
\* for a recent one at the same time; else the second is refused (requestOtp).
ThrottleHolds == \A c, d \in Recent : c = d \/ {c, d} \cap raced # {}

\* A message on record as sent has reached the provider, and none is sent for a
\* challenge that is not stored (SmsService.send, POST request-otp).
SentIsTrue ==
    /\ \A c \in Challenges : sms[c] = "sent" => c \in arrived
    /\ \A c \in arrived : otp[c].age # "none" /\ sms[c] # "none"
=============================================================================
