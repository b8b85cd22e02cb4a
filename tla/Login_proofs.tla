---------------------------- MODULE Login_proofs ----------------------------
(***************************************************************************)
(* Proofs about Login for any number of challenges, verifications and      *)
(* browsers.                                                               *)
(***************************************************************************)
EXTENDS Login, FiniteSetTheorems, TLAPS

Verifying == [phase : {"count", "compare", "claim"}, challenge : Challenges]

LEMMA NoVerifyIsIdle == NoVerify \notin Verifying /\ NoVerify.phase = "idle"
  BY DEF Verifying, NoVerify

LEMMA InitType == Init => TypeOK
  BY DEF Init, TypeOK, Ages, Phases

\* A verification that is under way belongs to a challenge, and the ways it moves on.
LEMMA Underway ==
    ASSUME TypeOK, NEW v \in Verifiers, verifier[v].phase # "idle"
    PROVE  /\ verifier[v] \in Verifying /\ verifier[v] # NoVerify
           /\ verifier[v].challenge \in Challenges
           /\ \A p \in {"count", "compare", "claim"} :
                 /\ [verifier[v] EXCEPT !.phase = p] \in Verifying
                 /\ [verifier[v] EXCEPT !.phase = p].phase = p
                 /\ [verifier[v] EXCEPT !.phase = p].challenge = verifier[v].challenge
  <1>1. verifier[v] \in Verifying
    BY NoVerifyIsIdle DEF TypeOK, Verifying
  <1> QED BY <1>1, NoVerifyIsIdle DEF Verifying

-----------------------------------------------------------------------------
(* What the two halves of a login leave alone *)

Stored == [age : Ages, attempts : Nat, used : BOOLEAN]

\* The writes of one field of a challenge.
LEMMA OtpWrites ==
    ASSUME otp \in [Challenges -> Stored], NEW c \in Challenges, NEW a \in Ages
    PROVE  /\ otp' = [otp EXCEPT ![c].age = a] =>
                 /\ otp' \in [Challenges -> Stored] /\ otp'[c].age = a
                 /\ \A d \in Challenges : otp'[d].attempts = otp[d].attempts
                                          /\ otp'[d].used = otp[d].used
                 /\ \A d \in Challenges \ {c} : otp'[d] = otp[d]
           /\ otp' = [otp EXCEPT ![c].attempts = @ + 1] =>
                 /\ otp' \in [Challenges -> Stored]
                 /\ otp'[c].attempts = otp[c].attempts + 1
                 /\ \A d \in Challenges : otp'[d].age = otp[d].age
                                          /\ otp'[d].used = otp[d].used
                 /\ \A d \in Challenges \ {c} : otp'[d] = otp[d]
           /\ otp' = [otp EXCEPT ![c].used = TRUE] =>
                 /\ otp' \in [Challenges -> Stored] /\ otp'[c].used
                 /\ \A d \in Challenges : otp'[d].age = otp[d].age
                                          /\ otp'[d].attempts = otp[d].attempts
                 /\ \A d \in Challenges \ {c} : otp'[d] = otp[d]
  <1>1. otp[c] \in Stored
    OBVIOUS
  <1>2. /\ [otp[c] EXCEPT !.age = a] \in Stored
        /\ [otp[c] EXCEPT !.age = a].age = a
        /\ [otp[c] EXCEPT !.age = a].attempts = otp[c].attempts
        /\ [otp[c] EXCEPT !.age = a].used = otp[c].used
    BY <1>1 DEF Stored
  <1>3. /\ [otp[c] EXCEPT !.attempts = @ + 1] \in Stored
        /\ [otp[c] EXCEPT !.attempts = @ + 1].attempts = otp[c].attempts + 1
        /\ [otp[c] EXCEPT !.attempts = @ + 1].age = otp[c].age
        /\ [otp[c] EXCEPT !.attempts = @ + 1].used = otp[c].used
    BY <1>1 DEF Stored
  <1>4. /\ [otp[c] EXCEPT !.used = TRUE] \in Stored
        /\ [otp[c] EXCEPT !.used = TRUE].used
        /\ [otp[c] EXCEPT !.used = TRUE].age = otp[c].age
        /\ [otp[c] EXCEPT !.used = TRUE].attempts = otp[c].attempts
    BY <1>1 DEF Stored
  <1> QED BY <1>2, <1>3, <1>4

\* Asking for a code and its ageing touch no try and no use of a challenge.
LEMMA AskFrame ==
    ASSUME TypeOK, NEW c \in Challenges, AskStep(c)
    PROVE  /\ UNCHANGED <<verifier, tried, opened, session, browser>>
           /\ \A d \in Challenges : otp'[d].attempts = otp[d].attempts /\ otp'[d].used = otp[d].used
           /\ otp' \in [Challenges -> [age : Ages, attempts : Nat, used : BOOLEAN]]
  <1> USE DEF logins, sessions, TypeOK
  <1>1. UNCHANGED <<verifier, tried, opened, session, browser>>
    BY DEF AskStep, Ask, CreateChallenge, QueueMessage, SendMessage, RecordMessage, Drop, Age
  <1>2. \/ otp' = otp
        \/ \E a \in Ages : otp' = [otp EXCEPT ![c].age = a]
    BY DEF AskStep, Ask, CreateChallenge, QueueMessage, SendMessage, RecordMessage, Drop, Age, Ages
  <1>3. otp \in [Challenges -> Stored] BY DEF Stored
  <1> QED BY <1>1, <1>2, <1>3, OtpWrites DEF Stored

\* Verifying a code and the life of sessions touch neither its age nor its message.
LEMMA VerifyFrame ==
    ASSUME TypeOK, \/ \E v \in Verifiers : VerifyStep(v)
                   \/ SessionStep \/ UNCHANGED vars
    PROVE  /\ UNCHANGED <<sms, arrived, ask, raced>>
           /\ \A d \in Challenges : otp'[d].age = otp[d].age
           /\ otp' \in [Challenges -> [age : Ages, attempts : Nat, used : BOOLEAN]]
  <1> USE DEF challenges, logins, sessions, vars, TypeOK
  <1>1. ASSUME NEW v \in Verifiers, VerifyStep(v)
        PROVE  /\ UNCHANGED <<sms, arrived, ask, raced>>
               /\ \A d \in Challenges : otp'[d].age = otp[d].age
               /\ otp' \in [Challenges -> [age : Ages, attempts : Nat, used : BOOLEAN]]
    <2>1. \/ otp' = otp
          \/ \E c \in Challenges : \/ otp' = [otp EXCEPT ![c].attempts = @ + 1]
                                   \/ otp' = [otp EXCEPT ![c].used = TRUE]
      BY <1>1, Underway DEF VerifyStep, Find, Count, Compare, Claim, Fail
    <2>2. UNCHANGED <<sms, arrived, ask, raced>>
      BY <1>1 DEF VerifyStep, Find, Count, Compare, Claim, Fail
    <2>3. otp \in [Challenges -> Stored] BY DEF Stored
    <2>4. "recent" \in Ages BY DEF Ages
    <2> QED BY <2>1, <2>2, <2>3, <2>4, OtpWrites DEF Stored
  <1>2. CASE SessionStep
    BY <1>2 DEF SessionStep, Expire, Logout, Present, DeleteExpired
  <1> QED BY <1>1, <1>2

-----------------------------------------------------------------------------
LEMMA TypeStep == TypeOK /\ [Next]_vars => TypeOK'
  <1> SUFFICES ASSUME TypeOK, [Next]_vars PROVE TypeOK'
    OBVIOUS
  <1> USE DEF challenges, logins, sessions
  <1>1. ASSUME NEW c \in Challenges, AskStep(c) PROVE TypeOK'
    <2>1. /\ UNCHANGED <<verifier, tried, opened, session, browser>>
          /\ otp' \in [Challenges -> [age : Ages, attempts : Nat, used : BOOLEAN]]
      BY <1>1, AskFrame
    <2>2. ask' \in [Challenges -> Phases]
      <3>1. CASE CreateChallenge(c)
        BY <3>1 DEF CreateChallenge, TypeOK, Phases
      <3>2. CASE SendMessage(c)
        <4>1. PICK p \in {"sent", "failed"} : ask' = [ask EXCEPT ![c] = p]
          BY <3>2 DEF SendMessage, Outcome
        <4> QED BY <4>1 DEF TypeOK, Phases
      <3>3. ASSUME ~ CreateChallenge(c), ~ SendMessage(c)
            PROVE  \E p \in Phases : ask' = [ask EXCEPT ![c] = p] \/ ask' = ask
        BY <1>1, <3>3
        DEF AskStep, Ask, QueueMessage, RecordMessage, Drop, Age, Phases
      <3> QED BY <3>1, <3>2, <3>3 DEF TypeOK
    <2>3. sms' \in [Challenges -> {"none", "queued", "sent", "failed"}]
      BY <1>1 DEF AskStep, Ask, CreateChallenge, QueueMessage, SendMessage, RecordMessage,
                  Drop, Age, TypeOK
    <2>4. arrived' \in SUBSET Challenges /\ raced' \in SUBSET Challenges
      BY <1>1 DEF AskStep, Ask, CreateChallenge, QueueMessage, SendMessage, RecordMessage,
                  Drop, Age, TypeOK
    <2> QED BY <2>1, <2>2, <2>3, <2>4 DEF TypeOK
  <1>2. ASSUME NEW v \in Verifiers, VerifyStep(v) PROVE TypeOK'
    <2>1. /\ UNCHANGED <<sms, arrived, ask, raced>>
          /\ otp' \in [Challenges -> [age : Ages, attempts : Nat, used : BOOLEAN]]
      BY <1>2, VerifyFrame
    <2>2. verifier' \in [Verifiers -> {NoVerify} \cup Verifying]
      <3>1. CASE \E c \in Challenges : Find(v, c)
        <4>1. PICK c \in Challenges : Find(v, c) BY <3>1
        <4>2. Verify("count", c) \in Verifying BY DEF Verify, Verifying
        <4> QED BY <4>1, <4>2 DEF Find, TypeOK, Verifying
      <3>2. CASE Count(v) \/ Compare(v)
        <4>1. \/ \E p \in {"count", "compare", "claim"} :
                    verifier' = [verifier EXCEPT ![v].phase = p]
              \/ verifier' = [verifier EXCEPT ![v] = NoVerify]
          BY <3>2 DEF Count, Compare
        <4>2. verifier[v].phase # "idle"
          BY <3>2 DEF Count, Compare
        <4>3. \A p \in {"count", "compare", "claim"} :
                 [verifier[v] EXCEPT !.phase = p] \in Verifying
          BY <4>2, Underway
        <4>4. verifier \in [Verifiers -> {NoVerify} \cup Verifying]
          BY DEF TypeOK, Verifying
        <4> QED BY <4>1, <4>3, <4>4
      <3>3. CASE Claim(v) \/ Fail(v)
        BY <3>3 DEF Claim, Fail, TypeOK, Verifying
      <3> QED BY <1>2, <3>1, <3>2, <3>3 DEF VerifyStep
    <2>3. tried' \in [Challenges -> Nat] /\ opened' \in [Challenges -> Nat]
      <3>1. \/ tried' = tried
            \/ \E c \in Challenges : tried' = [tried EXCEPT ![c] = @ + 1]
        BY <1>2, Underway DEF VerifyStep, Find, Count, Compare, Claim, Fail
      <3>2. \/ opened' = opened
            \/ \E c \in Challenges : opened' = [opened EXCEPT ![c] = @ + 1]
        BY <1>2, Underway DEF VerifyStep, Find, Count, Compare, Claim, Fail
      <3> QED BY <3>1, <3>2 DEF TypeOK
    <2>4. /\ session' \in [Challenges -> {"none", "live", "expired", "gone"}]
          /\ browser' = browser
      BY <1>2, Underway DEF VerifyStep, Find, Count, Compare, Claim, Fail, TypeOK
    <2> QED BY <2>1, <2>2, <2>3, <2>4 DEF TypeOK, Verifying
  <1>3. CASE SessionStep
    <2>1. UNCHANGED <<otp, sms, arrived, ask, raced, verifier, tried, opened>>
      BY <1>3 DEF SessionStep, Expire, Logout, Present, DeleteExpired
    <2>2. session' \in [Challenges -> {"none", "live", "expired", "gone"}]
      BY <1>3 DEF SessionStep, Expire, Logout, Present, DeleteExpired, TypeOK
    <2>3. browser' \in [Browsers -> Challenges \cup {Nobody}]
      BY <1>3 DEF SessionStep, Expire, Logout, Present, DeleteExpired, TypeOK
    <2> QED BY <2>1, <2>2, <2>3 DEF TypeOK
  <1>4. CASE UNCHANGED vars
    BY <1>4 DEF vars, TypeOK
  <1> QED BY <1>1, <1>2, <1>3, <1>4 DEF Next

\* Challenges, messages, verifications and sessions have their types.
THEOREM TypeCorrect == Spec => []TypeOK
  BY InitType, TypeStep, PTL DEF Spec

-----------------------------------------------------------------------------
(* Asking *)

\* Why ThrottleHolds is inductive: a request that no creation has overtaken since
\* its look still sees no recent challenge.
ThrottleInv ==
    /\ ThrottleHolds
    /\ \A c \in Challenges : ask[c] = "create" => Recent = {}

LEMMA InitThrottle == Init => ThrottleInv
  BY DEF Init, ThrottleInv, ThrottleHolds, Recent

\* A step that makes nothing recent and takes up no creation keeps it.
LEMMA OtherThrottle ==
    ASSUME ThrottleInv, raced' = raced, Recent' \subseteq Recent,
           \A d \in Challenges : ask'[d] = "create" => ask[d] = "create" \/ Recent = {}
    PROVE  ThrottleInv'
  BY DEF ThrottleInv, ThrottleHolds

LEMMA ThrottleStep == TypeOK /\ ThrottleInv /\ [Next]_vars => ThrottleInv'
  <1> SUFFICES ASSUME TypeOK, ThrottleInv, [Next]_vars PROVE ThrottleInv'
    OBVIOUS
  <1>1. ASSUME NEW c \in Challenges, CreateChallenge(c) PROVE ThrottleInv'
    <2>1. Recent' \subseteq Recent \cup {c}
      BY <1>1 DEF CreateChallenge, Recent, TypeOK
    <2>2. \A d \in Challenges : ask'[d] # "create"
      BY <1>1 DEF CreateChallenge
    <2>3. raced \subseteq raced'
      BY <1>1 DEF CreateChallenge
    <2>4. Recent = {} \/ c \in raced'
      BY <1>1 DEF CreateChallenge, ThrottleInv
    <2> QED BY <2>1, <2>2, <2>3, <2>4 DEF ThrottleInv, ThrottleHolds
  <1>2. ASSUME NEW c \in Challenges, Ask(c) PROVE ThrottleInv'
    <2>1. Recent = {} /\ raced' = raced /\ otp' = otp
      BY <1>2 DEF Ask, Throttled
    <2> QED BY <2>1, OtherThrottle DEF Recent
  <1>3. ASSUME NEW c \in Challenges, Age(c) PROVE ThrottleInv'
    <2>1. /\ raced' = raced /\ ask' = ask
          /\ otp' = [otp EXCEPT ![c].age = "valid"] \/ otp' = [otp EXCEPT ![c].age = "expired"]
      BY <1>3 DEF Age
    <2>2. Recent' \subseteq Recent
      BY <2>1 DEF Recent, TypeOK
    <2> QED BY <2>1, <2>2, OtherThrottle
  <1>4. ASSUME NEW c \in Challenges,
               QueueMessage(c) \/ SendMessage(c) \/ RecordMessage(c) \/ Drop(c)
        PROVE  ThrottleInv'
    <2>1. /\ raced' = raced /\ otp' = otp
          /\ \E p \in Phases \ {"create"} : ask' = [ask EXCEPT ![c] = p]
      BY <1>4 DEF QueueMessage, SendMessage, RecordMessage, Drop, Outcome, Phases
    <2>2. \A d \in Challenges : ask'[d] = "create" => ask[d] = "create"
      BY <2>1 DEF TypeOK
    <2> QED BY <2>1, <2>2, OtherThrottle DEF Recent
  <1>5. CASE \/ \E v \in Verifiers : VerifyStep(v)
             \/ SessionStep \/ UNCHANGED vars
    <2>1. UNCHANGED <<ask, raced>> /\ \A d \in Challenges : otp'[d].age = otp[d].age
      BY <1>5, VerifyFrame
    <2>2. Recent' = Recent
      BY <2>1 DEF Recent
    <2> QED BY <2>1, <2>2, OtherThrottle
  <1> QED BY <1>1, <1>2, <1>3, <1>4, <1>5 DEF Next, AskStep

\* Two recent codes for a number come of requests that looked at the same time.
THEOREM CodesThrottled == Spec => []ThrottleHolds
  <1>1. ThrottleInv => ThrottleHolds BY DEF ThrottleInv
  <1> QED BY <1>1, InitThrottle, ThrottleStep, TypeCorrect, PTL DEF Spec

\* Why SentIsTrue is inductive: the phases of a request are those of its message.
MessageInv ==
    /\ SentIsTrue
    /\ \A c \in Challenges :
          /\ ask[c] = "sent" => c \in arrived
          /\ ask[c] \in {"queue", "send", "sent", "failed"} => otp[c].age # "none"
          /\ ask[c] \in {"send", "sent", "failed"} => sms[c] # "none"

LEMMA InitMessage == Init => MessageInv
  BY DEF Init, MessageInv, SentIsTrue

LEMMA MessageStep == TypeOK /\ MessageInv /\ [Next]_vars => MessageInv'
  <1> SUFFICES ASSUME TypeOK, MessageInv, [Next]_vars PROVE MessageInv'
    OBVIOUS
  <1> USE DEF MessageInv, SentIsTrue
  <1>1. ASSUME NEW c \in Challenges, Ask(c) \/ Drop(c) PROVE MessageInv'
    BY <1>1 DEF Ask, Drop, TypeOK
  <1>2. ASSUME NEW c \in Challenges, CreateChallenge(c) PROVE MessageInv'
    <2>1. /\ \A d \in Challenges : otp[d].age # "none" => otp'[d].age # "none"
          /\ otp'[c].age = "recent"
      BY <1>2 DEF CreateChallenge, TypeOK
    <2>2. \A d \in Challenges \ {c} :
             ask'[d] \in {"queue", "send", "sent", "failed"} => ask'[d] = ask[d]
      BY <1>2 DEF CreateChallenge
    <2>3. ask'[c] = "queue"
      BY <1>2 DEF CreateChallenge
    <2>4. UNCHANGED <<sms, arrived>>
      BY <1>2 DEF CreateChallenge
    <2> QED BY <2>1, <2>2, <2>3, <2>4 DEF TypeOK
  <1>3. ASSUME NEW c \in Challenges, QueueMessage(c) PROVE MessageInv'
    BY <1>3 DEF QueueMessage, TypeOK
  <1>4. ASSUME NEW c \in Challenges, SendMessage(c) PROVE MessageInv'
    <2>1. PICK s \in {"sent", "failed"} :
             /\ ask' = [ask EXCEPT ![c] = s]
             /\ arrived' = arrived \cup {c} \/ (arrived' = arrived /\ s = "failed")
      BY <1>4 DEF SendMessage, Outcome
    <2>2. UNCHANGED <<otp, sms>> /\ otp[c].age # "none" /\ sms[c] # "none"
      BY <1>4 DEF SendMessage
    <2> QED BY <2>1, <2>2 DEF TypeOK
  <1>5. ASSUME NEW c \in Challenges, RecordMessage(c) PROVE MessageInv'
    BY <1>5 DEF RecordMessage, TypeOK
  <1>6. ASSUME NEW c \in Challenges, Age(c) PROVE MessageInv'
    <2>1. /\ \A d \in Challenges : otp[d].age # "none" => otp'[d].age # "none"
          /\ UNCHANGED <<sms, arrived, ask>>
      BY <1>6 DEF Age, TypeOK
    <2> QED BY <2>1 DEF TypeOK
  <1>7. CASE \/ \E v \in Verifiers : VerifyStep(v)
             \/ SessionStep \/ UNCHANGED vars
    <2>1. UNCHANGED <<sms, arrived, ask>> /\ \A d \in Challenges : otp'[d].age = otp[d].age
      BY <1>7, VerifyFrame
    <2> QED BY <2>1 DEF TypeOK
  <1> QED BY <1>1, <1>2, <1>3, <1>4, <1>5, <1>6, <1>7 DEF Next, AskStep

\* A message on record as sent has reached the provider.
THEOREM RecordsAreTrue == Spec => []SentIsTrue
  <1>1. MessageInv => SentIsTrue BY DEF MessageInv
  <1> QED BY <1>1, InitMessage, MessageStep, TypeCorrect, PTL DEF Spec

-----------------------------------------------------------------------------
(* Verifying *)

\* Why OneLogin is inductive: a challenge is used exactly when it has opened its
\* session, and a verification about to claim it has compared a code.
LoginInv ==
    /\ OneLogin
    /\ \A c \in Challenges : otp[c].used <=> opened[c] = 1
    /\ \A v \in Verifiers : verifier[v].phase = "claim" => tried[verifier[v].challenge] >= 1
    /\ \A b \in Browsers : browser[b] # Nobody => session[browser[b]] # "none"

LEMMA InitLogin == Init => LoginInv
  BY DEF Init, LoginInv, OneLogin, NoVerify

LEMMA LoginStep == TypeOK /\ LoginInv /\ [Next]_vars => LoginInv'
  <1> SUFFICES ASSUME TypeOK, LoginInv, [Next]_vars PROVE LoginInv'
    OBVIOUS
  <1> USE DEF challenges, logins, sessions, LoginInv, OneLogin
  <1>t. \A c \in Challenges : tried[c] \in Nat /\ opened[c] \in Nat
    BY DEF TypeOK
  <1>v. \A v \in Verifiers : verifier[v].phase # "idle" => verifier[v].challenge \in Challenges
    BY Underway
  <1>1. ASSUME NEW c \in Challenges, AskStep(c) PROVE LoginInv'
    BY <1>1, AskFrame, <1>v DEF TypeOK
  <1>2. ASSUME NEW v \in Verifiers, (\E c \in Challenges : Find(v, c)) \/ Fail(v)
        PROVE  LoginInv'
    <2>1. /\ UNCHANGED <<otp, tried, opened, session, browser>>
          /\ \A u \in Verifiers : verifier'[u].phase = "claim" => verifier'[u] = verifier[u]
      BY <1>2, NoVerifyIsIdle DEF Find, Fail, Verify, TypeOK
    <2> QED BY <2>1, <1>v DEF TypeOK
  <1>3. ASSUME NEW v \in Verifiers, Count(v) PROVE LoginInv'
    <2>1. verifier[v].challenge \in Challenges /\ verifier[v].phase # "idle"
      BY <1>3, <1>v DEF Count
    <2>2. \A u \in Verifiers : verifier'[u].phase = "claim" => verifier'[u] = verifier[u]
      BY <1>3, <2>1, Underway, NoVerifyIsIdle DEF Count, TypeOK
    <2>3. UNCHANGED <<tried, opened, session, browser>>
      BY <1>3 DEF Count
    <2>4. \A c \in Challenges : otp'[c].used = otp[c].used
      <3>1. otp \in [Challenges -> Stored] BY DEF TypeOK, Stored
      <3>2. \/ otp' = otp
            \/ otp' = [otp EXCEPT ![verifier[v].challenge].attempts = @ + 1]
        BY <1>3 DEF Count
      <3>3. "recent" \in Ages BY DEF Ages
      <3> QED BY <2>1, <3>1, <3>2, <3>3, OtpWrites
    <2> QED BY <2>2, <2>3, <2>4, <1>v DEF TypeOK
  <1>4. ASSUME NEW v \in Verifiers, Compare(v) PROVE LoginInv'
    <2> DEFINE c == verifier[v].challenge
    <2>1. c \in Challenges /\ verifier[v].phase # "idle"
      BY <1>4, <1>v DEF Compare
    <2>2. /\ UNCHANGED <<otp, opened, session, browser>>
          /\ tried' = [tried EXCEPT ![c] = @ + 1]
      BY <1>4 DEF Compare
    <2>3. /\ \A d \in Challenges : tried'[d] >= tried[d] /\ tried'[d] \in Nat
          /\ tried'[c] >= 1
      BY <2>1, <2>2, <1>t DEF TypeOK
    <2>4. \A u \in Verifiers : verifier'[u].phase = "claim" =>
             verifier'[u] = verifier[u] \/ verifier'[u].challenge = c
      BY <1>4, <2>1, Underway, NoVerifyIsIdle DEF Compare, TypeOK
    <2>5. \A u \in Verifiers : verifier'[u].phase = "claim" =>
             tried'[verifier'[u].challenge] >= 1
      BY <2>1, <2>3, <2>4, <1>t, <1>v
    <2>6. \A d \in Challenges : opened'[d] <= 1 /\ opened'[d] <= tried'[d]
      BY <2>2, <2>3, <1>t
    <2> QED BY <2>2, <2>5, <2>6
  <1>5. ASSUME NEW v \in Verifiers, Claim(v) PROVE LoginInv'
    <2> DEFINE c == verifier[v].challenge
    <2>1. c \in Challenges /\ tried[c] >= 1
      BY <1>5, <1>v DEF Claim
    <2>2. /\ UNCHANGED <<tried, browser>>
          /\ \A u \in Verifiers : verifier'[u].phase = "claim" => verifier'[u] = verifier[u]
      BY <1>5, NoVerifyIsIdle DEF Claim, TypeOK
    <2>3. CASE otp[c].used
      BY <1>5, <2>2, <2>3, <1>v DEF Claim, Claimable, TypeOK
    <2>4. CASE ~ otp[c].used
      <3>1. /\ otp' = [otp EXCEPT ![c].used = TRUE]
            /\ session' = [session EXCEPT ![c] = "live"]
            /\ opened' = [opened EXCEPT ![c] = @ + 1]
        BY <1>5, <2>4 DEF Claim, Claimable
      <3>2. opened[c] = 0
        BY <2>1, <2>4, <1>t
      <3>3. /\ otp'[c].used /\ session'[c] = "live" /\ opened'[c] = 1
            /\ \A d \in Challenges \ {c} : otp'[d] = otp[d] /\ session'[d] = session[d]
                                            /\ opened'[d] = opened[d]
        BY <2>1, <3>1, <3>2 DEF TypeOK
      <3>4. \A d \in Challenges : /\ opened'[d] <= 1 /\ opened'[d] <= tried'[d]
                                  /\ (session'[d] # "none" <=> opened'[d] = 1)
                                  /\ (otp'[d].used <=> opened'[d] = 1)
        BY <2>1, <2>2, <3>3, <1>t
      <3>5. \A b \in Browsers : browser'[b] # Nobody => session'[browser'[b]] # "none"
        BY <2>2, <3>3 DEF TypeOK
      <3>6. \A u \in Verifiers : verifier'[u].phase = "claim" =>
               tried'[verifier'[u].challenge] >= 1
        BY <2>2
      <3> QED BY <3>4, <3>5, <3>6
    <2> QED BY <2>3, <2>4
  <1>6. CASE SessionStep
    <2>1. UNCHANGED <<otp, tried, opened, verifier>>
      BY <1>6 DEF SessionStep, Expire, Logout, Present, DeleteExpired
    <2>2. \A c \in Challenges : session'[c] # "none" <=> session[c] # "none"
      BY <1>6 DEF SessionStep, Expire, Logout, Present, DeleteExpired, TypeOK
    <2>3. \A b \in Browsers : browser'[b] # Nobody =>
             browser'[b] \in Challenges /\ session[browser'[b]] # "none"
      BY <1>6 DEF SessionStep, Expire, Logout, Present, DeleteExpired, TypeOK
    <2> QED BY <2>1, <2>2, <2>3
  <1>7. CASE UNCHANGED vars
    BY <1>7 DEF vars
  <1> QED BY <1>1, <1>2, <1>3, <1>4, <1>5, <1>6, <1>7 DEF Next, VerifyStep

\* A challenge opens one session at most, and none without a try.
THEOREM OneSession == Spec => []OneLogin
  <1>1. LoginInv => OneLogin BY DEF LoginInv
  <1> QED BY <1>1, InitLogin, LoginStep, TypeCorrect, PTL DEF Spec

\* The verifications that have been counted and are about to compare their code.
Comparing(c) == {v \in Verifiers : verifier[v].phase = "compare" /\ verifier[v].challenge = c}

\* Why TriesBounded is inductive: every comparison, made or still to be made, has
\* been counted before.
TriesInv ==
    \A c \in Challenges :
        /\ otp[c].attempts <= MaxAttempts
        /\ tried[c] + Cardinality(Comparing(c)) <= otp[c].attempts

LEMMA ComparingFinite ==
    ASSUME IsFiniteSet(Verifiers), NEW c
    PROVE  IsFiniteSet(Comparing(c)) /\ Cardinality(Comparing(c)) \in Nat
  <1>1. Comparing(c) \in SUBSET Verifiers BY DEF Comparing
  <1> QED BY <1>1, FS_Subset, FS_CardinalityType

\* A step after which no more verifications are about to compare keeps it.
LEMMA OtherTries ==
    ASSUME IsFiniteSet(Verifiers), MaxAttempts \in Nat, TypeOK, TypeOK', TriesInv,
           tried' = tried, \A c \in Challenges : otp'[c].attempts = otp[c].attempts,
           \A c \in Challenges : Comparing(c)' \subseteq Comparing(c)
    PROVE  TriesInv'
  <1> SUFFICES ASSUME NEW c \in Challenges
               PROVE  /\ otp'[c].attempts <= MaxAttempts
                      /\ tried'[c] + Cardinality(Comparing(c)') <= otp'[c].attempts
    BY DEF TriesInv
  <1>1. /\ Cardinality(Comparing(c)') <= Cardinality(Comparing(c))
        /\ Cardinality(Comparing(c)') \in Nat /\ Cardinality(Comparing(c)) \in Nat
    BY ComparingFinite, FS_Subset, FS_CardinalityType
  <1>2. otp[c].attempts \in Nat /\ tried[c] \in Nat BY DEF TypeOK
  <1> QED BY <1>1, <1>2 DEF TriesInv

LEMMA TriesStep ==
    ASSUME IsFiniteSet(Verifiers), MaxAttempts \in Nat,
           TypeOK, TypeOK', TriesInv, [Next]_vars
    PROVE  TriesInv'
  <1> USE DEF challenges, logins, sessions
  <1>n. \A c \in Challenges : otp[c].attempts \in Nat /\ tried[c] \in Nat
    BY DEF TypeOK
  <1>1. ASSUME NEW c \in Challenges, AskStep(c) PROVE TriesInv'
    <2>1. UNCHANGED <<verifier, tried>> /\ \A d \in Challenges : otp'[d].attempts = otp[d].attempts
      BY <1>1, AskFrame
    <2>2. \A d \in Challenges : Comparing(d)' = Comparing(d)
      BY <2>1 DEF Comparing
    <2> QED BY <2>1, <2>2, OtherTries
  <1>2. ASSUME NEW v \in Verifiers, (\E c \in Challenges : Find(v, c)) \/ Fail(v)
        PROVE  TriesInv'
    <2>1. UNCHANGED <<otp, tried>>
      BY <1>2 DEF Find, Fail
    <2>2. \A u \in Verifiers : verifier'[u].phase = "compare" => verifier'[u] = verifier[u]
      BY <1>2, NoVerifyIsIdle DEF Find, Fail, Verify, TypeOK
    <2>3. \A d \in Challenges : Comparing(d)' \subseteq Comparing(d)
      BY <2>2 DEF Comparing
    <2> QED BY <2>1, <2>3, OtherTries
  <1>3. ASSUME NEW v \in Verifiers, Claim(v) PROVE TriesInv'
    <2>1. tried' = tried
      BY <1>3 DEF Claim
    <2>2. \A d \in Challenges : otp'[d].attempts = otp[d].attempts
      <3>1. otp \in [Challenges -> Stored] /\ "recent" \in Ages BY DEF TypeOK, Stored, Ages
      <3>2. verifier[v].challenge \in Challenges BY <1>3, Underway DEF Claim
      <3>3. otp' = otp \/ otp' = [otp EXCEPT ![verifier[v].challenge].used = TRUE]
        BY <1>3 DEF Claim
      <3> QED BY <3>1, <3>2, <3>3, OtpWrites
    <2>3. \A u \in Verifiers : verifier'[u].phase = "compare" => verifier'[u] = verifier[u]
      BY <1>3, NoVerifyIsIdle DEF Claim, TypeOK
    <2>4. \A d \in Challenges : Comparing(d)' \subseteq Comparing(d)
      BY <2>3 DEF Comparing
    <2> QED BY <2>1, <2>2, <2>4, OtherTries
  <1>4. ASSUME NEW v \in Verifiers, Count(v) PROVE TriesInv'
    <2>1. PICK c \in Challenges :
             c = verifier[v].challenge /\ verifier[v].phase = "count" /\ tried' = tried
      BY <1>4, Underway DEF Count
    <2>2. CASE ~ Countable(c)
      <3>1. otp' = otp /\ verifier' = [verifier EXCEPT ![v] = NoVerify]
        BY <1>4, <2>1, <2>2 DEF Count
      <3>2. \A u \in Verifiers : verifier'[u].phase = "compare" => verifier'[u] = verifier[u]
        BY <3>1, NoVerifyIsIdle DEF TypeOK
      <3>3. \A d \in Challenges : Comparing(d)' \subseteq Comparing(d)
        BY <3>2 DEF Comparing
      <3> QED BY <2>1, <3>1, <3>3, OtherTries
    <2>3. CASE Countable(c)
      <3>1. /\ otp' = [otp EXCEPT ![c].attempts = @ + 1]
            /\ verifier' = [verifier EXCEPT ![v].phase = "compare"]
        BY <1>4, <2>1, <2>3 DEF Count
      <3>2. otp \in [Challenges -> Stored] /\ "recent" \in Ages BY DEF TypeOK, Stored, Ages
      <3>3. /\ otp'[c].attempts = otp[c].attempts + 1
            /\ \A d \in Challenges \ {c} : otp'[d] = otp[d]
        BY <2>1, <3>1, <3>2, OtpWrites
      <3>4. /\ verifier'[v].challenge = c
            /\ \A u \in Verifiers \ {v} : verifier'[u] = verifier[u]
        BY <2>1, <3>1, Underway DEF TypeOK
      <3>5. /\ Comparing(c)' \subseteq Comparing(c) \cup {v}
            /\ \A d \in Challenges \ {c} : Comparing(d)' \subseteq Comparing(d)
        BY <3>4 DEF Comparing
      <3>6. \A d \in Challenges \ {c} :
               Cardinality(Comparing(d)') <= Cardinality(Comparing(d))
        BY <3>5, ComparingFinite, FS_Subset
      <3>7. Cardinality(Comparing(c)') <= Cardinality(Comparing(c)) + 1
        <4>1. /\ IsFiniteSet(Comparing(c) \cup {v})
              /\ Cardinality(Comparing(c) \cup {v}) <= Cardinality(Comparing(c)) + 1
          <5>1. IsFiniteSet(Comparing(c)) /\ Cardinality(Comparing(c)) \in Nat
            BY ComparingFinite
          <5>2. /\ IsFiniteSet(Comparing(c) \cup {v})
                /\ Cardinality(Comparing(c) \cup {v}) =
                     IF v \in Comparing(c) THEN Cardinality(Comparing(c))
                     ELSE Cardinality(Comparing(c)) + 1
            BY <5>1, FS_AddElement
          <5> QED BY <5>1, <5>2
        <4>2. Cardinality(Comparing(c)') <= Cardinality(Comparing(c) \cup {v})
          BY <3>5, <4>1, FS_Subset
        <4>3. Cardinality(Comparing(c)') \in Nat /\ Cardinality(Comparing(c) \cup {v}) \in Nat
              /\ Cardinality(Comparing(c)) \in Nat
          BY <3>5, <4>1, ComparingFinite, FS_Subset, FS_CardinalityType
        <4> QED BY <4>1, <4>2, <4>3
      <3>8. \A d \in Challenges : Cardinality(Comparing(d)') \in Nat
                                  /\ Cardinality(Comparing(d)) \in Nat
        <4>1. \A d : Comparing(d)' \in SUBSET Verifiers BY DEF Comparing
        <4> QED BY <4>1, ComparingFinite, FS_Subset, FS_CardinalityType
      <3>9. otp[c].attempts < MaxAttempts BY <2>3 DEF Countable
      <3> QED BY <1>n, <2>1, <3>3, <3>6, <3>7, <3>8, <3>9 DEF TriesInv
    <2> QED BY <2>2, <2>3
  <1>5. ASSUME NEW v \in Verifiers, Compare(v) PROVE TriesInv'
    <2>1. PICK c \in Challenges :
             c = verifier[v].challenge /\ verifier[v].phase = "compare" /\ otp' = otp
      BY <1>5, Underway DEF Compare
    <2>2. /\ tried'[c] = tried[c] + 1
          /\ \A d \in Challenges \ {c} : tried'[d] = tried[d]
      BY <1>5, <2>1 DEF Compare, TypeOK
    <2>3. /\ verifier'[v].phase # "compare"
          /\ \A u \in Verifiers \ {v} : verifier'[u] = verifier[u]
      BY <1>5, <2>1, Underway, NoVerifyIsIdle DEF Compare, TypeOK
    <2>4. /\ Comparing(c)' \subseteq Comparing(c) \ {v} /\ v \in Comparing(c)
          /\ \A d \in Challenges \ {c} : Comparing(d)' \subseteq Comparing(d)
      BY <2>1, <2>3 DEF Comparing
    <2>5. \A d \in Challenges \ {c} :
             Cardinality(Comparing(d)') <= Cardinality(Comparing(d))
      BY <2>4, ComparingFinite, FS_Subset
    <2>6. Cardinality(Comparing(c)') <= Cardinality(Comparing(c)) - 1
      <3>1. /\ IsFiniteSet(Comparing(c) \ {v})
            /\ Cardinality(Comparing(c) \ {v}) = Cardinality(Comparing(c)) - 1
        BY <2>4, ComparingFinite, FS_RemoveElement
      <3> QED BY <2>4, <3>1, FS_Subset
    <2>7. \A d \in Challenges : Cardinality(Comparing(d)') \in Nat
                                /\ Cardinality(Comparing(d)) \in Nat
      <3>1. \A d : Comparing(d)' \in SUBSET Verifiers BY DEF Comparing
      <3> QED BY <3>1, ComparingFinite, FS_Subset, FS_CardinalityType
    <2> QED BY <1>n, <2>1, <2>2, <2>5, <2>6, <2>7 DEF TriesInv
  <1>6. CASE SessionStep \/ UNCHANGED vars
    <2>1. UNCHANGED <<otp, tried, verifier>>
      BY <1>6 DEF SessionStep, Expire, Logout, Present, DeleteExpired, vars
    <2>2. \A d \in Challenges : Comparing(d)' = Comparing(d)
      BY <2>1 DEF Comparing
    <2> QED BY <2>1, <2>2, OtherTries
  <1> QED BY <1>1, <1>2, <1>3, <1>4, <1>5, <1>6 DEF Next, VerifyStep

\* No more codes are compared with a challenge than it allows tries, however many
\* verifications overlap.
THEOREM TriesAreCounted ==
    ASSUME IsFiniteSet(Verifiers), MaxAttempts \in Nat
    PROVE  Spec => []TriesBounded
  <1>1. ASSUME Init PROVE TriesInv
    <2>1. \A c \in Challenges : Comparing(c) = {}
      BY <1>1, NoVerifyIsIdle DEF Init, Comparing
    <2>2. \A c \in Challenges : otp[c].attempts = 0 /\ tried[c] = 0
      BY <1>1 DEF Init
    <2>3. \A c \in Challenges : Cardinality(Comparing(c)) = 0
      BY <2>1, FS_EmptySet
    <2> QED BY <2>2, <2>3 DEF TriesInv
  <1>2. TypeOK /\ TypeOK' /\ TriesInv /\ [Next]_vars => TriesInv'
    BY TriesStep
  <1>3. TypeOK /\ TriesInv => TriesBounded
    <2> SUFFICES ASSUME TypeOK, TriesInv, NEW c \in Challenges PROVE tried[c] <= MaxAttempts
      BY DEF TriesBounded
    <2>1. Cardinality(Comparing(c)) \in Nat BY ComparingFinite
    <2>2. tried[c] \in Nat /\ otp[c].attempts \in Nat BY DEF TypeOK
    <2> QED BY <2>1, <2>2 DEF TriesInv
  <1> QED BY <1>1, <1>2, <1>3, TypeCorrect, PTL DEF Spec
=============================================================================
