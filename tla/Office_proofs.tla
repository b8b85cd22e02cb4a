---------------------------- MODULE Office_proofs ----------------------------
(***************************************************************************)
(* Proofs about Office, for any instance of any part: every part runs as   *)
(* if alone, so that what is proved of it alone holds of the whole.        *)
(*                                                                         *)
(* The proofs for Departures, Team, VisaCases and Login are in modules of  *)
(* their own; those for Payouts, SupportDesk and Catalogue are here.       *)
(***************************************************************************)
EXTENDS Office, TLAPS

\* A behaviour of the whole is, seen from a part, one of that part.
THEOREM PartsRunAlone ==
    OfficeSpec => Spec /\ T!Spec /\ V!Spec /\ L!Spec /\ P!Spec /\ S!Spec /\ C!Spec
  <1>1. OfficeInit => Init /\ T!Init /\ V!Init /\ L!Init /\ P!Init /\ S!Init /\ C!Init
    BY DEF OfficeInit
  <1>2. [OfficeNext]_officeVars =>
          /\ [Next]_vars /\ [T!Next]_(T!vars) /\ [V!Next]_(V!vars) /\ [L!Next]_(L!vars)
          /\ [P!Next]_(P!vars) /\ [S!Next]_(S!vars) /\ [C!Next]_(C!vars)
    <2>1. ASSUME NEW part, Rest(part)
          PROVE  /\ part # "departures" => UNCHANGED vars
                 /\ part # "team"       => UNCHANGED T!vars
                 /\ part # "visa"       => UNCHANGED V!vars
                 /\ part # "login"      => UNCHANGED L!vars
                 /\ part # "payouts"    => UNCHANGED P!vars
                 /\ part # "support"    => UNCHANGED S!vars
                 /\ part # "catalogue"  => UNCHANGED C!vars
      BY <2>1 DEF Rest, teamVars, visaVars, loginVars, payoutVars, supportVars,
           catalogueVars, T!vars, V!vars, L!vars, L!challenges, L!logins, L!sessions,
           P!vars, S!vars, C!vars, C!content
    <2>2. ASSUME UNCHANGED officeVars
          PROVE  /\ UNCHANGED vars /\ UNCHANGED T!vars /\ UNCHANGED V!vars
                 /\ UNCHANGED L!vars /\ UNCHANGED P!vars /\ UNCHANGED S!vars
                 /\ UNCHANGED C!vars
      BY <2>2 DEF officeVars, teamVars, visaVars, loginVars, payoutVars, supportVars,
           catalogueVars, T!vars, V!vars, L!vars, L!challenges, L!logins, L!sessions,
           P!vars, S!vars, C!vars, C!content
    <2> QED BY <2>1, <2>2 DEF OfficeNext
  <1> QED BY <1>1, <1>2, PTL DEF OfficeSpec, Spec, T!Spec, V!Spec, L!Spec, P!Spec, S!Spec, C!Spec

-----------------------------------------------------------------------------
(* Team, VisaCases and Login: what their modules prove *)

\* A member's roles are those of one request, but for rows its delete has not seen.
THEOREM RolesAreOneRequests == OfficeSpec => RolesAsAsked
  BY PartsRunAlone, T!RolesAreOneRequests, PTL DEF RolesAsAsked

\* Every timeline that a customer sees is a legal history ending in the status.
THEOREM HistoriesAreLegal == OfficeSpec => []HistoryIsLegal
  BY PartsRunAlone, V!HistoriesAreLegal, PTL DEF HistoryIsLegal

\* Reference and date of submission are there whenever the status says so.
THEOREM CasesAreComplete == OfficeSpec => []CaseIsComplete
  BY PartsRunAlone, V!CasesAreComplete, PTL DEF CaseIsComplete

\* Two recent codes of a phone come from requests that looked at the same time.
THEOREM CodesThrottled == OfficeSpec => []ThrottleHolds
  BY PartsRunAlone, L!CodesThrottled, PTL DEF ThrottleHolds

\* A message on record as sent has arrived.
THEOREM RecordsAreTrue == OfficeSpec => []SentIsTrue
  BY PartsRunAlone, L!RecordsAreTrue, PTL DEF SentIsTrue

\* A challenge opens at most one session, however many verifications race.
THEOREM OneSession == OfficeSpec => []OneLogin
  BY PartsRunAlone, L!OneSession, PTL DEF OneLogin

\* No more codes are compared with a challenge than it allows tries, for any
\* allowance and finitely many verifications at a time.
THEOREM TriesAreCounted ==
    ASSUME IsFiniteSet(Verifiers), MaxAttempts \in Nat
    PROVE  OfficeSpec => []TriesBounded
  <1>1. L!IsFiniteSet(Verifiers) BY DEF IsFiniteSet, L!IsFiniteSet
  <1>2. L!Spec => []L!TriesBounded BY <1>1, L!TriesAreCounted
  <1> QED BY <1>2, PartsRunAlone, PTL DEF TriesBounded

-----------------------------------------------------------------------------
(* Payouts *)

PayJob == [update : P!Update, fresh : BOOLEAN]

LEMMA NoWorkIsNoJob == P!NoWork \notin PayJob
  <1>1. ASSUME P!NoWork \in PayJob PROVE FALSE
    <2>1. "update" \in DOMAIN P!NoWork BY <1>1 DEF PayJob
    <2> QED BY <2>1 DEF P!NoWork
  <1> QED BY <1>1

\* What a session holds is none or a job, whatever others write.
LEMMA OutdatedWork ==
    ASSUME work \in [Clerks -> {P!NoWork} \cup PayJob]
    PROVE  /\ P!Outdated \in [Clerks -> {P!NoWork} \cup PayJob]
           /\ \A c \in Clerks : work[c] = P!NoWork <=> P!Outdated[c] = P!NoWork
           /\ \A c \in Clerks : work[c] # P!NoWork =>
                 P!Outdated[c].update = work[c].update /\ ~P!Outdated[c].fresh
  <1>1. ASSUME NEW c \in Clerks, work[c] # P!NoWork
        PROVE  /\ P!Outdated[c] = [work[c] EXCEPT !.fresh = FALSE]
               /\ P!Outdated[c] \in PayJob
               /\ P!Outdated[c].update = work[c].update /\ ~P!Outdated[c].fresh
    BY <1>1 DEF P!Outdated, PayJob
  <1>2. ASSUME NEW c \in Clerks, work[c] = P!NoWork PROVE P!Outdated[c] = P!NoWork
    BY <1>2 DEF P!Outdated
  <1>3. P!Outdated = [c \in Clerks |-> P!Outdated[c]]
    BY DEF P!Outdated
  <1> QED BY <1>1, <1>2, <1>3, NoWorkIsNoJob

LEMMA WrittenType ==
    ASSUME batch \in P!Batch, NEW u \in P!Update
    PROVE  /\ P!Written(u) \in P!Batch
           /\ P!Written(u).status = u.to
           /\ P!Written(u).approved <=> batch.approved \/ u.to = "APPROVED"
           /\ P!Written(u).paid <=> batch.paid \/ u.to = "PAID"
           /\ u.notes = "given" => P!Written(u).noted
           /\ P!Written(u).reference = IF u.to = "PAID" THEN u.reference ELSE batch.reference
  <1> DEFINE n == IF u.notes = "kept" THEN batch.noted ELSE u.notes = "given"
  <1>1. batch.noted \in BOOLEAN
    BY DEF P!Batch
  <1>2. n \in BOOLEAN /\ (u.notes = "given" => n)
    BY <1>1
  <1>3. P!Written(u) = [batch EXCEPT !.status    = u.to,
                                  !.approved  = @ \/ u.to = "APPROVED",
                                  !.paid      = @ \/ u.to = "PAID",
                                  !.noted     = n,
                                  !.reference = IF u.to = "PAID" THEN u.reference ELSE @]
    BY DEF P!Written
  <1> HIDE DEF n
  <1> QED BY <1>2, <1>3 DEF P!Batch, P!Update

-----------------------------------------------------------------------------
\* Why PaidIsBacked is inductive: a session that is about to write a status of
\* the payment knows the batch as approved, however old its look at it is,
\* because an approval is never taken back; and one that has not been overtaken
\* moves the batch along its table.
PayInv ==
    /\ P!TypeOK
    /\ P!PaidIsBacked
    /\ batch.status = "APPROVED" => batch.approved
    /\ \A c \in Clerks : work[c] # P!NoWork =>
          /\ P!Acceptable(work[c].update)
          /\ work[c].update.to \in {"PROCESSING", "PAID", "FAILED"} => batch.approved
          /\ work[c].fresh => P!MayMove(work[c].update.to)

LEMMA InitPay == P!Init => PayInv
  BY NoWorkIsNoJob
  DEF P!Init, PayInv, P!TypeOK, P!PaidIsBacked, P!Batch, P!Statuses, PayJob

\* Whoever may move the batch to a status of the payment finds it approved.
LEMMA MoveApproved ==
    ASSUME PayInv, NEW t \in {"PROCESSING", "PAID", "FAILED"}, P!MayMove(t)
    PROVE  batch.approved
  BY DEF PayInv, P!TypeOK, P!PaidIsBacked, P!MayMove, P!Transitions, P!Batch, P!Statuses

LEMMA PayCheckKeeps ==
    ASSUME PayInv, NEW c \in Clerks, NEW u \in P!Update, P!Check(c, u)
    PROVE  PayInv'
  <1> DEFINE j == [update |-> u, fresh |-> TRUE]
  <1>1. j \in PayJob /\ j.update = u /\ j.fresh
    BY DEF PayJob
  <1>2. work' = [work EXCEPT ![c] = j] /\ batch' = batch
    BY DEF P!Check
  <1>3. work \in [Clerks -> {P!NoWork} \cup PayJob] /\ batch \in P!Batch
    BY DEF PayInv, P!TypeOK, PayJob
  <1> HIDE DEF j
  <1>4. /\ work' \in [Clerks -> {P!NoWork} \cup PayJob]
        /\ work'[c] = j /\ \A d \in Clerks \ {c} : work'[d] = work[d]
    BY <1>1, <1>2, <1>3
  <1>5. P!Acceptable(u) /\ P!MayMove(u.to)
    BY DEF P!Check
  <1>6. u.to \in {"PROCESSING", "PAID", "FAILED"} => batch.approved
    BY <1>5, MoveApproved
  <1> QED
    BY <1>1, <1>2, <1>3, <1>4, <1>5, <1>6
    DEF PayInv, P!TypeOK, P!PaidIsBacked, PayJob, P!MayMove

LEMMA PaySaveKeeps ==
    ASSUME PayInv, NEW c \in Clerks, P!Save(c)
    PROVE  PayInv'
  <1>1. work \in [Clerks -> {P!NoWork} \cup PayJob] /\ batch \in P!Batch
    BY DEF PayInv, P!TypeOK, PayJob
  <1> DEFINE u == work[c].update
  <1>2. u \in P!Update /\ P!Acceptable(u)
        /\ (u.to \in {"PROCESSING", "PAID", "FAILED"} => batch.approved)
    BY <1>1 DEF P!Save, PayInv, PayJob
  <1>3. batch' = P!Written(u) /\ work' = [P!Outdated EXCEPT ![c] = P!NoWork]
    BY DEF P!Save
  <1> HIDE DEF u
  <1>4. /\ batch' \in P!Batch
        /\ batch'.status = u.to
        /\ batch'.approved <=> batch.approved \/ u.to = "APPROVED"
        /\ batch'.paid <=> batch.paid \/ u.to = "PAID"
        /\ u.notes = "given" => batch'.noted
        /\ batch'.reference = IF u.to = "PAID" THEN u.reference ELSE batch.reference
    BY <1>1, <1>2, <1>3, WrittenType
  <1>5. /\ work' \in [Clerks -> {P!NoWork} \cup PayJob]
        /\ \A d \in Clerks : work'[d] # P!NoWork =>
              work[d] # P!NoWork /\ work'[d].update = work[d].update /\ ~work'[d].fresh
    BY <1>1, <1>3, OutdatedWork
  <1>6. P!PaidIsBacked' /\ (batch'.status = "APPROVED" => batch'.approved)
    BY <1>2, <1>4 DEF P!PaidIsBacked, P!Acceptable
  <1>7. \A d \in Clerks : work'[d] # P!NoWork =>
            /\ P!Acceptable(work'[d].update)
            /\ work'[d].update.to \in {"PROCESSING", "PAID", "FAILED"} => batch'.approved
            /\ ~work'[d].fresh
    BY <1>4, <1>5 DEF PayInv
  <1> QED BY <1>4, <1>5, <1>6, <1>7 DEF PayInv, P!TypeOK, PayJob, P!MayMove

LEMMA PayStep == PayInv /\ [P!Next]_(P!vars) => PayInv'
  <1> SUFFICES ASSUME PayInv, [P!Next]_(P!vars) PROVE PayInv'
    OBVIOUS
  <1>1. ASSUME NEW c \in Clerks, P!Fail(c) PROVE PayInv'
    <2>1. batch' = batch /\ work' = [work EXCEPT ![c] = P!NoWork]
      BY <1>1 DEF P!Fail
    <2> QED BY <2>1 DEF PayInv, P!TypeOK, P!PaidIsBacked, P!MayMove
  <1>2. CASE UNCHANGED P!vars
    BY <1>2 DEF P!vars, PayInv, P!TypeOK, P!PaidIsBacked, P!MayMove
  <1> QED BY <1>1, <1>2, PayCheckKeeps, PaySaveKeeps DEF P!Next

LEMMA PayAlways == OfficeSpec => []PayInv
  BY InitPay, PayStep, PartsRunAlone, PTL DEF P!Spec

\* A batch that counts as paid was approved and carries its payment, whatever
\* sessions overwrite each other.
THEOREM PaymentsBacked == OfficeSpec => []PaidIsBacked
  <1>1. PayInv => PaidIsBacked BY DEF PayInv, PaidIsBacked
  <1> QED BY <1>1, PayAlways, PTL

\* What the code does keep of the promise that nothing returns from PAID: no session
\* moves a paid or cancelled batch that it has found paid or cancelled.
THEOREM FinalBatchesStay == OfficeSpec => P!FinalStays
  <1>1. ASSUME PayInv, [P!Next]_(P!vars), batch.status \in P!Final, batch' # batch
        PROVE  \E c \in Clerks : P!Overtaken(c)
    <2>1. PICK c \in Clerks : P!Save(c)
      BY <1>1 DEF P!Next, P!Check, P!Fail, P!vars
    <2>2. \A t \in P!Statuses : ~ P!MayMove(t)
      BY <1>1 DEF P!MayMove, P!Transitions, P!Final, P!Statuses
    <2>3. work[c] # P!NoWork /\ work[c].update.to \in P!Statuses
      BY <1>1, <2>1 DEF P!Save, PayInv, P!TypeOK, P!Update
    <2>4. ~ work[c].fresh
      BY <1>1, <2>2, <2>3 DEF PayInv
    <2>5. work'[c] = P!NoWork
      BY <2>1 DEF P!Save, P!Outdated
    <2> QED BY <2>3, <2>4, <2>5 DEF P!Overtaken
  <1>2. PayInv /\ [P!Next]_(P!vars)
           => [batch.status \in P!Final /\ batch' # batch
                 => \E c \in Clerks : P!Overtaken(c)]_(P!vars)
    BY <1>1
  <1> QED BY <1>2, PayAlways, PartsRunAlone, PTL DEF P!Spec, P!FinalStays

-----------------------------------------------------------------------------
(* SupportDesk *)

Carried == [do : S!Tasks, fresh : BOOLEAN]

\* Why ClosedIsQuiet holds of every step: a message that is still up to date was
\* answerable and is, because a new status makes every look at the old one stale.
TicketInv ==
    /\ S!TypeOK
    /\ \A s \in Writing : task[s] # S!NoTask /\ task[s].fresh /\ task[s].do.kind = "message"
                             => S!Answerable(task[s].do.by)

LEMMA NoTaskIsNotCarried == S!NoTask \notin Carried
  <1>1. ASSUME S!NoTask \in Carried PROVE FALSE
    <2>1. "do" \in DOMAIN S!NoTask BY <1>1 DEF Carried
    <2> QED BY <2>1 DEF S!NoTask
  <1> QED BY <1>1

LEMMA InitTicket == S!Init => TicketInv
  BY DEF S!Init, TicketInv, S!TypeOK, S!Statuses, S!Authors

\* A session takes up a task that fits the ticket as it is.
LEMMA TicketStart ==
    ASSUME TicketInv, NEW s \in Writing, NEW t \in S!Tasks, S!Start(s, t),
           t.kind = "message" => S!Answerable(t.by)
    PROVE  TicketInv'
  <1> DEFINE j == [do |-> t, fresh |-> TRUE]
  <1>1. j \in Carried /\ j.do = t BY DEF Carried
  <1>2. task' = [task EXCEPT ![s] = j] /\ UNCHANGED <<ticket, ticketOwner, messages>>
    BY DEF S!Start
  <1> HIDE DEF j
  <1>3. /\ task' \in [Writing -> {S!NoTask} \cup Carried]
        /\ task'[s] = j /\ \A r \in Writing \ {s} : task'[r] = task[r]
    BY <1>1, <1>2 DEF TicketInv, S!TypeOK, Carried
  <1> QED BY <1>1, <1>2, <1>3 DEF TicketInv, S!TypeOK, Carried, S!Answerable

\* What a session carries is a task of one of the two kinds.
LEMMA TicketTask ==
    ASSUME TicketInv, NEW s \in Writing, task[s] # S!NoTask
    PROVE  /\ task[s] \in Carried /\ task[s].do \in S!Tasks
           /\ task[s].do.kind = "message" => task[s].do.by \in S!Authors
           /\ task[s].do.kind = "status"  => task[s].do.to \in S!Statuses
  <1>1. task[s] \in Carried BY DEF TicketInv, S!TypeOK, Carried
  <1>2. task[s].do \in S!Tasks BY <1>1 DEF Carried
  <1> QED BY <1>1, <1>2 DEF S!Tasks

LEMMA TicketStep == TicketInv /\ [S!Next]_(S!vars) => TicketInv'
  <1> SUFFICES ASSUME TicketInv, [S!Next]_(S!vars) PROVE TicketInv' OBVIOUS
  <1>1. ASSUME NEW s \in Writing, NEW a \in S!Authors, S!StartMessage(s, a)
        PROVE  TicketInv'
    <2> DEFINE t == [kind |-> "message", by |-> a]
    <2>1. t \in S!Tasks /\ t.by = a BY DEF S!Tasks
    <2>2. S!Start(s, t) /\ S!Answerable(a) BY <1>1 DEF S!StartMessage
    <2> HIDE DEF t
    <2> QED BY <2>1, <2>2, TicketStart
  <1>2. ASSUME NEW s \in Writing, NEW to \in S!Statuses, S!StartStatus(s, to)
        PROVE  TicketInv'
    <2> DEFINE t == [kind |-> "status", to |-> to]
    <2>1. t \in S!Tasks /\ t.kind # "message" BY DEF S!Tasks
    <2>2. S!Start(s, t) BY <1>2 DEF S!StartStatus
    <2> HIDE DEF t
    <2> QED BY <2>1, <2>2, TicketStart
  <1>3. ASSUME NEW s \in Writing, S!SaveMessage(s) PROVE TicketInv'
    <2>1. task[s].do.by \in S!Authors BY <1>3, TicketTask DEF S!SaveMessage
    <2>2. messages' \in [S!Authors -> Nat] BY <1>3, <2>1 DEF S!SaveMessage, TicketInv, S!TypeOK
    <2> QED BY <1>3, <2>2 DEF S!SaveMessage, TicketInv, S!TypeOK, S!Answerable
  <1>4. ASSUME NEW s \in Writing, S!SaveStatus(s) PROVE TicketInv'
    <2>1. task[s].do.to \in S!Statuses BY <1>4, TicketTask DEF S!SaveStatus
    <2>2. ASSUME NEW r \in Writing
          PROVE  task'[r] = S!NoTask \/ (task'[r] \in Carried /\ ~ task'[r].fresh)
      <3>1. CASE r = s \/ task[r] = S!NoTask
        BY <1>4, <3>1 DEF S!SaveStatus, S!Outdated
      <3>2. CASE r # s /\ task[r] # S!NoTask
        <4>1. task'[r] = [task[r] EXCEPT !.fresh = FALSE]
          BY <1>4, <3>2 DEF S!SaveStatus, S!Outdated
        <4>2. task[r] \in Carried BY <3>2, TicketTask
        <4> QED BY <4>1, <4>2 DEF Carried
      <3> QED BY <3>1, <3>2
    <2>3. task' \in [Writing -> {S!NoTask} \cup Carried]
      <3>1. task' = [r \in Writing |-> task'[r]] BY <1>4 DEF S!SaveStatus, S!Outdated
      <3> QED BY <2>2, <3>1
    <2> QED BY <1>4, <2>1, <2>2, <2>3 DEF S!SaveStatus, TicketInv, S!TypeOK, Carried
  <1>5. ASSUME NEW s \in Writing, S!Fail(s) PROVE TicketInv'
    BY <1>5 DEF S!Fail, TicketInv, S!TypeOK, S!Answerable
  <1>6. CASE UNCHANGED S!vars
    BY <1>6 DEF S!vars, TicketInv, S!TypeOK, S!Answerable
  <1> QED BY <1>1, <1>2, <1>3, <1>4, <1>5, <1>6 DEF S!Next

LEMMA TicketAlways == OfficeSpec => []TicketInv
  BY InitTicket, TicketStep, PartsRunAlone, PTL DEF S!Spec

\* A merchant or the support adds to a closed ticket only with a reply that was under
\* way when it was closed, for any number of sessions and messages.
THEOREM ClosedTicketsQuiet == OfficeSpec => ClosedIsQuiet
  <1> DEFINE Added == \E a \in {"merchant", "support"} : messages'[a] # messages[a]
             Late  == \E s \in Writing :
                         task[s] # S!NoTask /\ ~task[s].fresh /\ task'[s] = S!NoTask
  <1>1. ASSUME TicketInv, [S!Next]_(S!vars), ticket = "closed", Added
        PROVE  Late
    <2>1. PICK s \in Writing : S!SaveMessage(s)
      BY <1>1 DEF S!Next, S!StartMessage, S!StartStatus, S!Start, S!SaveStatus, S!Fail, S!vars
    <2>2. task[s].do.by \in S!Authors /\ task[s] \in Carried
      BY <1>1, <2>1, TicketTask DEF S!SaveMessage
    <2>3. task[s].do.by \in {"merchant", "support"}
      BY <1>1, <2>1, <2>2 DEF S!SaveMessage, TicketInv, S!TypeOK
    <2>4. ~ task[s].fresh
      BY <1>1, <2>1, <2>3 DEF S!SaveMessage, TicketInv, S!Answerable
    <2>5. task'[s] = S!NoTask
      BY <1>1, <2>1 DEF S!SaveMessage, TicketInv, S!TypeOK
    <2> QED BY <2>1, <2>4, <2>5 DEF S!SaveMessage
  <1>2. TicketInv /\ [S!Next]_(S!vars) => [ticket = "closed" /\ Added => Late]_(S!vars)
    BY <1>1
  <1> QED BY <1>2, TicketAlways, PartsRunAlone, PTL DEF S!Spec, ClosedIsQuiet, S!ClosedIsQuiet

-----------------------------------------------------------------------------
(* Catalogue *)

Works == {C!NoJob} \cup C!Edits \cup C!MoveJobs

\* Why both properties hold of every step: of several covers none comes to be, and
\* a transition to a published stage that is still up to date has found, and would
\* find, the program complete.
ProgramInv ==
    /\ C!TypeOK
    /\ \A s, t \in covers : s = t
    /\ \A s \in C!Sessions :
          job[s].kind = "move" /\ job[s].fresh /\ job[s].to \in {"SUBMITTED", "PUBLISHED"}
              => C!Complete

\* The three kinds of work are told apart by their kind.
LEMMA WorkKinds ==
    ASSUME NEW j \in Works
    PROVE  /\ j.kind = "none" <=> j = C!NoJob
           /\ j.kind = "edit" <=> j \in C!Edits
           /\ j.kind = "move" <=> j \in C!MoveJobs
           /\ j.kind \in {"none", "edit", "move"}
  BY DEF Works, C!NoJob, C!Edits, C!MoveJobs

\* An overtaken work is still one, and no longer up to date.
LEMMA OutdatedWorks ==
    ASSUME ProgramInv, NEW s \in C!Sessions
    PROVE  C!Outdated[s] \in Works /\ (C!Outdated[s].kind = "move" => ~ C!Outdated[s].fresh)
  <1>1. job[s] \in Works BY DEF ProgramInv, C!TypeOK, Works
  <1>2. CASE job[s] = C!NoJob BY <1>2 DEF C!Outdated, Works, C!NoJob
  <1>3. CASE job[s] # C!NoJob
    <2>1. C!Outdated[s] = [job[s] EXCEPT !.fresh = FALSE] BY <1>3 DEF C!Outdated
    <2>2. CASE job[s] \in C!Edits BY <2>1, <2>2 DEF C!Edits, Works
    <2>3. CASE job[s] \in C!MoveJobs BY <2>1, <2>3 DEF C!MoveJobs, Works
    <2> QED BY <1>1, <1>3, <2>2, <2>3 DEF Works
  <1> QED BY <1>2, <1>3

LEMMA InitProgram == C!Init => ProgramInv
  BY DEF C!Init, ProgramInv, C!TypeOK, C!Stages, C!NoJob

\* Beginning or giving up a work leaves the program alone.
LEMMA ProgramWork ==
    ASSUME ProgramInv, NEW s \in C!Sessions, NEW j \in Works,
           job' = [job EXCEPT ![s] = j],
           UNCHANGED <<publication, programStatus, texts, stocked, covers>>,
           j.kind = "move" /\ j.to \in {"SUBMITTED", "PUBLISHED"} => C!Complete
    PROVE  ProgramInv'
  <1>1. /\ job' \in [C!Sessions -> Works]
        /\ job'[s] = j /\ \A t \in C!Sessions \ {s} : job'[t] = job[t]
    BY DEF ProgramInv, C!TypeOK, Works
  <1>2. C!Complete' <=> C!Complete BY DEF C!Complete
  <1> QED BY <1>1, <1>2 DEF ProgramInv, C!TypeOK, Works

\* A step that makes every other work stale has only to keep types and the cover.
LEMMA ProgramStale ==
    ASSUME publication' \in C!Stages, programStatus' \in {"ACTIVE", "PAUSED", "ARCHIVED"},
           texts' \in BOOLEAN, stocked' \in BOOLEAN, covers' \in SUBSET C!Sessions,
           \A s, t \in covers' : s = t,
           job' = [s \in C!Sessions |-> job'[s]],
           \A s \in C!Sessions : job'[s] \in Works /\ (job'[s].kind = "move" => ~ job'[s].fresh)
    PROVE  ProgramInv'
  <1>1. job' \in [C!Sessions -> Works] OBVIOUS
  <1> QED BY <1>1 DEF ProgramInv, C!TypeOK, Works

LEMMA SaveEditKeeps ==
    ASSUME ProgramInv, NEW s \in C!Sessions, C!SaveEdit(s)
    PROVE  ProgramInv'
  <1>1. job[s] \in Works /\ job[s].kind = "edit"
    BY DEF C!SaveEdit, ProgramInv, C!TypeOK, Works
  <1>2. job[s].media \in C!Media BY <1>1, WorkKinds DEF C!Edits
  <1>3. covers' \in SUBSET C!Sessions /\ \A a, b \in covers' : a = b
    <2>1. PICK missed \in SUBSET C!Missed(s) :
             C!Insertable(s, missed) /\ covers' = C!Replaced(s, missed)
      BY DEF C!SaveEdit
    <2>2. missed \subseteq covers BY <2>1 DEF C!Missed
    <2>3. \/ covers' = covers
          \/ covers' = missed
          \/ missed = {} /\ covers' = missed \cup {s}
      BY <1>2, <2>1 DEF C!Replaced, C!Insertable, C!Media
    <2> QED BY <2>2, <2>3 DEF ProgramInv, C!TypeOK
  <1>4. ASSUME NEW t \in C!Sessions
        PROVE  job'[t] \in Works /\ (job'[t].kind = "move" => ~ job'[t].fresh)
    <2>1. job[t] \in Works BY DEF ProgramInv, C!TypeOK, Works
    <2>2. CASE t = s
      <3>1. job'[t] = C!NoJob BY <2>2 DEF C!SaveEdit
      <3> QED BY <3>1 DEF Works, C!NoJob
    <2>3. CASE t # s /\ job[t].kind = "edit"
      <3>1. job'[t] = [job[t] EXCEPT !.fresh = FALSE, !.seen = @ \ {s}]
        BY <2>3 DEF C!SaveEdit
      <3>2. job[t] \in C!Edits BY <2>1, <2>3, WorkKinds
      <3> QED BY <3>1, <3>2 DEF C!Edits, Works
    <2>4. CASE t # s /\ job[t].kind # "edit"
      <3>1. job'[t] = C!Outdated[t] BY <2>4 DEF C!SaveEdit
      <3> QED BY <3>1, OutdatedWorks
    <2> QED BY <2>2, <2>3, <2>4
  <1>5. /\ UNCHANGED <<publication, programStatus, stocked>> /\ texts' \in BOOLEAN
        /\ job' = [t \in C!Sessions |-> job'[t]]
    BY DEF C!SaveEdit
  <1> QED BY <1>3, <1>4, <1>5, ProgramStale DEF ProgramInv, C!TypeOK

LEMMA SaveMoveKeeps ==
    ASSUME ProgramInv, NEW s \in C!Sessions, C!SaveMove(s)
    PROVE  ProgramInv'
  <1>1. job[s].to \in C!Stages
    <2>1. job[s] \in Works /\ job[s].kind = "move"
      BY DEF C!SaveMove, ProgramInv, C!TypeOK, Works
    <2> QED BY <2>1, WorkKinds DEF C!MoveJobs
  <1>2. /\ publication' \in C!Stages /\ programStatus' \in {"ACTIVE", "PAUSED", "ARCHIVED"}
        /\ UNCHANGED <<texts, stocked, covers>>
    BY <1>1 DEF C!SaveMove, C!content
  <1>3. ASSUME NEW t \in C!Sessions
        PROVE  job'[t] \in Works /\ (job'[t].kind = "move" => ~ job'[t].fresh)
    <2>1. job'[t] = IF t = s THEN C!NoJob ELSE C!Outdated[t]
      BY DEF C!SaveMove, C!Outdated
    <2>2. C!NoJob \in Works /\ C!NoJob.kind # "move" BY DEF Works, C!NoJob
    <2> QED BY <2>1, <2>2, OutdatedWorks
  <1>4. job' = [t \in C!Sessions |-> job'[t]] BY DEF C!SaveMove, C!Outdated
  <1> QED BY <1>2, <1>3, <1>4, ProgramStale DEF ProgramInv, C!TypeOK

LEMMA ProgramStep == ProgramInv /\ [C!Next]_(C!vars) => ProgramInv'
  <1> SUFFICES ASSUME ProgramInv, [C!Next]_(C!vars) PROVE ProgramInv' OBVIOUS
  <1>1. ASSUME NEW s \in C!Sessions, NEW m \in C!Media, C!BeginEdit(s, m)
        PROVE  ProgramInv'
    <2> DEFINE j == [kind |-> "edit", media |-> m, seen |-> covers, fresh |-> TRUE]
    <2>1. j \in Works /\ j.kind # "move" BY DEF ProgramInv, C!TypeOK, Works, C!Edits
    <2>2. job' = [job EXCEPT ![s] = j] BY <1>1 DEF C!BeginEdit
    <2> HIDE DEF j
    <2> QED BY <1>1, <2>1, <2>2, ProgramWork DEF C!BeginEdit, C!content
  <1>2. ASSUME NEW s \in C!Sessions, NEW to \in C!Stages, C!BeginMove(s, to)
        PROVE  ProgramInv'
    <2> DEFINE j == [kind |-> "move", to |-> to, fresh |-> TRUE]
    <2>1. j \in Works /\ j.to = to BY DEF Works, C!MoveJobs
    <2>2. job' = [job EXCEPT ![s] = j] BY <1>2 DEF C!BeginMove
    <2>3. to \in {"SUBMITTED", "PUBLISHED"} => C!Complete
      BY <1>2 DEF C!BeginMove, C!Publishable
    <2> HIDE DEF j
    <2> QED BY <1>2, <2>1, <2>2, <2>3, ProgramWork DEF C!BeginMove, C!content
  <1>3. ASSUME NEW s \in C!Sessions, C!Fail(s) PROVE ProgramInv'
    <2>1. C!NoJob \in Works /\ C!NoJob.kind # "move" BY DEF Works, C!NoJob
    <2> QED BY <1>3, <2>1, ProgramWork DEF C!Fail, C!content
  <1>4. CASE C!Restock
    <2>1. job' = [t \in C!Sessions |-> job'[t]] /\ \A t \in C!Sessions : job'[t] = C!Outdated[t]
      BY <1>4 DEF C!Restock, C!Outdated
    <2> QED BY <1>4, <2>1, OutdatedWorks, ProgramStale DEF C!Restock, ProgramInv, C!TypeOK
  <1>5. CASE UNCHANGED C!vars
    BY <1>5 DEF C!vars, C!content, ProgramInv, C!TypeOK, C!Complete
  <1> QED BY <1>1, <1>2, <1>3, <1>4, <1>5, SaveEditKeeps, SaveMoveKeeps
          DEF C!Next, C!SessionStep

LEMMA ProgramAlways == OfficeSpec => []ProgramInv
  BY InitProgram, ProgramStep, PartsRunAlone, PTL DEF C!Spec

\* However edits that replace the images at the same time miss each other's rows, a
\* program never has two covers, for any number of sessions.
THEOREM CoverIsOne == OfficeSpec => []OneCover
  <1>1. ProgramInv => OneCover BY DEF ProgramInv, OneCover, C!OneCover
  <1> QED BY <1>1, ProgramAlways, PTL

\* A program goes on sale complete, or else another session changed it between the
\* check of the transition and its write, for any number of sessions.
THEOREM SalesAreComplete == OfficeSpec => PublishedComplete
  <1> DEFINE Opened == ~C!OnSale /\ C!OnSale'
             Late   == \E s \in C!Sessions : C!Overtaken(s)
  <1>1. ASSUME ProgramInv, [C!Next]_(C!vars), Opened
        PROVE  C!Complete' \/ Late
    <2>1. PICK s \in C!Sessions : C!SaveMove(s)
      BY <1>1 DEF C!Next, C!SessionStep, C!BeginEdit, C!BeginMove, C!SaveEdit, C!Fail,
                  C!Restock, C!OnSale, C!vars
    <2>2. job[s].kind = "move" /\ job[s].to = "PUBLISHED"
      BY <1>1, <2>1 DEF C!SaveMove, C!OnSale
    <2>3. CASE job[s].fresh
      <3>1. C!Complete BY <1>1, <2>2, <2>3 DEF ProgramInv
      <3> QED BY <2>1, <3>1 DEF C!SaveMove, C!content, C!Complete
    <2>4. CASE ~ job[s].fresh
      <3>1. job'[s] = C!NoJob /\ job[s] # C!NoJob
        BY <2>1, <2>2 DEF C!SaveMove, C!Outdated, C!NoJob
      <3> QED BY <2>4, <3>1 DEF C!Overtaken
    <2> QED BY <2>3, <2>4
  <1>2. ProgramInv /\ [C!Next]_(C!vars) => [Opened => C!Complete' \/ Late]_(C!vars)
    BY <1>1
  <1> QED BY <1>2, ProgramAlways, PartsRunAlone, PTL
          DEF C!Spec, PublishedComplete, C!PublishedComplete

-----------------------------------------------------------------------------
(* All parts *)

\* Every row, and whatever a request of any part carries, has its type.
THEOREM PartsTypeCorrect == OfficeSpec => []PartsTypeOK
  <1>1. Spec => []TypeOK BY TypeCorrect
  <1>2. PayInv /\ TicketInv /\ ProgramInv => P!TypeOK /\ S!TypeOK /\ C!TypeOK
    BY DEF PayInv, TicketInv, ProgramInv
  <1> QED BY <1>1, <1>2, PartsRunAlone, T!TypeCorrect, V!TypeCorrect, L!TypeCorrect,
             PayAlways, TicketAlways, ProgramAlways, PTL DEF PartsTypeOK
=============================================================================
