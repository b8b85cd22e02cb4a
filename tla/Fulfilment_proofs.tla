-------------------------- MODULE Fulfilment_proofs --------------------------
(***************************************************************************)
(* Proofs about Fulfilment for any number of orders, workers and staff.    *)
(***************************************************************************)
EXTENDS Fulfilment, TLAPS

Entries == [order : Orders, seen : OrderStates, known : BOOLEAN]

\* The part of TypeOK about the workers.
WorkersOK ==
    /\ pc \in [Workers -> Labels]
    /\ job \in [Workers -> Tasks \cup {NoJob}]
    /\ \A w \in Workers : pc[w] \notin {"idle", "next"} => job[w] # NoJob
    /\ batch \in [Workers -> SUBSET Entries]
    /\ failures \in [Workers -> SUBSET Orders]

\* A worker in the handler of an order carries that order.
Busy(w) == pc[w] \notin {"idle", "next"}

LEMMA JobParts ==
    ASSUME WorkersOK, NEW w \in Workers, Busy(w)
    PROVE  /\ job[w] \in Tasks /\ job[w].order \in Orders
           /\ job[w].to \in AttemptStates
  BY DEF WorkersOK, Tasks, Busy

\* The ways a worker moves on keep that part.
LEMMA GotoOK ==
    ASSUME WorkersOK, NEW w \in Workers, Busy(w), NEW l \in Labels, Goto(w, l)
    PROVE  WorkersOK'
  BY DEF WorkersOK, Goto, Busy

LEMMA GotoForOK ==
    ASSUME WorkersOK, NEW w \in Workers, Busy(w), NEW l \in Labels,
           NEW t \in AttemptStates, GotoFor(w, l, t)
    PROVE  WorkersOK'
  <1>1. job[w] \in Tasks BY JobParts
  <1>2. [job[w] EXCEPT !.to = t] \in Tasks BY <1>1 DEF Tasks
  <1>3. [job[w] EXCEPT !.to = t] # NoJob
    BY <1>1 DEF Tasks, NoJob
  <1> QED BY <1>1, <1>2, <1>3 DEF WorkersOK, GotoFor, Busy

LEMMA ReturnOK ==
    ASSUME WorkersOK, NEW w \in Workers, NEW left \in SUBSET Orders, Return(w, left)
    PROVE  WorkersOK'
  BY DEF WorkersOK, Return, Labels

LEMMA DoneOK ==
    ASSUME WorkersOK, NEW w \in Workers, Done(w)
    PROVE  WorkersOK'
  BY ReturnOK DEF WorkersOK, Done

LEMMA FinishOK ==
    ASSUME WorkersOK, NEW w \in Workers, Finish(w)
    PROVE  WorkersOK'
  BY DEF WorkersOK, Finish, Forget, Labels

LEMMA StartOK ==
    ASSUME WorkersOK, NEW w \in Workers, NEW l \in Labels, NEW j \in Tasks,
           pc' = [pc EXCEPT ![w] = l], job' = [job EXCEPT ![w] = j],
           batch' \in [Workers -> SUBSET Entries], failures' \in [Workers -> SUBSET Orders]
    PROVE  WorkersOK'
  <1>1. j # NoJob BY DEF Tasks, NoJob
  <1> QED BY <1>1 DEF WorkersOK

\* The part of TypeOK about everything else.
RowsOK ==
    /\ booking \in [Orders -> OrderStates]
    /\ paid \in [Orders -> {"paid", "refunded"}]
    /\ attempt \in [Orders -> AttemptStates \cup {"none"}]
    /\ comp \in [Orders -> {"none", "processing", "completed", "failed"}]
    /\ ask \in [Orders -> {"none", "requested", "processing", "failed"}]
    /\ credited \in [Orders -> Nat]
    /\ older \subseteq Orders \X Orders
    /\ refund \in [Orders -> {"none", "pending", "returned"}]
    /\ supplier \in [Orders -> {"none", "pending", "failed", "reserved", "confirmed"}]
    /\ panel \in [Operators -> Edits \cup {NoEdit}]
    /\ edited \subseteq Orders

\* What the ways to move on do to where a worker is and to its job.
OnlyWorker(w) == \A v \in Workers \ {w} : pc'[v] = pc[v] /\ job'[v] = job[v]

LEMMA MovesGoto ==
    ASSUME WorkersOK, NEW w \in Workers, NEW l, Goto(w, l)
    PROVE  pc'[w] = l /\ job'[w] = job[w] /\ OnlyWorker(w)
  BY DEF WorkersOK, Goto, OnlyWorker

LEMMA MovesGotoFor ==
    ASSUME WorkersOK, NEW w \in Workers, Busy(w), NEW l, NEW t, GotoFor(w, l, t)
    PROVE  /\ pc'[w] = l /\ job'[w].to = t /\ job'[w].order = job[w].order
           /\ OnlyWorker(w)
  <1>1. job[w] \in Tasks BY JobParts
  <1>2. /\ [job[w] EXCEPT !.to = t].to = t
        /\ [job[w] EXCEPT !.to = t].order = job[w].order
    BY <1>1 DEF Tasks
  <1>3. job'[w] = [job[w] EXCEPT !.to = t]
    BY DEF WorkersOK, GotoFor
  <1>4. pc'[w] = l /\ OnlyWorker(w)
    BY DEF WorkersOK, GotoFor, OnlyWorker
  <1> QED BY <1>2, <1>3, <1>4

LEMMA MovesReturn ==
    ASSUME WorkersOK, NEW w \in Workers, NEW left, Return(w, left)
    PROVE  pc'[w] \in {"idle", "next"} /\ OnlyWorker(w)
  BY DEF WorkersOK, Return, OnlyWorker

LEMMA MovesDone ==
    ASSUME WorkersOK, NEW w \in Workers, Done(w)
    PROVE  pc'[w] \in {"idle", "next"} /\ OnlyWorker(w)
  BY MovesReturn DEF Done

LEMMA MovesFinish ==
    ASSUME WorkersOK, NEW w \in Workers, Finish(w)
    PROVE  pc'[w] = "idle" /\ OnlyWorker(w)
  BY DEF WorkersOK, Finish, OnlyWorker

LEMMA MovesAnswered ==
    ASSUME WorkersOK, RowsOK, NEW w \in Workers, Busy(w), NEW s, NEW t, Answered(w, s, t)
    PROVE  /\ pc'[w] = "checkAttempt" /\ job'[w].to = t /\ job'[w].order = job[w].order
           /\ supplier'[job[w].order] = s
           /\ \A o \in Orders \ {job[w].order} : supplier'[o] = supplier[o]
           /\ OnlyWorker(w)
  BY MovesGotoFor, JobParts DEF Answered, RowsOK

LEMMA InitType == Init => TypeOK
  BY FulfilmentAssumption
  DEF Init, TypeOK, OrderStates, AttemptStates, Labels, NoJob, NoEdit

LEMMA OutcomeIsState ==
    ASSUME NEW s \in AttemptStates
    PROVE  OrderOutcome(s) \in {"confirmed", "reservation_failed", "manual_review_required"}
  BY DEF OrderOutcome

LEMMA TouchOK ==
    ASSUME older \subseteq Orders \X Orders, NEW o \in Orders, Touch(o)
    PROVE  older' \subseteq Orders \X Orders
  BY DEF Touch

LEMMA AnsweredOK ==
    ASSUME WorkersOK, RowsOK, NEW w \in Workers, Busy(w), NEW t \in AttemptStates,
           NEW s \in {"none", "pending", "failed", "reserved", "confirmed"},
           Answered(w, s, t)
    PROVE  WorkersOK' /\ supplier' \in [Orders -> {"none", "pending", "failed", "reserved", "confirmed"}]
  BY GotoForOK DEF Answered, RowsOK, Labels

\* Every action keeps TypeOK.
LEMMA TypeStep == TypeOK /\ [Next]_vars => TypeOK'
  <1> SUFFICES ASSUME WorkersOK, RowsOK, [Next]_vars PROVE WorkersOK' /\ RowsOK'
    BY DEF TypeOK, WorkersOK, RowsOK, Entries
  <1> USE FulfilmentAssumption DEF rows, outside, desk
  <1>1. ASSUME NEW w \in Workers, NEW o \in Orders, CompleteBooking(w, o)
        PROVE WorkersOK' /\ RowsOK'
    <2>1. Task(o, booking[o], "SELECTED", FALSE) \in Tasks
      BY DEF Task, Tasks, RowsOK, AttemptStates
    <2>2. WorkersOK' BY <1>1, <2>1, StartOK DEF CompleteBooking, WorkersOK, Labels
    <2> QED BY <1>1, <2>2 DEF CompleteBooking, RowsOK
  <1>2. ASSUME NEW w \in Workers, ListUnresolved(w) PROVE WorkersOK' /\ RowsOK'
    <2>1. Listing \subseteq Entries
      <3>1. \A o \in Listed : o \in Orders BY DEF Listed, Undecided
      <3>2. \A e \in Listing : e \in Entries
        <4> TAKE e \in Listing
        <4>1. PICK o \in Listed :
                e = [order |-> o, seen |-> booking[o], known |-> attempt[o] = "UNKNOWN"]
          BY DEF Listing
        <4>2. o \in Orders /\ booking[o] \in OrderStates BY <3>1, <4>1 DEF RowsOK
        <4>3. (attempt[o] = "UNKNOWN") \in BOOLEAN OBVIOUS
        <4> QED BY <4>1, <4>2, <4>3, Zenon DEF Entries
      <3> QED BY <3>2
    <2>2. WorkersOK' BY <1>2, <2>1 DEF ListUnresolved, WorkersOK, Labels
    <2> QED BY <1>2, <2>2 DEF ListUnresolved, RowsOK
  <1>3. ASSUME NEW w \in Workers, RunStep(w) PROVE WorkersOK' /\ RowsOK'
    <2>1. CASE TakeUp(w)
      <3>1. PICK e \in batch[w] :
              /\ batch' = [batch EXCEPT ![w] = @ \ {e}]
              /\ pc'    = [pc EXCEPT ![w] = IF e.known THEN "query" ELSE "lookup"]
              /\ job'   = [job EXCEPT ![w] = Task(e.order, e.seen, "SELECTED", TRUE)]
        BY <2>1 DEF TakeUp
      <3>2. e \in Entries BY DEF WorkersOK
      <3>3. Task(e.order, e.seen, "SELECTED", TRUE) \in Tasks
        BY <3>2 DEF Task, Tasks, Entries, AttemptStates
      <3>4. (IF e.known THEN "query" ELSE "lookup") \in Labels BY DEF Labels
      <3>5. batch' \in [Workers -> SUBSET Entries] /\ failures' = failures
        BY <2>1, <3>1 DEF TakeUp, WorkersOK
      <3>6. WorkersOK' BY <3>1, <3>3, <3>4, <3>5, StartOK DEF WorkersOK
      <3> QED BY <2>1, <3>6 DEF TakeUp, RowsOK
    <2>2. CASE TakeUpFailure(w)
      <3>1. PICK o \in failures[w] :
              /\ failures' = [failures EXCEPT ![w] = @ \ {o}]
              /\ pc'  = [pc EXCEPT ![w] = "begin"]
              /\ job' = [job EXCEPT ![w] = Task(o, "reservation_failed", "FAILED", TRUE)]
        BY <2>2 DEF TakeUpFailure
      <3>2. o \in Orders BY DEF WorkersOK
      <3>3. Task(o, "reservation_failed", "FAILED", TRUE) \in Tasks
        BY <3>2 DEF Task, Tasks, AttemptStates, OrderStates
      <3>4. failures' \in [Workers -> SUBSET Orders] /\ batch' = batch
        BY <2>2, <3>1 DEF TakeUpFailure, WorkersOK
      <3>5. WorkersOK' BY <3>1, <3>3, <3>4, StartOK DEF WorkersOK, Labels
      <3> QED BY <2>2, <3>5 DEF TakeUpFailure, RowsOK
    <2> QED BY <1>3, <2>1, <2>2 DEF RunStep
  <1>4. ASSUME NEW w \in Workers, BookingStep(w) PROVE WorkersOK' /\ RowsOK'
    <2>1. CASE Lookup(w)
      BY <2>1, GotoOK, GotoForOK, DoneOK DEF Lookup, RowsOK, Labels, AttemptStates, Busy
    <2>2. CASE CreateAttempt(w)
      BY <2>2, JobParts, GotoOK DEF CreateAttempt, RowsOK, Labels, AttemptStates, Busy
    <2>3. CASE Revalidate(w)
      BY <2>3, GotoForOK DEF Revalidate, RowsOK, Labels, AttemptStates, Busy
    <2>4. CASE Reserve(w)
      <3>1. Busy(w) BY <2>4 DEF Reserve, Busy
      <3>2. supplier[job[w].order] \in {"none", "pending", "failed", "reserved", "confirmed"}
        BY <3>1, JobParts DEF RowsOK
      <3>3. \E s \in {"none", "pending", "failed", "reserved", "confirmed"},
               t \in AttemptStates : Answered(w, s, t)
        BY <2>4, <3>2 DEF Reserve, Unanswered, AttemptStates
      <3>4. /\ WorkersOK'
            /\ supplier' \in [Orders -> {"none", "pending", "failed", "reserved", "confirmed"}]
        BY <3>1, <3>3, AnsweredOK
      <3> QED BY <2>4, <3>4 DEF Reserve, RowsOK
    <2>5. CASE Confirm(w)
      <3>1. Busy(w) BY <2>5 DEF Confirm, Busy
      <3>2. supplier[job[w].order] \in {"none", "pending", "failed", "reserved", "confirmed"}
        BY <3>1, JobParts DEF RowsOK
      <3>3. \E s \in {"none", "pending", "failed", "reserved", "confirmed"},
               t \in AttemptStates : Answered(w, s, t)
        BY <2>5, <3>2 DEF Confirm, Unanswered, AttemptStates
      <3>4. /\ WorkersOK'
            /\ supplier' \in [Orders -> {"none", "pending", "failed", "reserved", "confirmed"}]
        BY <3>1, <3>3, AnsweredOK
      <3> QED BY <2>5, <3>4 DEF Confirm, RowsOK
    <2>6. CASE QueryReservation(w)
      BY <2>6, GotoForOK, DoneOK, FinishOK
      DEF QueryReservation, RowsOK, Labels, AttemptStates, Busy
    <2>7. CASE CheckAttempt(w)
      BY <2>7, GotoOK, FinishOK DEF CheckAttempt, RowsOK, Labels, Busy
    <2>8. CASE WriteAttempt(w)
      BY <2>8, JobParts, GotoOK DEF WriteAttempt, RowsOK, Labels, Busy
    <2>9. CASE CheckOrder(w)
      BY <2>9, GotoOK, FinishOK DEF CheckOrder, RowsOK, Labels, Busy
    <2>10. CASE WriteOrder(w)
      <3>1. Busy(w) BY <2>10 DEF WriteOrder, Busy
      <3>2. job[w].order \in Orders /\ OrderOutcome(job[w].to) \in OrderStates
        BY <3>1, JobParts, OutcomeIsState DEF OrderStates
      <3>3. failures[w] \cup {job[w].order} \in SUBSET Orders
        BY <3>2 DEF WorkersOK
      <3>4. WorkersOK'
        BY <2>10, <3>1, <3>3, GotoOK, DoneOK, ReturnOK DEF WriteOrder, Labels
      <3> QED BY <2>10, <3>2, <3>4, TouchOK DEF WriteOrder, RowsOK
    <2> QED BY <1>4, <2>1, <2>2, <2>3, <2>4, <2>5, <2>6, <2>7, <2>8, <2>9, <2>10
            DEF BookingStep
  <1>5. ASSUME NEW w \in Workers, CompensationStep(w) PROVE WorkersOK' /\ RowsOK'
    <2>0. Busy(w) /\ job[w].order \in Orders
      BY <1>5, JobParts DEF Busy, CompensationStep, BeginCompensation, RefundPayment,
         CompleteCompensation, FailRefund, FailOrder
    <2>1. CASE BeginCompensation(w)
      <3>1. WorkersOK'
        BY <2>0, <2>1, GotoOK, DoneOK, FinishOK DEF BeginCompensation, Labels
      <3> QED BY <2>0, <2>1, <3>1, TouchOK DEF BeginCompensation, RowsOK, OrderStates
    <2>2. CASE RefundPayment(w)
      <3>1. WorkersOK' BY <2>0, <2>2, GotoOK DEF RefundPayment, Labels
      <3> QED BY <2>0, <2>2, <3>1 DEF RefundPayment, RowsOK
    <2>3. CASE CompleteCompensation(w)
      <3>1. ASSUME pc' = [pc EXCEPT ![w] = "failRefund"], Forget(w), UNCHANGED job
            PROVE WorkersOK'
        BY <2>0, <3>1 DEF Forget, WorkersOK, Labels, Busy
      <3>2. WorkersOK' BY <2>0, <2>3, <3>1, DoneOK DEF CompleteCompensation
      <3> QED BY <2>0, <2>3, <3>2, TouchOK DEF CompleteCompensation, RowsOK, OrderStates
    <2>4. CASE FailRefund(w)
      BY <2>0, <2>4, GotoOK DEF FailRefund, RowsOK, Labels
    <2>5. CASE FailOrder(w)
      BY <2>0, <2>5, DoneOK, TouchOK DEF FailOrder, RowsOK, OrderStates
    <2> QED BY <1>5, <2>1, <2>2, <2>3, <2>4, <2>5 DEF CompensationStep
  <1>6. ASSUME NEW w \in Workers, Abandon(w) PROVE WorkersOK' /\ RowsOK'
    BY <1>6, FinishOK DEF Abandon, RowsOK
  <1>7. ASSUME NEW o \in Orders, Resolve(o) \/ ReturnMoney(o) \/ RequestRefund(o)
        PROVE WorkersOK' /\ RowsOK'
    BY <1>7 DEF Resolve, ReturnMoney, RequestRefund, work, WorkersOK, RowsOK
  <1>8. ASSUME NEW p \in Operators, NEW o \in Orders, OpenEdit(p, o)
        PROVE WorkersOK' /\ RowsOK'
    <2>1. OverrideMoves[booking[o]] \subseteq OrderStates \ {"refunded"}
      BY DEF OverrideMoves, OrderStates, RowsOK
    <2>2. PICK e \in Edits : panel' = [panel EXCEPT ![p] = e]
      BY <1>8, <2>1 DEF OpenEdit, Edits
    <2> QED BY <1>8, <2>2 DEF OpenEdit, work, WorkersOK, RowsOK
  <1>9. ASSUME NEW p \in Operators, SaveEdit(p) PROVE WorkersOK' /\ RowsOK'
    <2>1. panel[p] \in Edits BY <1>9 DEF SaveEdit, RowsOK
    <2>2. panel[p].order \in Orders BY <2>1 DEF Edits
    <2>3. panel[p].row = "booking" => panel[p].to \in OrderStates BY <2>1 DEF Edits
    <2>4. panel[p].row \in {"comp", "ask"} => panel[p].to \in {"processing", "failed"}
      BY <2>1 DEF Edits
    <2>5. older' \subseteq Orders \X Orders
      BY <1>9, <2>2, TouchOK DEF SaveEdit, RowsOK
    <2> QED BY <1>9, <2>2, <2>3, <2>4, <2>5 DEF SaveEdit, work, WorkersOK, RowsOK
  <1>10. CASE UNCHANGED vars
    BY <1>10 DEF vars, work, WorkersOK, RowsOK
  <1> QED BY <1>1, <1>2, <1>3, <1>4, <1>5, <1>6, <1>7, <1>8, <1>9, <1>10 DEF Next

\* Every column, label, carried job and open edit has its type.
THEOREM TypeCorrect == Spec => []TypeOK
  BY InitType, TypeStep, PTL DEF Spec

-----------------------------------------------------------------------------
\* A credit needs a refund row that has none yet, whatever happened to its
\* status: the wallet is never credited twice.
THEOREM CreditedOnce == Spec => []RefundedOnce
  <1>1. Init => RefundedOnce
    BY DEF Init, RefundedOnce
  <1>2. TypeOK /\ RefundedOnce /\ [Next]_vars => RefundedOnce'
    <2> SUFFICES ASSUME TypeOK, RefundedOnce, [Next]_vars PROVE RefundedOnce'
      OBVIOUS
    <2>1. ASSUME NEW w \in Workers, CompleteCompensation(w) PROVE RefundedOnce'
      BY <2>1 DEF CompleteCompensation, WalletDue, RefundedOnce, TypeOK
    <2>2. CASE UNCHANGED credited
      BY <2>2 DEF RefundedOnce
    <2> QED BY <2>1, <2>2
        DEF Next, BookingStep, CompensationStep, RunStep, CompleteBooking,
            ListUnresolved, TakeUp, TakeUpFailure,
            Lookup, CreateAttempt, Revalidate, Reserve, Confirm, QueryReservation,
            CheckAttempt, WriteAttempt, CheckOrder, WriteOrder, BeginCompensation,
            RefundPayment, FailRefund, FailOrder, Abandon, Resolve, ReturnMoney,
            RequestRefund, OpenEdit, SaveEdit, vars, rows, outside, desk
  <1> QED BY <1>1, <1>2, TypeCorrect, PTL DEF Spec

\* Why RefundedIsAccepted is inductive: a worker only reaches the closing
\* transaction after the gateway has accepted the refund, which it never takes back.
MoneyInv ==
    /\ RefundedIsAccepted
    /\ \A w \in Workers : pc[w] = "complete" /\ job[w].order \in HasOnline
                             => refund[job[w].order] # "none"

LEMMA InitMoney == Init => MoneyInv
  BY DEF Init, MoneyInv, RefundedIsAccepted

Accepts == \A o \in Orders : refund[o] # "none" => refund'[o] # "none"
NewlyRefunded(o) == booking'[o] = "refunded" /\ booking[o] # "refunded"

\* A step that neither refunds an order nor sends a worker to the closing
\* transaction, and takes no refund back, keeps MoneyInv.
LEMMA OtherKeepsMoney ==
    ASSUME MoneyInv, WorkersOK, NEW w \in Workers, Accepts,
           UNCHANGED <<paid, credited>>, \A o \in Orders : ~ NewlyRefunded(o), OnlyWorker(w),
           pc'[w] = "complete" /\ job'[w].order \in HasOnline
               => refund'[job'[w].order] # "none"
    PROVE  MoneyInv'
  <1>1. \A v \in Workers : pc[v] = "complete" => job[v].order \in Orders
    BY JobParts DEF Busy
  <1>2. RefundedIsAccepted'
    BY DEF MoneyInv, RefundedIsAccepted, Accepts, NewlyRefunded
  <1> QED BY <1>1, <1>2 DEF MoneyInv, OnlyWorker, Accepts

\* A step outside the workers keeps MoneyInv unless it sets an order to refunded.
LEMMA OutsideKeepsMoney ==
    ASSUME MoneyInv, WorkersOK, Accepts, UNCHANGED <<paid, credited, pc, job>>,
           \A o \in Orders : ~ NewlyRefunded(o)
    PROVE  MoneyInv'
  <1>1. \A v \in Workers : pc[v] = "complete" => job[v].order \in Orders
    BY JobParts DEF Busy
  <1> QED BY <1>1 DEF MoneyInv, RefundedIsAccepted, Accepts, NewlyRefunded

LEMMA MoneyStep == MoneyInv /\ TypeOK /\ [Next]_vars => MoneyInv'
  <1> SUFFICES ASSUME MoneyInv, WorkersOK, RowsOK, [Next]_vars PROVE MoneyInv'
    BY DEF TypeOK, WorkersOK, RowsOK, Entries
  <1> USE DEF rows, outside, desk
  <1>1. ASSUME NEW w \in Workers, UNCHANGED <<booking, refund, paid, credited>>,
               OnlyWorker(w), pc'[w] # "complete"
        PROVE  MoneyInv'
    BY <1>1, OtherKeepsMoney DEF Accepts, NewlyRefunded
  <1>2. ASSUME NEW w \in Workers, NEW o \in Orders, CompleteBooking(w, o) PROVE MoneyInv'
    BY <1>1, <1>2 DEF CompleteBooking, WorkersOK, OnlyWorker
  <1>3. ASSUME NEW w \in Workers, ListUnresolved(w) \/ RunStep(w) PROVE MoneyInv'
    BY <1>1, <1>3 DEF ListUnresolved, RunStep, TakeUp, TakeUpFailure, WorkersOK, OnlyWorker
  <1>4. ASSUME NEW w \in Workers, BookingStep(w) PROVE MoneyInv'
    <2>0. Busy(w)
      BY <1>4 DEF Busy, BookingStep, Lookup, CreateAttempt, Revalidate, Reserve, Confirm,
         QueryReservation, CheckAttempt, WriteAttempt, CheckOrder, WriteOrder
    <2>1. CASE WriteOrder(w)
      <3>1. OrderOutcome(job[w].to) # "refunded"
        BY DEF OrderOutcome
      <3>2. UNCHANGED <<refund, paid, credited>> /\ OnlyWorker(w) /\ pc'[w] # "complete"
        BY <2>1, MovesGoto, MovesDone, MovesReturn DEF WriteOrder
      <3>3. \A o \in Orders : ~ NewlyRefunded(o)
        BY <2>1, <3>1 DEF WriteOrder, RowsOK, NewlyRefunded
      <3> QED BY <3>2, <3>3, OtherKeepsMoney DEF Accepts
    <2>2. CASE Reserve(w) \/ Confirm(w)
      <3>1. \E s, t : Answered(w, s, t)
        BY <2>2 DEF Reserve, Confirm, Unanswered
      <3>2. UNCHANGED <<booking, refund, paid, credited>>
        BY <2>2 DEF Reserve, Confirm
      <3> QED BY <1>1, <2>0, <3>1, <3>2, MovesAnswered
    <2>3. CASE ~ (WriteOrder(w) \/ Reserve(w) \/ Confirm(w))
      <3>1. UNCHANGED <<booking, refund, paid, credited>>
        BY <1>4, <2>3 DEF BookingStep, Lookup, CreateAttempt, Revalidate,
             QueryReservation, CheckAttempt, WriteAttempt, CheckOrder
      <3>2. OnlyWorker(w) /\ pc'[w] # "complete"
        BY <1>4, <2>0, <2>3, MovesGoto, MovesGotoFor, MovesDone, MovesFinish
        DEF BookingStep, Lookup, CreateAttempt, Revalidate,
             QueryReservation, CheckAttempt, WriteAttempt, CheckOrder
      <3> QED BY <1>1, <3>1, <3>2
    <2> QED BY <2>1, <2>2, <2>3
  <1>5. ASSUME NEW w \in Workers, CompensationStep(w) PROVE MoneyInv'
    <2>0. Busy(w) /\ job[w].order \in Orders
      BY <1>5, JobParts DEF Busy, CompensationStep, BeginCompensation, RefundPayment,
         CompleteCompensation, FailRefund, FailOrder
    <2>1. CASE BeginCompensation(w)
      <3>1. UNCHANGED <<refund, paid, credited>> /\ OnlyWorker(w)
        BY <2>1, MovesGoto, MovesDone, MovesFinish DEF BeginCompensation
      <3>2. \A o \in Orders : ~ NewlyRefunded(o)
        BY <2>0, <2>1 DEF BeginCompensation, RowsOK, NewlyRefunded
      <3>3. ~ (pc'[w] = "complete" /\ job'[w].order \in HasOnline)
        BY <2>1, MovesGoto, MovesDone, MovesFinish DEF BeginCompensation
      <3> QED BY <3>1, <3>2, <3>3, OtherKeepsMoney DEF Accepts
    <2>2. CASE RefundPayment(w)
      <3>1. /\ UNCHANGED <<booking, paid, credited>>
            /\ \A o \in Orders : ~ NewlyRefunded(o)
        BY <2>2 DEF RefundPayment, NewlyRefunded
      <3>2. PICK s \in IF refund[job[w].order] = "none" THEN {"none", "pending", "returned"}
                        ELSE {refund[job[w].order]} :
                /\ refund' = [refund EXCEPT ![job[w].order] = s]
                /\ \/ s # "none" /\ Goto(w, "complete")
                   \/ Goto(w, "failRefund")
        BY <2>2 DEF RefundPayment
      <3>3. OnlyWorker(w) /\ (pc'[w] = "complete" => job'[w] = job[w] /\ s # "none")
        BY <3>2, MovesGoto
      <3>4. Accepts BY <2>0, <3>2 DEF RowsOK, Accepts
      <3>5. refund'[job[w].order] = s BY <2>0, <3>2 DEF RowsOK
      <3> QED BY <3>1, <3>3, <3>4, <3>5, OtherKeepsMoney
    <2>3. CASE CompleteCompensation(w)
      <3> DEFINE o == job[w].order
      <3>1. o \in Orders /\ (o \in HasOnline => refund[o] # "none")
        BY <2>0, <2>3 DEF CompleteCompensation, MoneyInv
      <3>2. refund' = refund /\ OnlyWorker(w) /\ pc'[w] # "complete"
        BY <2>3, MovesDone DEF CompleteCompensation, OnlyWorker, WorkersOK
      <3>3. CASE UNCHANGED <<credited, paid, booking>>
        BY <1>1, <3>2, <3>3
      <3>4. CASE /\ credited' = IF WalletDue(o) THEN [credited EXCEPT ![o] = @ + 1]
                                ELSE credited
                 /\ paid'    = [paid EXCEPT ![o] = "refunded"]
                 /\ booking' = [booking EXCEPT ![o] = "refunded"]
        <4>1. o \in HasWallet => credited'[o] > 0
          BY <3>1, <3>4 DEF WalletDue, RowsOK
        <4>2. \A q \in Orders \ {o} : /\ credited'[q] = credited[q]
                                     /\ paid'[q] = paid[q] /\ booking'[q] = booking[q]
          BY <3>1, <3>4 DEF RowsOK
        <4>3. RefundedIsAccepted'
          BY <3>1, <3>2, <4>1, <4>2 DEF MoneyInv, RefundedIsAccepted
        <4> QED BY <3>2, <4>3 DEF MoneyInv, OnlyWorker
      <3> QED BY <2>3, <3>3, <3>4 DEF CompleteCompensation
    <2>4. CASE FailRefund(w)
      BY <1>1, <2>4, MovesGoto DEF FailRefund
    <2>5. CASE FailOrder(w)
      <3>1. UNCHANGED <<refund, paid, credited>> /\ OnlyWorker(w) /\ pc'[w] # "complete"
        BY <2>5, MovesDone DEF FailOrder
      <3>2. \A o \in Orders : ~ NewlyRefunded(o)
        BY <2>0, <2>5 DEF FailOrder, RowsOK, NewlyRefunded
      <3> QED BY <3>1, <3>2, OtherKeepsMoney DEF Accepts
    <2> QED BY <1>5, <2>1, <2>2, <2>3, <2>4, <2>5 DEF CompensationStep
  <1>6. ASSUME NEW w \in Workers, Abandon(w) PROVE MoneyInv'
    BY <1>1, <1>6, MovesFinish DEF Abandon
  <1>7. ASSUME NEW o \in Orders, Resolve(o) \/ RequestRefund(o) PROVE MoneyInv'
    BY <1>7, OutsideKeepsMoney DEF Resolve, RequestRefund, work, Accepts, NewlyRefunded
  <1>8. ASSUME NEW o \in Orders, ReturnMoney(o) PROVE MoneyInv'
    <2>1. Accepts BY <1>8 DEF ReturnMoney, RowsOK, Accepts
    <2> QED BY <1>8, <2>1, OutsideKeepsMoney DEF ReturnMoney, work, NewlyRefunded
  <1>9. ASSUME NEW p \in Operators, NEW o \in Orders, OpenEdit(p, o) PROVE MoneyInv'
    BY <1>9, OutsideKeepsMoney DEF OpenEdit, work, Accepts, NewlyRefunded
  <1>10. ASSUME NEW p \in Operators, SaveEdit(p) PROVE MoneyInv'
    <2>1. panel[p] \in Edits BY <1>10 DEF SaveEdit, RowsOK
    <2>2. panel[p].row = "booking" => panel[p].to # "refunded" BY <2>1 DEF Edits
    <2>3. UNCHANGED <<refund, paid, credited, pc, job>> BY <1>10 DEF SaveEdit, work
    <2>4. \A o \in Orders : ~ NewlyRefunded(o)
      BY <1>10, <2>2 DEF SaveEdit, RowsOK, NewlyRefunded
    <2> QED BY <2>3, <2>4, OutsideKeepsMoney DEF Accepts
  <1>11. CASE UNCHANGED vars
    BY <1>11, OutsideKeepsMoney DEF vars, work, Accepts, NewlyRefunded
  <1> QED BY <1>2, <1>3, <1>4, <1>5, <1>6, <1>7, <1>8, <1>9, <1>10, <1>11 DEF Next

\* An order shown as refunded has its wallet part credited and its online part
\* accepted for refund, whatever handlers, crashes and operators do at the same time.
THEOREM RefundsAreAccepted == Spec => []RefundedIsAccepted
  <1>1. MoneyInv => RefundedIsAccepted BY DEF MoneyInv
  <1> QED BY <1>1, InitMoney, MoneyStep, TypeCorrect, PTL DEF Spec

-----------------------------------------------------------------------------
\* The unique index on open refunds, which requestRefund and beginCompensation
\* respect, and what it is good for.
ClosedInv ==
    /\ \A o \in Orders \ edited : comp[o] \in Open => ask[o] \notin Open
    /\ RefundClosesRequests

\* Handlers and customers never leave a request open on a refunded order that no
\* operator wrote to.  (Two members of staff can: one saves an edit that the other
\* overtook.)
THEOREM RequestsClosed == Spec => []RefundClosesRequests
  <1>1. Init => ClosedInv
    BY DEF Init, ClosedInv, RefundClosesRequests, Open
  <1>2. TypeOK /\ ClosedInv /\ [Next]_vars => ClosedInv'
    <2> SUFFICES ASSUME TypeOK, ClosedInv, [Next]_vars PROVE ClosedInv'
      OBVIOUS
    <2> USE DEF ClosedInv, RefundClosesRequests, desk
    <2>1. ASSUME NEW w \in Workers, BeginCompensation(w) PROVE ClosedInv'
      <3>1. UNCHANGED <<ask, paid, edited>> BY <2>1 DEF BeginCompensation
      <3>2. CASE UNCHANGED comp BY <3>1, <3>2
      <3>3. CASE /\ ask[job[w].order] \notin Open
                 /\ comp' = [comp EXCEPT ![job[w].order] = "processing"]
        <4>1. \A o \in Orders : o # job[w].order => comp'[o] = comp[o]
          BY <3>3 DEF TypeOK
        <4> QED BY <3>1, <3>3, <4>1
      <3> QED BY <2>1, <3>2, <3>3 DEF BeginCompensation, MayBegin
    <2>2. ASSUME NEW w \in Workers, CompleteCompensation(w) PROVE ClosedInv'
      BY <2>2 DEF CompleteCompensation, TypeOK, Open
    <2>3. ASSUME NEW w \in Workers, FailRefund(w) PROVE ClosedInv'
      BY <2>3 DEF FailRefund, TypeOK, Open
    <2>4. ASSUME NEW o \in Orders, RequestRefund(o) PROVE ClosedInv'
      BY <2>4 DEF RequestRefund, Refundable, TypeOK
    <2>5. CASE UNCHANGED <<comp, ask, paid, edited>>
      BY <2>5
    <2>6. ASSUME NEW p \in Operators, SaveEdit(p) PROVE ClosedInv'
      <3>1. /\ edited' = edited \cup {panel[p].order} /\ UNCHANGED paid
            /\ \A o \in Orders \ {panel[p].order} : comp'[o] = comp[o] /\ ask'[o] = ask[o]
        BY <2>6 DEF SaveEdit, TypeOK
      <3> QED BY <3>1
    <2>7. ASSUME NEW p \in Operators, NEW o \in Orders, OpenEdit(p, o) PROVE ClosedInv'
      BY <2>5, <2>7 DEF OpenEdit, rows
    <2> QED BY <2>1, <2>2, <2>3, <2>4, <2>5, <2>6, <2>7
        DEF Next, BookingStep, CompensationStep, RunStep, CompleteBooking,
            ListUnresolved, TakeUp, TakeUpFailure,
            Lookup, CreateAttempt, Revalidate, Reserve, Confirm, QueryReservation,
            CheckAttempt, WriteAttempt, CheckOrder, WriteOrder,
            RefundPayment, FailOrder, Abandon, Resolve, ReturnMoney, vars, rows,
            outside, desk
  <1>3. ClosedInv => RefundClosesRequests BY DEF ClosedInv
  <1> QED BY <1>1, <1>2, <1>3, TypeCorrect, PTL DEF Spec

\* Why ConfirmedAtSupplier is inductive: a worker that is about to record a
\* confirmation has the supplier's word for it, and the supplier keeps its word.
Recording == {"checkAttempt", "writeAttempt", "checkOrder", "writeOrder"}

SupplierInv ==
    /\ ConfirmedAtSupplier
    /\ \A w \in Workers : pc[w] \in Recording /\ job[w].to = "CONFIRMED"
                             => supplier[job[w].order] = "confirmed"

\* A worker's step keeps SupplierInv if the supplier keeps its word and the
\* worker has it for what it records.
KeepsWord == \A o \in Orders : supplier[o] = "confirmed" => supplier'[o] = "confirmed"

LEMMA KeepsSupplier ==
    ASSUME SupplierInv, WorkersOK, NEW w \in Workers, UNCHANGED edited,
           OnlyWorker(w), KeepsWord,
           \A o \in Orders \ edited : booking'[o] = "confirmed" => supplier'[o] = "confirmed",
           pc'[w] \in Recording /\ job'[w].to = "CONFIRMED"
               => supplier'[job'[w].order] = "confirmed"
    PROVE  SupplierInv'
  <1>1. \A v \in Workers : pc[v] \in Recording => job[v].order \in Orders
    BY JobParts DEF Busy, Recording
  <1> QED BY <1>1 DEF SupplierInv, ConfirmedAtSupplier, Recording, OnlyWorker, KeepsWord

LEMMA OutcomeConfirmed ==
    ASSUME NEW s \in AttemptStates, OrderOutcome(s) = "confirmed"
    PROVE  s = "CONFIRMED"
  BY DEF OrderOutcome

\* Handlers and runs confirm an order only if its supplier did; only an operator's
\* own edit of an order can say otherwise.
THEOREM BookedAtSupplier == Spec => []ConfirmedAtSupplier
  <1>1. Init => SupplierInv
    BY DEF Init, SupplierInv, ConfirmedAtSupplier, Recording
  <1>2. TypeOK /\ SupplierInv /\ [Next]_vars => SupplierInv'
    <2> SUFFICES ASSUME WorkersOK, RowsOK, SupplierInv, [Next]_vars PROVE SupplierInv'
      BY DEF TypeOK, WorkersOK, RowsOK, Entries
    <2> USE DEF rows, outside, desk
    <2>s. /\ \A o \in Orders \ edited : booking[o] = "confirmed" => supplier[o] = "confirmed"
          /\ \A w \in Workers : pc[w] \in Recording /\ job[w].to = "CONFIRMED"
                                   => supplier[job[w].order] = "confirmed"
      BY DEF SupplierInv, ConfirmedAtSupplier
    <2>1. ASSUME NEW w \in Workers, UNCHANGED <<booking, supplier, edited>>, OnlyWorker(w),
                 pc'[w] \notin Recording
          PROVE  SupplierInv'
      BY <2>s, <2>1, KeepsSupplier DEF KeepsWord
    <2>2. ASSUME NEW w \in Workers, NEW o \in Orders, CompleteBooking(w, o)
          PROVE  SupplierInv'
      BY <2>1, <2>2 DEF CompleteBooking, WorkersOK, Recording, OnlyWorker
    <2>3. ASSUME NEW w \in Workers, ListUnresolved(w) \/ RunStep(w) PROVE SupplierInv'
      BY <2>1, <2>3
      DEF ListUnresolved, RunStep, TakeUp, TakeUpFailure, WorkersOK, Recording, OnlyWorker
    <2>4. ASSUME NEW w \in Workers, BookingStep(w) PROVE SupplierInv'
      <3>0. Busy(w)
        BY <2>4 DEF Busy, BookingStep, Lookup, CreateAttempt, Revalidate, Reserve, Confirm,
           QueryReservation, CheckAttempt, WriteAttempt, CheckOrder, WriteOrder
      <3>j. job[w].order \in Orders /\ job[w].to \in AttemptStates
        BY <3>0, JobParts
      <3>1. CASE Reserve(w)
        <4>1. PICK s, t : Answered(w, s, t) /\ t # "CONFIRMED"
                          /\ (supplier[job[w].order] = "confirmed" => s = "confirmed")
          BY <3>1 DEF Reserve, Unanswered
        <4>2. KeepsWord BY <3>0, <4>1, MovesAnswered DEF KeepsWord
        <4>3. UNCHANGED <<booking, edited>> BY <3>1 DEF Reserve
        <4> QED BY <2>s, <3>0, <4>1, <4>2, <4>3, MovesAnswered, KeepsSupplier DEF KeepsWord
      <3>2. CASE Confirm(w)
        <4>1. PICK s, t : Answered(w, s, t) /\ (t = "CONFIRMED" => s = "confirmed")
                          /\ (supplier[job[w].order] = "confirmed" => s = "confirmed")
          BY <3>2 DEF Confirm, Unanswered
        <4>2. KeepsWord BY <3>0, <4>1, MovesAnswered DEF KeepsWord
        <4>3. UNCHANGED <<booking, edited>> BY <3>2 DEF Confirm
        <4> QED BY <2>s, <3>0, <4>1, <4>2, <4>3, MovesAnswered, KeepsSupplier DEF KeepsWord
      <3>3. CASE WriteOrder(w)
        <4>1. OnlyWorker(w) /\ pc'[w] \notin Recording
          BY <3>3, MovesGoto, MovesReturn, MovesDone DEF WriteOrder, Recording
        <4>2. OrderOutcome(job[w].to) = "confirmed" => supplier[job[w].order] = "confirmed"
          BY <2>s, <3>3, <3>j, OutcomeConfirmed DEF WriteOrder, Recording
        <4>3. UNCHANGED <<supplier, edited>> BY <3>3 DEF WriteOrder
        <4>4. \A o \in Orders \ edited : booking'[o] = "confirmed" => supplier[o] = "confirmed"
          BY <2>s, <3>3, <3>j, <4>2 DEF WriteOrder, RowsOK
        <4> QED BY <4>1, <4>3, <4>4, KeepsSupplier DEF KeepsWord
      <3>4. CASE ~ (Reserve(w) \/ Confirm(w) \/ WriteOrder(w))
        <4>1. UNCHANGED <<booking, supplier, edited>>
          BY <2>4, <3>4 DEF BookingStep, Lookup, CreateAttempt, Revalidate,
             QueryReservation, CheckAttempt, WriteAttempt, CheckOrder
        <4>2. OnlyWorker(w)
          BY <2>4, <3>0, <3>4, MovesGoto, MovesGotoFor, MovesDone, MovesFinish
          DEF BookingStep, Lookup, CreateAttempt, Revalidate,
              QueryReservation, CheckAttempt, WriteAttempt, CheckOrder
        <4>3. pc'[w] \in Recording /\ job'[w].to = "CONFIRMED"
                => supplier[job'[w].order] = "confirmed"
          <5> USE MovesGoto, MovesGotoFor, MovesDone, MovesFinish, <3>0 DEF Recording
          <5>1. CASE Lookup(w) BY <5>1 DEF Lookup
          <5>2. CASE CreateAttempt(w) \/ Revalidate(w) BY <5>2 DEF CreateAttempt, Revalidate
          <5>3. CASE QueryReservation(w) BY <5>3 DEF QueryReservation
          <5>4. CASE CheckAttempt(w) \/ WriteAttempt(w) \/ CheckOrder(w)
            BY <2>s, <5>4 DEF CheckAttempt, WriteAttempt, CheckOrder
          <5> QED BY <2>4, <3>4, <5>1, <5>2, <5>3, <5>4 DEF BookingStep
        <4> QED BY <2>s, <4>1, <4>2, <4>3, KeepsSupplier DEF KeepsWord
      <3> QED BY <3>1, <3>2, <3>3, <3>4
    <2>5. ASSUME NEW w \in Workers, CompensationStep(w) \/ Abandon(w) PROVE SupplierInv'
      <3>0. CompensationStep(w) => Busy(w)
        BY DEF CompensationStep, BeginCompensation, RefundPayment,
           CompleteCompensation, FailRefund, FailOrder, Busy
      <3>1. OnlyWorker(w) /\ pc'[w] \notin Recording
        <4>1. CASE CompleteCompensation(w)
          BY <4>1, MovesDone DEF CompleteCompensation, OnlyWorker, WorkersOK, Recording
        <4>2. CASE ~ CompleteCompensation(w)
          BY <2>5, <4>2, MovesGoto, MovesDone, MovesFinish
          DEF CompensationStep, Abandon, BeginCompensation, RefundPayment,
              FailRefund, FailOrder, Recording
        <4> QED BY <4>1, <4>2
      <3>2. UNCHANGED <<supplier, edited>>
        BY <2>5 DEF CompensationStep, Abandon, BeginCompensation, RefundPayment,
           CompleteCompensation, FailRefund, FailOrder
      <3>3. \A o \in Orders : booking'[o] = "confirmed" => booking[o] = "confirmed"
        BY <2>5, <3>0, JobParts
        DEF CompensationStep, Abandon, BeginCompensation, RefundPayment,
            CompleteCompensation, FailRefund, FailOrder, RowsOK
      <3> QED BY <2>s, <3>1, <3>2, <3>3, KeepsSupplier DEF KeepsWord
    <2>6. ASSUME NEW o \in Orders, Resolve(o) \/ ReturnMoney(o) \/ RequestRefund(o)
          PROVE  SupplierInv'
      <3>1. /\ UNCHANGED <<booking, pc, job, edited>>
            /\ \A q \in Orders : supplier[q] = "confirmed" => supplier'[q] = "confirmed"
        BY <2>6 DEF Resolve, ReturnMoney, RequestRefund, work, RowsOK
      <3>2. \A w \in Workers : pc[w] \in Recording => job[w].order \in Orders
        BY JobParts DEF Recording, Busy
      <3> QED BY <2>s, <3>1, <3>2 DEF SupplierInv, ConfirmedAtSupplier
    <2>7. CASE UNCHANGED vars
      BY <2>7, <2>s DEF vars, work, SupplierInv, ConfirmedAtSupplier
    <2>8. ASSUME NEW p \in Operators, SaveEdit(p) PROVE SupplierInv'
      <3>1. /\ edited' = edited \cup {panel[p].order} /\ UNCHANGED <<supplier, pc, job>>
            /\ \A o \in Orders \ {panel[p].order} : booking'[o] = booking[o]
        BY <2>8 DEF SaveEdit, work, RowsOK
      <3> QED BY <2>s, <3>1 DEF SupplierInv, ConfirmedAtSupplier
    <2>9. ASSUME NEW p \in Operators, NEW o \in Orders, OpenEdit(p, o) PROVE SupplierInv'
      BY <2>9, <2>s DEF OpenEdit, work, SupplierInv, ConfirmedAtSupplier
    <2> QED BY <2>2, <2>3, <2>4, <2>5, <2>6, <2>7, <2>8, <2>9 DEF Next
  <1>3. SupplierInv => ConfirmedAtSupplier BY DEF SupplierInv
  <1> QED BY <1>1, <1>2, <1>3, TypeCorrect, PTL DEF Spec
=============================================================================
