----------------------------- MODULE Fulfilment -----------------------------
(***************************************************************************)
(* What happens to a paid order of a supplier: booking, compensation when  *)
(* the supplier fails, the booking reconciliation run, customer refund     *)
(* requests and the operator's panel (server/services/booking-service.ts,  *)
(* compensation-service.ts, reconciliation-service.ts and the rows of      *)
(* server/repositories/prisma-runtime.ts and platform.ts).                 *)
(*                                                                         *)
(* A worker is one request or one reconciliation run that walks through    *)
(* the awaits of its handler; a run does so for every order of its batch   *)
(* and then for every failure it found.  A serializable transaction is one *)
(* step; a read with its assertTransition followed by a write by id is     *)
(* two.  An order has one attempt (its requestKey is unique) and at most   *)
(* one compensation refund (compensationKey is unique); of the customer's  *)
(* own refund requests the latest is kept.                                 *)
(***************************************************************************)
EXTENDS Naturals, FiniteSets, States

CONSTANTS
    Orders,     \* paid orders of services that have a supplier
    HasWallet,  \* orders paid, in part or whole, from the wallet
    HasOnline,  \* orders paid, in part or whole, through the gateway
    Workers,    \* requests and reconciliation runs that may run concurrently
    Operators,  \* staff sessions of the back office
    Asking,     \* orders whose customer may ask for a refund
    Crashing,   \* workers that may end between two of their steps
    BatchSize   \* orders one run lists at most (50 unless told otherwise)

ASSUME FulfilmentAssumption ==
    /\ HasWallet \subseteq Orders /\ HasOnline \subseteq Orders
    /\ HasWallet \cup HasOnline = Orders
    /\ Asking \subseteq Orders
    /\ Crashing \subseteq Workers
    /\ BatchSize \in Nat \ {0}

VARIABLES
    booking,    \* Order.bookingStatus
    paid,       \* Order.paymentStatus: paid or refunded
    attempt,    \* BookingAttempt.status, or none
    comp,       \* status of the compensation RefundRequest, or none
    ask,        \* status of the customer's latest RefundRequest, or none
    credited,   \* wallet credits under the reference COMP-WAL-<refund>
    older,      \* <<a, b>>: order a was last updated before order b
    refund,     \* what the gateway has done about the order's online refund
    supplier,   \* what the supplier holds under the order's request key
    pc, job,    \* where each worker is and what it carries
    batch,      \* a run's orders still to reconcile, as they were listed
    failures,   \* orders a run has found failed and not compensated yet
    panel,      \* the edit an operator has checked but not yet written
    edited      \* ghost: orders an operator has written to

rows == <<booking, paid, attempt, comp, ask, credited, older>>
outside == <<refund, supplier>>
work == <<pc, job, batch, failures>>
desk == <<panel, edited>>
vars == <<rows, outside, work, desk>>

Open   == {"requested", "processing"}
NoJob  == [order |-> "none"]
NoEdit == [order |-> "none"]

\* seen: the bookingStatus of the order object the handler was given; to: the
\* status it is about to write to the attempt; run: a run's order, not a request's.
Task(o, s, t, r) == [order |-> o, seen |-> s, to |-> t, run |-> r]

Goto(w, l)    == pc' = [pc EXCEPT ![w] = l] /\ UNCHANGED <<job, batch, failures>>
GotoFor(w, l, t) ==
    /\ pc'  = [pc EXCEPT ![w] = l]
    /\ job' = [job EXCEPT ![w].to = t]
    /\ UNCHANGED <<batch, failures>>

\* The handler of one order is done, with these failures left: a request ends,
\* a run goes on with what it still has to do.
Return(w, left) ==
    /\ failures' = [failures EXCEPT ![w] = left]
    /\ pc'  = [pc EXCEPT ![w] = IF batch[w] = {} /\ left = {} THEN "idle" ELSE "next"]
    /\ job' = [job EXCEPT ![w] = NoJob]
    /\ UNCHANGED batch
Done(w) == Return(w, failures[w])

\* Nothing is left for a run to do but what it is at.
Forget(w) ==
    /\ batch' = [batch EXCEPT ![w] = {}]
    /\ failures' = [failures EXCEPT ![w] = {}]

\* An error ends the request, or the whole run: no later order is reconciled and
\* no failure found so far is compensated.
Finish(w) ==
    /\ pc'  = [pc EXCEPT ![w] = "idle"]
    /\ job' = [job EXCEPT ![w] = NoJob]
    /\ Forget(w)

\* A write to the row of order o makes it the one updated last.
Touch(o) == older' = {e \in older : e[1] # o} \cup ((Orders \ {o}) \X {o})

-----------------------------------------------------------------------------
\* Some order in which the orders were written.
InOrder(R) ==
    /\ \A a, b \in Orders : <<a, b>> \in R <=> a # b /\ <<b, a>> \notin R
    /\ \A a, b, c \in Orders : <<a, b>> \in R /\ <<b, c>> \in R => <<a, c>> \in R

Init ==
    /\ booking  = [o \in Orders |-> "paid_booking_pending"]
    /\ paid     = [o \in Orders |-> "paid"]
    /\ attempt  = [o \in Orders |-> "none"]
    /\ comp     = [o \in Orders |-> "none"]
    /\ ask      = [o \in Orders |-> "none"]
    /\ credited = [o \in Orders |-> 0]
    /\ older \in {R \in SUBSET (Orders \X Orders) : InOrder(R)}
    /\ refund   = [o \in Orders |-> "none"]
    /\ supplier = [o \in Orders |-> "none"]
    /\ pc    = [w \in Workers |-> "idle"]
    /\ job   = [w \in Workers |-> NoJob]
    /\ batch    = [w \in Workers |-> {}]
    /\ failures = [w \in Workers |-> {}]
    /\ panel = [p \in Operators |-> NoEdit]
    /\ edited = {}

\* completeBooking after a payment, or after a repeated request of a paid order.
CompleteBooking(w, o) ==
    /\ pc[w] = "idle"
    /\ booking[o] \notin {"refunded", "confirmed"}
    /\ pc'  = [pc EXCEPT ![w] = "lookup"]
    /\ job' = [job EXCEPT ![w] = Task(o, booking[o], "SELECTED", FALSE)]
    /\ UNCHANGED <<rows, outside, batch, failures, desk>>

\* listUnresolvedBookings: of the undecided orders those updated longest ago.
Undecided == {o \in Orders : booking[o] \in {"paid_booking_pending", "manual_review_required"}}
Listed == {o \in Undecided : Cardinality({p \in Undecided : <<p, o>> \in older}) < BatchSize}

\* What a run keeps of them: the order, its status, whether its attempt is unknown.
\* An order whose attempt is neither missing nor unknown is passed over.
Listing ==
    {[order |-> o, seen |-> booking[o], known |-> attempt[o] = "UNKNOWN"] :
        o \in {p \in Listed : attempt[p] \in {"none", "UNKNOWN"}}}

\* A reconciliation run starts.
ListUnresolved(w) ==
    /\ pc[w] = "idle"
    /\ Listing # {}
    /\ pc'    = [pc EXCEPT ![w] = "next"]
    /\ batch' = [batch EXCEPT ![w] = Listing]
    /\ UNCHANGED <<rows, outside, job, failures, desk>>

\* It takes up the next order of its batch (the model leaves open which): one
\* without an attempt it confirms like a request, of the other it asks the supplier.
TakeUp(w) ==
    /\ pc[w] = "next"
    /\ \E e \in batch[w] :
          /\ batch' = [batch EXCEPT ![w] = @ \ {e}]
          /\ pc'    = [pc EXCEPT ![w] = IF e.known THEN "query" ELSE "lookup"]
          /\ job'   = [job EXCEPT ![w] = Task(e.order, e.seen, "SELECTED", TRUE)]
    /\ UNCHANGED <<rows, outside, failures, desk>>

\* Once the whole batch is reconciled it compensates the failures.
TakeUpFailure(w) ==
    /\ pc[w] = "next"
    /\ batch[w] = {}
    /\ \E o \in failures[w] :
          /\ failures' = [failures EXCEPT ![w] = @ \ {o}]
          /\ pc'  = [pc EXCEPT ![w] = "begin"]
          /\ job' = [job EXCEPT ![w] = Task(o, "reservation_failed", "FAILED", TRUE)]
    /\ UNCHANGED <<rows, outside, batch, desk>>

\* confirmOrder reads the last attempt.  A confirmed one returns the order it
\* was given, which completeBooking compensates if that order had failed.
Lookup(w) ==
    /\ pc[w] = "lookup"
    /\ LET a == attempt[job[w].order] IN
       \/ a = "UNKNOWN" /\ GotoFor(w, "checkOrder", "UNKNOWN")
       \/ a = "CONFIRMED" /\ job[w].seen = "reservation_failed" /\ Goto(w, "begin")
       \/ a = "CONFIRMED" /\ job[w].seen # "reservation_failed" /\ Done(w)
       \/ a \notin {"UNKNOWN", "CONFIRMED"} /\ Goto(w, "upsert")
    /\ UNCHANGED <<rows, outside, desk>>

\* createBookingAttempt: an upsert that leaves an existing row as it is.
CreateAttempt(w) ==
    /\ pc[w] = "upsert"
    /\ LET o == job[w].order IN
       attempt' = IF attempt[o] = "none" THEN [attempt EXCEPT ![o] = "SELECTED"]
                  ELSE attempt
    /\ Goto(w, "revalidate")
    /\ UNCHANGED <<booking, paid, comp, ask, credited, older, outside, desk>>

\* The offer is checked again: valid, no longer for sale, or no answer in time.
Revalidate(w) ==
    /\ pc[w] = "revalidate"
    /\ \E s \in {"PRICE_VALIDATED", "FAILED", "UNKNOWN"} : GotoFor(w, "checkAttempt", s)
    /\ UNCHANGED <<rows, outside, desk>>

\* A call to the supplier left it holding s and was answered in time, not in time,
\* or with any other error: a refusal, a lost connection, an answer that cannot be
\* read.  Only the time-out is taken to be unknown.
Answered(w, s, t) ==
    /\ supplier' = [supplier EXCEPT ![job[w].order] = s]
    /\ GotoFor(w, "checkAttempt", t)
Unanswered(w, s) == \E t \in {"UNKNOWN", "FAILED"} : Answered(w, s, t)

\* The supplier's reserve under the request key: a reservation that exists is
\* returned; an unresolved request stays unresolved; otherwise it is rejected,
\* made or left unresolved.
Reserve(w) ==
    /\ pc[w] = "reserve"
    /\ LET o == job[w].order IN
       \/ supplier[o] = "none" /\ Answered(w, "reserved", "RESERVED")
       \/ supplier[o] \in {"reserved", "confirmed"} /\ Answered(w, supplier[o], "RESERVED")
       \/ supplier[o] = "none" /\ \E s \in {"reserved", "pending"} : Unanswered(w, s)
       \/ supplier[o] \in {"pending", "failed"} /\ Unanswered(w, "pending")
       \/ Unanswered(w, supplier[o])
    /\ UNCHANGED <<rows, refund, desk>>

\* Mutant: a confirmation that timed out counts as made.
Confirm_Optimistic(w) ==
    /\ pc[w] = "confirm"
    /\ GotoFor(w, "checkAttempt", "CONFIRMED")
    /\ \E s \in {"reserved", "confirmed"} : supplier' = [supplier EXCEPT ![job[w].order] = s]
    /\ UNCHANGED <<rows, refund, desk>>

\* The supplier's confirm accepts a reserved booking only, and may refuse it.
Confirm(w) ==
    /\ pc[w] = "confirm"
    /\ LET o == job[w].order IN
       \/ supplier[o] = "reserved" /\ Answered(w, "confirmed", "CONFIRMED")
       \/ supplier[o] = "reserved" /\ Unanswered(w, "confirmed")
       \/ Unanswered(w, supplier[o])
    /\ UNCHANGED <<rows, refund, desk>>

\* checkReservation of the reconciliation run: what a definite failure is.
ReservationFailed(o) == supplier[o] \in {"none", "failed"}

\* A pending or merely reserved booking stays unknown and the run goes on; an
\* error of the query ends the run.
QueryReservation(w) ==
    /\ pc[w] = "query"
    /\ LET o == job[w].order IN
       \/ supplier[o] = "confirmed" /\ GotoFor(w, "checkAttempt", "CONFIRMED")
       \/ ReservationFailed(o) /\ GotoFor(w, "checkAttempt", "FAILED")
       \/ supplier[o] \in {"pending", "reserved"} /\ Done(w)
       \/ Finish(w)
    /\ UNCHANGED <<rows, outside, desk>>

\* The supplier settles a request it had left unresolved.
Resolve(o) ==
    /\ supplier[o] = "pending"
    /\ \E s \in {"confirmed", "failed"} : supplier' = [supplier EXCEPT ![o] = s]
    /\ UNCHANGED <<rows, refund, work, desk>>

-----------------------------------------------------------------------------
\* updateBookingAttempt reads the row and asserts the move ...
CheckAttempt(w) ==
    /\ pc[w] = "checkAttempt"
    /\ IF Allowed(AttemptMoves, attempt[job[w].order], job[w].to)
       THEN Goto(w, "writeAttempt") ELSE Finish(w)
    /\ UNCHANGED <<rows, outside, desk>>

\* Mutant: the status of the order is written to the attempt.
WriteAttempt_Outcome(w) ==
    /\ pc[w] = "writeAttempt"
    /\ attempt' = [attempt EXCEPT ![job[w].order] =
          IF job[w].to = "UNKNOWN" THEN "manual_review_required" ELSE job[w].to]
    /\ Goto(w, CASE job[w].to = "PRICE_VALIDATED" -> "reserve"
                 [] job[w].to = "RESERVED" -> "confirm"
                 [] OTHER -> "checkOrder")
    /\ UNCHANGED <<booking, paid, comp, ask, credited, older, outside, desk>>

\* ... and then writes it by id.
WriteAttempt(w) ==
    /\ pc[w] = "writeAttempt"
    /\ attempt' = [attempt EXCEPT ![job[w].order] = job[w].to]
    /\ Goto(w, CASE job[w].to = "PRICE_VALIDATED" -> "reserve"
                 [] job[w].to = "RESERVED" -> "confirm"
                 [] OTHER -> "checkOrder")
    /\ UNCHANGED <<booking, paid, comp, ask, credited, older, outside, desk>>

\* The bookingStatus that goes with the outcome of an attempt.
OrderOutcome(s) == CASE s = "CONFIRMED" -> "confirmed"
                     [] s = "FAILED"    -> "reservation_failed"
                     [] OTHER           -> "manual_review_required"

\* updateOrderBooking reads the order and asserts the move ...
CheckOrder(w) ==
    /\ pc[w] = "checkOrder"
    /\ IF Allowed(OrderMoves, booking[job[w].order], OrderOutcome(job[w].to))
       THEN Goto(w, "writeOrder") ELSE Finish(w)
    /\ UNCHANGED <<rows, outside, desk>>

\* ... then writes it by id.  A request compensates a failed booking at once, a
\* run only after the last order of its batch.
WriteOrder(w) ==
    /\ pc[w] = "writeOrder"
    /\ LET o == job[w].order
           s == OrderOutcome(job[w].to)
       IN /\ booking' = [booking EXCEPT ![o] = s]
          /\ Touch(o)
          /\ \/ s = "reservation_failed" /\ ~ job[w].run /\ Goto(w, "begin")
             \/ s = "reservation_failed" /\ job[w].run /\ Return(w, failures[w] \cup {o})
             \/ s # "reservation_failed" /\ Done(w)
    /\ UNCHANGED <<paid, attempt, comp, ask, credited, outside, desk>>

-----------------------------------------------------------------------------
\* beginCompensation: one serializable transaction.  A completed compensation is
\* answered as such; the index that allows one open refund per order makes it
\* fail while the customer's own is open.
MayBegin(o) ==
    /\ comp[o] # "completed"
    /\ booking[o] \notin {"paid_booking_pending", "refunded"}
    /\ ask[o] \notin Open

BeginCompensation(w) ==
    /\ pc[w] = "begin"
    /\ LET o == job[w].order IN
       \/ /\ MayBegin(o)
          /\ comp'    = [comp EXCEPT ![o] = "processing"]
          /\ booking' = [booking EXCEPT ![o] = "compensation_pending"]
          /\ IF booking[o] = "compensation_pending" THEN UNCHANGED older ELSE Touch(o)
          /\ Goto(w, IF o \in HasOnline THEN "refund" ELSE "complete")
       \/ comp[o] = "completed" /\ Done(w) /\ UNCHANGED <<comp, booking, older>>
       \/ comp[o] # "completed" /\ ~ MayBegin(o) /\ Finish(w)
          /\ UNCHANGED <<comp, booking, older>>
    /\ UNCHANGED <<paid, attempt, ask, credited, outside, desk>>

\* Mutant: a refund the gateway did not answer counts as accepted.
RefundPayment_Optimistic(w) ==
    /\ pc[w] = "refund"
    /\ LET o == job[w].order IN
       \E s \in IF refund[o] = "none" THEN {"none", "pending", "returned"} ELSE {refund[o]} :
          /\ refund' = [refund EXCEPT ![o] = s]
          /\ Goto(w, "complete")
    /\ UNCHANGED <<rows, supplier, desk>>

\* The gateway refunds once per idempotency key, and answers that the money is
\* returned or that the refund is pending: the code takes both for done.  An error
\* or a late answer leaves open what it did.
RefundPayment(w) ==
    /\ pc[w] = "refund"
    /\ LET o == job[w].order IN
       \E s \in IF refund[o] = "none" THEN {"none", "pending", "returned"} ELSE {refund[o]} :
          /\ refund' = [refund EXCEPT ![o] = s]
          /\ \/ s # "none" /\ Goto(w, "complete")
             \/ Goto(w, "failRefund")
    /\ UNCHANGED <<rows, supplier, desk>>

\* The gateway makes a refund it had pending; it may never do so.
ReturnMoney(o) ==
    /\ refund[o] = "pending"
    /\ refund' = [refund EXCEPT ![o] = "returned"]
    /\ UNCHANGED <<rows, supplier, work, desk>>

\* Mutant: the wallet transaction's reference is not looked up.
WalletDue_Always(o) == o \in HasWallet

\* The wallet part is credited unless its reference already exists.
WalletDue(o) == o \in HasWallet /\ credited[o] = 0

\* completeCompensation: one serializable transaction, which may also fail; that
\* error is raised again once the failure is on record, and ends a run there.
CompleteCompensation(w) ==
    /\ pc[w] = "complete"
    /\ LET o == job[w].order IN
       \/ /\ comp[o] = "processing"
          /\ credited' = IF WalletDue(o) THEN [credited EXCEPT ![o] = @ + 1]
                         ELSE credited
          /\ paid'    = [paid EXCEPT ![o] = "refunded"]
          /\ booking' = [booking EXCEPT ![o] = "refunded"]
          /\ comp'    = [comp EXCEPT ![o] = "completed"]
          /\ Touch(o)
          /\ Done(w)
       \/ comp[o] = "completed" /\ Done(w) /\ UNCHANGED <<credited, paid, booking, comp, older>>
       \/ /\ pc' = [pc EXCEPT ![w] = "failRefund"]
          /\ Forget(w)
          /\ UNCHANGED <<credited, paid, booking, comp, older, job>>
    /\ UNCHANGED <<attempt, ask, outside, desk>>

\* failCompensation: two writes by id, without a look at what is there.
FailRefund(w) ==
    /\ pc[w] = "failRefund"
    /\ comp' = [comp EXCEPT ![job[w].order] = "failed"]
    /\ Goto(w, "failOrder")
    /\ UNCHANGED <<booking, paid, attempt, ask, credited, older, outside, desk>>

FailOrder(w) ==
    /\ pc[w] = "failOrder"
    /\ booking' = [booking EXCEPT ![job[w].order] = "manual_review_required"]
    /\ Touch(job[w].order)
    /\ Done(w)
    /\ UNCHANGED <<paid, attempt, comp, ask, credited, outside, desk>>

\* A crash or a failing database ends a request or a run between two steps.
Abandon(w) ==
    /\ w \in Crashing
    /\ pc[w] # "idle"
    /\ Finish(w)
    /\ UNCHANGED <<rows, outside, desk>>

-----------------------------------------------------------------------------
\* Mutant: an order that was refunded can be asked for again.
Refundable_Again(o) == ask[o] \notin Open /\ comp[o] \notin Open

Refundable(o) ==
    /\ paid[o] = "paid" /\ booking[o] # "refunded"
    /\ ask[o] \notin Open /\ comp[o] \notin Open

\* requestRefund: one serializable transaction.
RequestRefund(o) ==
    /\ o \in Asking
    /\ Refundable(o)
    /\ ask' = [ask EXCEPT ![o] = "requested"]
    /\ UNCHANGED <<booking, paid, attempt, comp, credited, older, outside, work, desk>>

\* overrideBooking and updateRefundStatus read and check in a transaction that
\* is not serializable ...
OpenEdit(p, o) ==
    /\ panel[p] = NoEdit
    /\ \E e \in [order : {o}, row : {"booking"}, to : OverrideMoves[booking[o]]]
                \cup [order : {o}, row : {"comp", "ask"}, to : {"processing", "failed"}] :
          /\ e.row = "comp" => comp[o] \in Open
          /\ e.row = "ask"  => ask[o] \in Open
          /\ panel' = [panel EXCEPT ![p] = e]
    /\ UNCHANGED <<rows, outside, work, edited>>

\* ... and write by id; the index on open refunds refuses a second open one.
SaveEdit(p) ==
    /\ panel[p] # NoEdit
    /\ panel' = [panel EXCEPT ![p] = NoEdit]
    /\ edited' = edited \cup {panel[p].order}
    /\ LET e == panel[p]
           o == e.order
       IN \/ /\ e.row = "booking"
             /\ booking' = [booking EXCEPT ![o] = e.to]
             /\ Touch(o)
             /\ UNCHANGED <<comp, ask>>
          \/ /\ e.row = "comp"
             /\ comp' = IF e.to \in Open /\ ask[o] \in Open THEN comp
                        ELSE [comp EXCEPT ![o] = e.to]
             /\ UNCHANGED <<booking, ask, older>>
          \/ /\ e.row = "ask"
             /\ ask' = IF e.to \in Open /\ comp[o] \in Open THEN ask
                       ELSE [ask EXCEPT ![o] = e.to]
             /\ UNCHANGED <<booking, comp, older>>
    /\ UNCHANGED <<paid, attempt, credited, outside, work>>

-----------------------------------------------------------------------------
BookingStep(w) ==
    \/ Lookup(w) \/ CreateAttempt(w) \/ Revalidate(w) \/ Reserve(w) \/ Confirm(w)
    \/ QueryReservation(w) \/ CheckAttempt(w) \/ WriteAttempt(w)
    \/ CheckOrder(w) \/ WriteOrder(w)

CompensationStep(w) ==
    \/ BeginCompensation(w) \/ RefundPayment(w) \/ CompleteCompensation(w)
    \/ FailRefund(w) \/ FailOrder(w)

RunStep(w) == TakeUp(w) \/ TakeUpFailure(w)

Next ==
    \/ \E w \in Workers, o \in Orders : CompleteBooking(w, o)
    \/ \E w \in Workers : ListUnresolved(w) \/ RunStep(w)
    \/ \E w \in Workers : BookingStep(w) \/ CompensationStep(w) \/ Abandon(w)
    \/ \E o \in Orders : Resolve(o) \/ ReturnMoney(o) \/ RequestRefund(o)
    \/ \E p \in Operators, o \in Orders : OpenEdit(p, o)
    \/ \E p \in Operators : SaveEdit(p)

Spec == Init /\ [][Next]_vars

\* Started handlers and runs keep going, and a scheduler, which the repository only
\* prescribes, starts reconcile:bookings over and over.  It is the run that is
\* started: no order is promised a place in its batch.
Fairness ==
    /\ \A w \in Workers : WF_vars(RunStep(w) \/ BookingStep(w) \/ CompensationStep(w))
    /\ SF_vars(\E w \in Workers : ListUnresolved(w))

FairSpec == Spec /\ Fairness

-----------------------------------------------------------------------------
Labels == {"idle", "next", "lookup", "query", "upsert", "revalidate", "reserve", "confirm",
           "checkAttempt", "writeAttempt", "checkOrder", "writeOrder", "begin",
           "refund", "complete", "failRefund", "failOrder"}

Tasks == [order : Orders, seen : OrderStates, to : AttemptStates, run : BOOLEAN]

Edits ==
    [order : Orders, row : {"booking"}, to : OrderStates \ {"refunded"}]
    \cup [order : Orders, row : {"comp", "ask"}, to : {"processing", "failed"}]

TypeOK ==
    /\ booking \in [Orders -> OrderStates]
    /\ paid \in [Orders -> {"paid", "refunded"}]
    /\ attempt \in [Orders -> AttemptStates \cup {"none"}]
    /\ comp \in [Orders -> {"none", "processing", "completed", "failed"}]
    /\ ask \in [Orders -> {"none", "requested", "processing", "failed"}]
    /\ credited \in [Orders -> Nat]
    /\ older \subseteq Orders \X Orders
    /\ refund \in [Orders -> {"none", "pending", "returned"}]
    /\ supplier \in [Orders -> {"none", "pending", "failed", "reserved", "confirmed"}]
    /\ pc \in [Workers -> Labels]
    /\ job \in [Workers -> Tasks \cup {NoJob}]
    /\ \A w \in Workers : pc[w] \notin {"idle", "next"} => job[w] # NoJob
    /\ batch \in [Workers -> SUBSET [order : Orders, seen : OrderStates, known : BOOLEAN]]
    /\ failures \in [Workers -> SUBSET Orders]
    /\ panel \in [Operators -> Edits \cup {NoEdit}]
    /\ edited \subseteq Orders

\* A repeated compensation never credits the wallet twice, even after a failure
\* or an operator reopened a refund that had already been completed.
RefundedOnce == \A o \in Orders : credited[o] <= 1

\* An order shown as refunded has its wallet part credited and its online part
\* accepted for refund by the gateway: an error or a lost answer of refundPayment
\* is not taken for a refund.  (That the gateway has returned the money would be
\* too much: compensate completes on the answer "pending" too.)
RefundedIsAccepted ==
    \A o \in Orders : booking[o] = "refunded" \/ paid[o] = "refunded" =>
        /\ o \in HasWallet => credited[o] > 0
        /\ o \in HasOnline => refund[o] # "none"

\* Once the money of an order is back no refund request of its customer is open,
\* unless an operator wrote to the order: one of two stale edits may reopen it.
RefundClosesRequests ==
    \A o \in Orders \ edited : paid[o] = "refunded" => ask[o] \notin Open

\* An order that no operator wrote to is shown as confirmed only if the supplier
\* has confirmed it; edits of other orders do not matter.
ConfirmedAtSupplier ==
    \A o \in Orders \ edited : booking[o] = "confirmed" => supplier[o] = "confirmed"

\* docs/phase-16-reliability.md:23 and the empty row of states.ts:44: nothing
\* takes an order out of refunded.
RefundIsFinal ==
    [][\A o \in Orders : booking[o] = "refunded" => booking'[o] = "refunded"]_vars

\* docs/phase-16-reliability.md:37: only a definite failure is refunded, so the
\* money of a booking that the supplier holds as confirmed does not go back.
ConfirmedIsKept ==
    \A o \in Orders : supplier[o] = "confirmed" => paid[o] = "paid"

\* docs/phase-16-reliability.md:37 and README.md:70: reconciliation brings every
\* paid order to confirmed, to refunded or to a person.
PaidConverges ==
    \A o \in Orders :
        booking[o] \in {"paid_booking_pending", "reservation_failed", "compensation_pending"}
            ~> booking[o] \in {"confirmed", "refunded", "manual_review_required"}
=============================================================================
