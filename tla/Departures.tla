----------------------------- MODULE Departures -----------------------------
(***************************************************************************)
(* Places of one departure of a managed tour or pilgrimage: checkouts that *)
(* ask for places, the sale when a payment is finalized, the staff that    *)
(* changes capacity, holds and sale status meanwhile, and the writers of   *)
(* booking statuses, on which alone it depends whether an order takes      *)
(* places (programs/domain.ts, repositories/programs.ts, and createCheckout *)
(* and finalizePayment of repositories/prisma-runtime.ts).                 *)
(*                                                                         *)
(* Nothing is booked by a counter: what is left is derived from the orders *)
(* at every look.  finalizePayment and the compensation transactions are   *)
(* serializable, one step each; updateDeparture and the writers of booking *)
(* statuses check on one read and write by id, two steps.                  *)
(***************************************************************************)
EXTENDS Integers, FiniteSets, States

CONSTANTS
    Checkouts,    \* checkouts of the departure; each makes at most one order
    Party,        \* how many travellers a checkout is priced for
    Listed,       \* the checkouts that name their travellers
    Staff,        \* sessions that edit the departure
    Writers,      \* booking handlers and operators that write booking statuses
    MaxCapacity,  \* largest capacity considered
    Patches,      \* the edits of the departure considered
    Limits,       \* the capacities of a package considered
    Keep,         \* stands for a field a patch does not carry
    NoLimit       \* stands for the capacity of a package that has none

Capacities == 0 .. MaxCapacity

SaleStates == {"DRAFT", "OPEN", "LOW_CAPACITY", "FULL", "CLOSED", "DEPARTED", "CANCELLED"}

Patch == [total : Capacities \cup {Keep}, held : Capacities \cup {Keep},
          status : SaleStates \cup {Keep}]

ASSUME DeparturesAssumption ==
    /\ IsFiniteSet(Checkouts)
    /\ Party \in [Checkouts -> Nat \ {0}]
    /\ Listed \in SUBSET Checkouts
    /\ MaxCapacity \in Nat
    /\ Patches \in SUBSET Patch
    /\ Limits \in SUBSET (Nat \cup {NoLimit})
    /\ Keep \notin Capacities /\ Keep \notin SaleStates

VARIABLES
    total,     \* totalCapacity of the departure
    held,      \* heldCapacity: places kept back by the merchant
    status,    \* saleStatus as stored
    limit,     \* capacity of the package, or NoLimit
    onSale,    \* program ACTIVE and PUBLISHED, package ACTIVE, within the sales window
    checkout,  \* none, open, expired or completed
    payment,   \* Order.paymentStatus, or none
    booking,   \* Order.bookingStatus, or none
    refund,    \* status of the compensation RefundRequest, or none
    form,      \* the patch a staff session has checked but not yet written, and
               \* whether what it has checked is still so
    writer     \* the booking status a writer has checked but not yet written

departure == <<total, held, status, limit, onSale>>
orders    == <<checkout, payment, booking, refund>>
vars      == <<departure, orders, form, writer>>

NoForm  == [patch |-> "none"]
NoWrite == [order |-> "none"]

-----------------------------------------------------------------------------
(* How many places are taken *)

Least(a, b) == IF a <= b THEN a ELSE b
Most(a, b)  == IF a <= b THEN b ELSE a

\* The booking statuses in which a paid order takes places.
Seated == {"confirmed", "paid_booking_pending", "manual_review_required",
           "compensation_pending"}

Takes(pay, book) == pay = "paid" /\ book \in Seated

Taking == {c \in Checkouts : Takes(payment[c], booking[c])}

\* An order takes a place for every traveller it names, and one if it names none.
Seats(c) == IF c \in Listed THEN Party[c] ELSE 1

Places(S)  == UNION {{c} \X (1 .. Seats(c)) : c \in S}
People(S)  == UNION {{c} \X (1 .. Party[c]) : c \in S}
Booked     == Cardinality(Places(Taking))

\* capacitySnapshot
Remaining == Most(0, total - held - Booked)

\* effectiveDepartureStatus and assertDepartureSaleable: of OPEN, LOW_CAPACITY
\* and FULL it is the places left that decide, not the stored status.
Saleable == status \in {"OPEN", "LOW_CAPACITY", "FULL"} /\ Remaining >= 1

InPackage(n) == limit # NoLimit => n <= Most(0, limit - Booked)

Room_Priced(n) == onSale /\ Saleable

Room(n) == onSale /\ Saleable /\ n <= Remaining /\ InPackage(n)

\* createDeparture; a departure opened at once is one patched at once.
Init ==
    /\ total \in Capacities /\ held \in 0 .. total
    /\ status = "DRAFT"
    /\ limit \in Limits
    /\ onSale \in BOOLEAN
    /\ checkout = [c \in Checkouts |-> "none"]
    /\ payment  = [c \in Checkouts |-> "none"]
    /\ booking  = [c \in Checkouts |-> "none"]
    /\ refund   = [c \in Checkouts |-> "none"]
    /\ form     = [s \in Staff |-> NoForm]
    /\ writer   = [w \in Writers |-> NoWrite]

\* Whoever has checked a patch has not seen what happens from here on.
Outdated == [s \in Staff |-> IF form[s] = NoForm THEN NoForm ELSE [form[s] EXCEPT !.fresh = FALSE]]

-----------------------------------------------------------------------------
(* Customers *)

\* createCheckout prices and checks the travellers named, or quantity of them.
CreateCheckout(c) ==
    /\ checkout[c] = "none"
    /\ Room(Party[c])
    /\ checkout' = [checkout EXCEPT ![c] = "open"]
    /\ UNCHANGED <<departure, payment, booking, refund, form, writer>>

Lapse(c) ==
    /\ checkout[c] = "open"
    /\ checkout' = [checkout EXCEPT ![c] = "expired"]
    /\ UNCHANGED <<departure, payment, booking, refund, form, writer>>

\* finalizePayment counts the travellers named, and one if there are none.
Sell(c) ==
    /\ checkout[c] = "open"
    /\ Room(Seats(c))
    /\ checkout' = [checkout EXCEPT ![c] = "completed"]
    /\ payment'  = [payment EXCEPT ![c] = "paid"]
    /\ booking'  = [booking EXCEPT ![c] = "confirmed"]
    /\ form'     = Outdated
    /\ UNCHANGED <<departure, refund, writer>>

-----------------------------------------------------------------------------
(* The merchant *)

Given(field, old) == IF field = Keep THEN old ELSE field

\* The new capacity, less the new hold, still carries the orders of the moment; a
\* hold beyond the capacity counts as the capacity here (capacitySnapshot).
CapacityKept(p) ==
    LET t == Given(p.total, total) IN t >= Booked + Least(Given(p.held, held), t)

Reopens_Never(p) == FALSE

\* A cancelled departure is given another status.
Reopens(p) == status = "CANCELLED" /\ p.status \notin {Keep, "CANCELLED"}

\* updateDeparture, its reads and checks.
OpenForm(s, p) ==
    /\ form[s] = NoForm
    /\ CapacityKept(p) /\ ~Reopens(p)
    /\ form' = [form EXCEPT ![s] = [patch |-> p, fresh |-> TRUE]]
    /\ UNCHANGED <<departure, orders, writer>>

CapacityCheck_Positive(t, h) == t >= 0 /\ h >= 0

\* TravelProgramDeparture_capacity_check of the database.
CapacityCheck(t, h) == 0 <= h /\ h <= t

\* updateDeparture, its write: the fields given, on the row as it is by now.
SaveForm(s) ==
    /\ form[s] # NoForm
    /\ LET p == form[s].patch IN
          /\ total'  = Given(p.total, total)
          /\ held'   = Given(p.held, held)
          /\ status' = Given(p.status, status)
          /\ CapacityCheck(total', held')
    /\ form' = [Outdated EXCEPT ![s] = NoForm]
    /\ UNCHANGED <<limit, onSale, orders, writer>>

\* A refused or failed write rolls the edit back.
DropForm(s) ==
    /\ form[s] # NoForm
    /\ form' = [form EXCEPT ![s] = NoForm]
    /\ UNCHANGED <<departure, orders, writer>>

\* updatePackage, publication and the passage of the sales window; none of them
\* looks at the orders.
UpdatePackage ==
    /\ limit' \in Limits
    /\ onSale' \in BOOLEAN
    /\ UNCHANGED <<total, held, status, orders, form, writer>>

-----------------------------------------------------------------------------
(* Booking statuses *)

Write(c, s) == [order |-> c, to |-> s]

\* An order's booking becomes s; it may take places again without any check.
SetBooking(c, s) ==
    /\ booking' = [booking EXCEPT ![c] = s]
    /\ form' = IF ~Takes(payment[c], booking[c]) /\ Takes(payment[c], s)
               THEN Outdated ELSE form

\* A booking handler or an operator finds a status acceptable ...
OpenWrite(w, c, s) ==
    /\ writer[w] = NoWrite /\ booking[c] # "none"
    /\ Allowed(OrderMoves, booking[c], s) \/ Allowed(OverrideMoves, booking[c], s)
    /\ s \notin {"refunded", "compensation_pending"}
    /\ writer' = [writer EXCEPT ![w] = Write(c, s)]
    /\ UNCHANGED <<departure, orders, form>>

\* ... and writes it by id.
SaveWrite(w) ==
    /\ writer[w] # NoWrite
    /\ SetBooking(writer[w].order, writer[w].to)
    /\ writer' = [writer EXCEPT ![w] = NoWrite]
    /\ UNCHANGED <<departure, checkout, payment, refund>>

BeginCompensation(c) ==
    /\ refund[c] # "completed"
    /\ booking[c] \in {"confirmed", "reservation_failed",
                        "compensation_pending", "manual_review_required"}
    /\ refund' = [refund EXCEPT ![c] = "processing"]
    /\ SetBooking(c, "compensation_pending")
    /\ UNCHANGED <<departure, checkout, payment, writer>>

CompleteCompensation(c) ==
    /\ refund[c] = "processing"
    /\ refund'  = [refund EXCEPT ![c] = "completed"]
    /\ payment' = [payment EXCEPT ![c] = "refunded"]
    /\ booking' = [booking EXCEPT ![c] = "refunded"]
    /\ UNCHANGED <<departure, checkout, form, writer>>

\* failCompensation: the refund first, then the order, both by id and unchecked.
FailCompensation(w, c) ==
    /\ writer[w] = NoWrite /\ refund[c] # "none"
    /\ refund' = [refund EXCEPT ![c] = "failed"]
    /\ writer' = [writer EXCEPT ![w] = Write(c, "manual_review_required")]
    /\ UNCHANGED <<departure, checkout, payment, booking, form>>

-----------------------------------------------------------------------------
CustomerStep(c) == CreateCheckout(c) \/ Lapse(c) \/ Sell(c)

StaffStep(s) == (\E p \in Patches : OpenForm(s, p)) \/ SaveForm(s) \/ DropForm(s)

WriterStep(w) ==
    \/ \E c \in Checkouts, s \in OrderStates : OpenWrite(w, c, s)
    \/ SaveWrite(w)
    \/ \E c \in Checkouts : FailCompensation(w, c)

CompensationStep(c) == BeginCompensation(c) \/ CompleteCompensation(c)

Next ==
    \/ \E c \in Checkouts : CustomerStep(c) \/ CompensationStep(c)
    \/ \E s \in Staff : StaffStep(s)
    \/ \E w \in Writers : WriterStep(w)
    \/ UpdatePackage

Spec == Init /\ [][Next]_vars

-----------------------------------------------------------------------------
(* Properties *)

TypeOK ==
    /\ total \in Capacities /\ held \in 0 .. total
    /\ status \in SaleStates
    /\ limit \in Limits
    /\ onSale \in BOOLEAN
    /\ checkout \in [Checkouts -> {"none", "open", "expired", "completed"}]
    /\ payment \in [Checkouts -> {"none", "paid", "refunded"}]
    /\ booking \in [Checkouts -> {"none"} \cup OrderStates]
    /\ refund \in [Checkouts -> {"none"} \cup RefundStates]
    /\ form \in [Staff -> {NoForm} \cup [patch : Patches, fresh : BOOLEAN]]
    /\ writer \in [Writers -> {NoWrite} \cup [order : Checkouts, to : OrderStates]]

\* How many travellers the departure carries beyond its places.
Excess == Cardinality(People(Taking)) + held - total

\* An edit is done that another step overtook between its check and its write.
Overtaken(s) == form[s] # NoForm /\ ~form[s].fresh /\ form'[s] = NoForm

\* An order is brought back after its places were free to sell.
Returned(c) == booking[c] # "none" /\ c \in Taking' \ Taking

\* A departure comes to carry more travellers than it has places for, or still
\* more of them, in one of three ways only: an edit of its capacity that was
\* overtaken between check and write, an order whose booking is brought back, or
\* a group that named no travellers.  The sale itself never overbooks, whatever
\* runs beside it (finalizePayment, updateDeparture, bookedCounts).
NeverOversold ==
    [][Excess' > 0 /\ Excess' > Excess
          => \/ \E s \in Staff : Overtaken(s)
             \/ \E c \in Checkouts : Returned(c)
             \/ Taking' \ Listed # {}]_vars

\* A cancelled departure is reopened only by an edit that was checked before the
\* cancellation and written after it (updateDeparture).
CancelledStays ==
    [][status = "CANCELLED" /\ status' # "CANCELLED" => \E s \in Staff : Overtaken(s)]_vars
=============================================================================
