--------------------------- MODULE HotelInventory ---------------------------
(***************************************************************************)
(* Rooms of a hotel that is managed here (source DIRECT or DEMO): the      *)
(* calendar of one rate, the checkouts that quote it, the sale that takes  *)
(* rooms out of it when a payment is finalized, and the compensation that  *)
(* puts them back (server/hotels/domain.ts, repositories/hotels.ts and     *)
(* createCheckout, finalizePayment, completeCompensation and               *)
(* releaseHotelInventory of repositories/prisma-runtime.ts).               *)
(*                                                                         *)
(* finalizePayment and the compensation transactions are serializable: one *)
(* step each.  A sold order starts as confirmed; what sends it towards a   *)
(* compensation is an operator's override, after which a booking handler   *)
(* asks a supplier about it and may find the reservation failed.  Attempt  *)
(* rows, the gateway's refund and customer refund requests are modelled in *)
(* Fulfilment; here they only decide which branch a handler takes.         *)
(***************************************************************************)
EXTENDS Integers, FiniteSets, States

CONSTANTS
    Checkouts,  \* checkouts of managed hotel stays; each makes at most one order
    Nights,     \* nights of the calendar
    StayNights, \* the nights of a checkout's stay
    Rooms,      \* the number of rooms a checkout asks for
    Workers,    \* booking handlers that may run concurrently
    Operators,  \* staff sessions that override a booking status
    MaxRooms,   \* largest availableRooms a row may hold (DailyInventory check)
    Prices,     \* prices of a night, base rate or override
    Minimums    \* minimum stays of a night

ASSUME HotelAssumption ==
    /\ StayNights \in [Checkouts -> SUBSET Nights \ {{}}]
    /\ Rooms \in [Checkouts -> Nat \ {0}]
    /\ MaxRooms \in Nat

VARIABLES
    day,        \* DailyInventory: rooms, closed, price and minimum of a night
    offered,    \* ghost: rooms the hotelier has put up for a night, sold ones included
    onSale,     \* property published and operating, its room and rate active
    source,     \* Property.sourceType; DIRECT stands for DEMO too
    checkout,   \* none, open, expired or completed
    quote,      \* the nightly prices a checkout was made with, <<>> before
    payment,    \* Order.paymentStatus, or none
    booking,    \* Order.bookingStatus, or none
    allocation, \* HotelInventoryAllocation.status, or none
    refund,     \* status of the compensation RefundRequest, or none
    pc, job,    \* where each worker is, and the order and status it carries
    panel       \* the edit an operator has checked but not yet written

calendar == <<day, offered, onSale, source>>
sales    == <<checkout, quote>>
orders   == <<payment, booking, allocation, refund>>
vars     == <<calendar, sales, orders, pc, job, panel>>

Day     == [rooms : 0 .. MaxRooms, closed : BOOLEAN, price : Prices, minimum : Minimums]
Fields  == {"rooms", "closed", "price", "minimum"}

\* Those an edit can change: a field of one value only stays as it is.
Editable == {f \in Fields : \E a, b \in Day : a[f] # b[f]}

Sources == {"DIRECT", "HYBRID", "SUPPLIER"}

Task(c, s) == [order |-> c, to |-> s]
NoTask     == Task("none", "none")
NoEdit     == [order |-> "none"]

Goto(w, l)       == pc' = [pc EXCEPT ![w] = l] /\ UNCHANGED job
GotoFor(w, l, t) == pc' = [pc EXCEPT ![w] = l] /\ job' = [job EXCEPT ![w] = t]
Finish(w)        == GotoFor(w, "idle", NoTask)

-----------------------------------------------------------------------------
(* The calendar *)

\* A night has a price: inventoryPrice is not null.
Priced(n) == ~day[n].closed /\ day[n].rooms > 0

HasRooms(c) == \A n \in StayNights[c] : Priced(n) /\ day[n].rooms >= Rooms[c]

\* The catalogue rows behind the selection: property, room and rate.
Selectable == onSale /\ source = "DIRECT"

Terms(c) == [n \in StayNights[c] |-> day[n].price]

LongEnough(c) == \A n \in StayNights[c] : Cardinality(StayNights[c]) >= day[n].minimum

\* The rooms of one night once the stay has taken, or given back, k times its rooms.
Moved(c, k) ==
    [n \in Nights |-> IF n \in StayNights[c]
                      THEN [day[n] EXCEPT !.rooms = @ + k * Rooms[c]]
                      ELSE day[n]]

\* Rooms of a night that stays hold at present, each stay's counted from 1.
HeldRooms(n) ==
    UNION {{c} \X (1 .. Rooms[c]) :
             c \in {d \in Checkouts : allocation[d] = "ACTIVE" /\ n \in StayNights[d]}}

Held(n) == Cardinality(HeldRooms(n))

Init ==
    /\ day \in [Nights -> Day]
    /\ offered = [n \in Nights |-> day[n].rooms]
    /\ onSale \in BOOLEAN
    /\ source \in Sources
    /\ checkout   = [c \in Checkouts |-> "none"]
    /\ quote      = [c \in Checkouts |-> <<>>]
    /\ payment    = [c \in Checkouts |-> "none"]
    /\ booking    = [c \in Checkouts |-> "none"]
    /\ allocation = [c \in Checkouts |-> "none"]
    /\ refund     = [c \in Checkouts |-> "none"]
    /\ pc  = [w \in Workers |-> "idle"]
    /\ job = [w \in Workers |-> NoTask]
    /\ panel = [p \in Operators |-> NoEdit]

\* PUT inventory: the given fields of the given nights are overwritten with the
\* given values, whatever has been sold since the merchant looked.
BulkInventory ==
    /\ source = "DIRECT"
    /\ \E ns \in SUBSET Nights \ {{}}, fs \in SUBSET Editable \ {{}}, new \in Day :
          day' = [n \in Nights |->
                     IF n \in ns
                     THEN [f \in Fields |-> IF f \in fs THEN new[f] ELSE day[n][f]]
                     ELSE day[n]]
    /\ offered' = [n \in Nights |->
                      IF day'[n].rooms # day[n].rooms THEN day'[n].rooms + Held(n) ELSE offered[n]]
    /\ UNCHANGED <<onSale, source, sales, orders, pc, job, panel>>

\* PATCH hotel, room or rate: publication, status and source; a source that is
\* SUPPLIER is locked.
UpdateProperty ==
    /\ onSale' \in BOOLEAN
    /\ source' \in IF source = "SUPPLIER" THEN {"SUPPLIER"} ELSE Sources
    /\ UNCHANGED <<day, offered, sales, orders, pc, job, panel>>

-----------------------------------------------------------------------------
(* From quote to sale *)

CreateCheckout(c) ==
    /\ checkout[c] = "none"
    /\ Selectable /\ LongEnough(c) /\ HasRooms(c)
    /\ checkout' = [checkout EXCEPT ![c] = "open"]
    /\ quote'    = [quote EXCEPT ![c] = Terms(c)]
    /\ UNCHANGED <<calendar, orders, pc, job, panel>>

Lapse(c) ==
    /\ checkout[c] = "open"
    /\ checkout' = [checkout EXCEPT ![c] = "expired"]
    /\ UNCHANGED <<calendar, quote, orders, pc, job, panel>>

\* finalizePayment of a stay: price and minimum stay are those of the checkout.
Sell(c) ==
    /\ checkout[c] = "open"
    /\ Selectable /\ HasRooms(c)
    /\ day'        = Moved(c, -1)
    /\ checkout'   = [checkout EXCEPT ![c] = "completed"]
    /\ payment'    = [payment EXCEPT ![c] = "paid"]
    /\ booking'    = [booking EXCEPT ![c] = "confirmed"]
    /\ allocation' = [allocation EXCEPT ![c] = "ACTIVE"]
    /\ UNCHANGED <<offered, onSale, source, quote, refund, pc, job, panel>>

-----------------------------------------------------------------------------
(* From sale to release *)

\* A booking handler asserts the move to the status it will write: what a
\* supplier said of an order that no supplier knows.
CheckOrder(w, c, s) ==
    /\ pc[w] = "idle"
    /\ booking[c] # "none" /\ Allowed(OrderMoves, booking[c], s)
    /\ GotoFor(w, "write", Task(c, s))
    /\ UNCHANGED <<calendar, sales, orders, panel>>

\* The write is by id, whatever has been written since; a failed reservation
\* goes on to be compensated.
WriteOrder(w) ==
    /\ pc[w] = "write"
    /\ booking' = [booking EXCEPT ![job[w].order] = job[w].to]
    /\ IF job[w].to = "reservation_failed" THEN Goto(w, "compensate") ELSE Finish(w)
    /\ UNCHANGED <<calendar, sales, payment, allocation, refund, panel>>

MayBegin(c) ==
    /\ refund[c] # "completed"
    /\ booking[c] \in {"confirmed", "reservation_failed",
                        "compensation_pending", "manual_review_required"}

BeginCompensation(w) ==
    LET c == job[w].order IN
    /\ pc[w] = "compensate"
    /\ IF MayBegin(c)
       THEN /\ refund'  = [refund EXCEPT ![c] = "processing"]
            /\ booking' = [booking EXCEPT ![c] = "compensation_pending"]
            /\ Goto(w, "complete")
       ELSE Finish(w) /\ UNCHANGED <<refund, booking>>
    /\ UNCHANGED <<calendar, sales, payment, allocation, panel>>

Releases_Again(c) == allocation[c] \in {"ACTIVE", "RELEASED"}
Releases_OpenNights(c) ==
    allocation[c] = "ACTIVE" /\ \A n \in StayNights[c] : ~day[n].closed

\* releaseHotelInventory: an allocation that is ACTIVE gives its rooms back.
Releases(c) == allocation[c] = "ACTIVE"

Release(c) ==
    IF Releases(c)
    THEN /\ day' = Moved(c, 1)
         /\ allocation' = [allocation EXCEPT ![c] = "RELEASED"]
    ELSE UNCHANGED <<day, allocation>>

Overflows_Never(c) == FALSE

\* The release would take a night above what its row may hold.
Overflows(c) ==
    Releases(c) /\ \E n \in StayNights[c] : day[n].rooms + Rooms[c] > MaxRooms

\* completeCompensation: all of it commits, or none when the refund is no longer
\* processing or the release breaks the row's check.
CompleteCompensation(w) ==
    LET c == job[w].order IN
    /\ pc[w] = "complete" /\ refund[c] = "processing" /\ ~Overflows(c)
    /\ Release(c)
    /\ payment' = [payment EXCEPT ![c] = "refunded"]
    /\ booking' = [booking EXCEPT ![c] = "refunded"]
    /\ refund'  = [refund EXCEPT ![c] = "completed"]
    /\ Finish(w)
    /\ UNCHANGED <<offered, onSale, source, sales, panel>>

AlreadyCompleted(w) ==
    /\ pc[w] = "complete" /\ refund[job[w].order] = "completed"
    /\ Finish(w)
    /\ UNCHANGED <<calendar, sales, orders, panel>>

\* failCompensation: the gateway refused the refund or the completion failed.
\* Both writes are by id and without a check.
FailRefund(w) ==
    /\ pc[w] = "complete"
    /\ refund' = [refund EXCEPT ![job[w].order] = "failed"]
    /\ Goto(w, "fail")
    /\ UNCHANGED <<calendar, sales, payment, booking, allocation, panel>>

FailOrder(w) ==
    /\ pc[w] = "fail"
    /\ booking' = [booking EXCEPT ![job[w].order] = "manual_review_required"]
    /\ Finish(w)
    /\ UNCHANGED <<calendar, sales, payment, allocation, refund, panel>>

\* The process ends, or a storage error ends the handler.
Abandon(w) ==
    /\ pc[w] # "idle"
    /\ Finish(w)
    /\ UNCHANGED <<calendar, sales, orders, panel>>

\* The back office checks an edit of a booking, or of an open refund, on one
\* read and writes it by id.
OpenEdit(p, c, field, s) ==
    /\ panel[p] = NoEdit
    /\ booking[c] # "none"
    /\ \/ field = "booking" /\ Allowed(OverrideMoves, booking[c], s)
       \/ field = "refund" /\ refund[c] = "processing" /\ s \in {"processing", "failed"}
    /\ panel' = [panel EXCEPT ![p] = [order |-> c, field |-> field, to |-> s]]
    /\ UNCHANGED <<calendar, sales, orders, pc, job>>

SaveEdit(p) ==
    /\ panel[p] # NoEdit
    /\ LET e == panel[p] IN
       IF e.field = "booking"
       THEN booking' = [booking EXCEPT ![e.order] = e.to] /\ UNCHANGED refund
       ELSE refund'  = [refund EXCEPT ![e.order] = e.to] /\ UNCHANGED booking
    /\ panel' = [panel EXCEPT ![p] = NoEdit]
    /\ UNCHANGED <<calendar, sales, payment, allocation, pc, job>>

-----------------------------------------------------------------------------
HotelierStep == BulkInventory \/ UpdateProperty

CustomerStep(c) == CreateCheckout(c) \/ Lapse(c) \/ Sell(c)

Outcomes == {"confirmed", "reservation_failed", "manual_review_required"}

HandlerStep(w) ==
    \/ \E c \in Checkouts, s \in Outcomes : CheckOrder(w, c, s)
    \/ WriteOrder(w) \/ BeginCompensation(w)
    \/ CompleteCompensation(w) \/ AlreadyCompleted(w)
    \/ FailRefund(w) \/ FailOrder(w) \/ Abandon(w)

PanelStep(p) ==
    \/ \E c \in Checkouts, f \in {"booking", "refund"}, s \in OrderStates \cup RefundStates :
          OpenEdit(p, c, f, s)
    \/ SaveEdit(p)

Next ==
    \/ HotelierStep
    \/ \E c \in Checkouts : CustomerStep(c)
    \/ \E w \in Workers : HandlerStep(w)
    \/ \E p \in Operators : PanelStep(p)

Spec == Init /\ [][Next]_vars

-----------------------------------------------------------------------------
(* Properties *)

TypeOK ==
    /\ day \in [Nights -> Day] /\ DOMAIN offered = Nights
    /\ onSale \in BOOLEAN /\ source \in Sources
    /\ checkout \in [Checkouts -> {"none", "open", "expired", "completed"}]
    /\ \A c \in Checkouts : quote[c] \in {<<>>} \cup [StayNights[c] -> Prices]
    /\ payment \in [Checkouts -> {"none", "paid", "refunded"}]
    /\ booking \in [Checkouts -> {"none"} \cup OrderStates]
    /\ allocation \in [Checkouts -> {"none", "ACTIVE", "RELEASED"}]
    /\ refund \in [Checkouts -> {"none"} \cup RefundStates]
    /\ pc \in [Workers -> {"idle", "write", "compensate", "complete", "fail"}]
    /\ job \in [Workers -> {NoTask} \cup {Task(c, s) : c \in Checkouts, s \in Outcomes}]
    /\ panel \in [Operators -> {NoEdit}
          \cup [order : Checkouts, field : {"booking"}, to : OrderStates]
          \cup [order : Checkouts, field : {"refund"}, to : RefundStates]]

\* Between two edits of the hotelier a room of a night is free or held by one
\* stay: a sale takes it from all its nights at once, and however often a
\* compensation is repeated, failed or reopened, the rooms of a stay come back
\* once (finalizePayment, releaseHotelInventory).
RoomsAddUp == \A n \in Nights : day[n].rooms + Held(n) = offered[n]

\* An order that counts as paid holds its rooms and an order whose money is back
\* does not: no path refunds a stay without releasing it, or releases it first
\* (completeCompensation changes the payment and the allocation together).
PaidHoldsRooms ==
    \A c \in Checkouts :
        /\ payment[c] = "paid"     <=> allocation[c] = "ACTIVE"
        /\ payment[c] = "refunded" <=> allocation[c] = "RELEASED"

\* What the operations guide says of payment: the control of every night's price
\* and minimum stay is repeated in the transaction, so that a stay is only sold
\* on the terms in force.
SoldOnCurrentTerms ==
    [][\A c \in Checkouts :
          payment[c] = "none" /\ payment'[c] = "paid"
              => quote[c] = Terms(c) /\ LongEnough(c)]_vars
=============================================================================
