------------------------ MODULE HotelInventory_proofs ------------------------
(***************************************************************************)
(* Proofs about HotelInventory for any calendar, any stays and any number  *)
(* of handlers and operators.                                              *)
(***************************************************************************)
EXTENDS HotelInventory, FiniteSetTheorems, TLAPS

\* An order row comes with its payment, and whoever works on an order or edits
\* it has found it there.
OrdersPresent ==
    /\ \A c \in Checkouts : booking[c] # "none" <=> payment[c] # "none"
    /\ \A w \in Workers : pc[w] # "idle" =>
          /\ job[w].order \in Checkouts /\ job[w].to \in Outcomes
          /\ payment[job[w].order] # "none"
    /\ \A p \in Operators : panel[p] # NoEdit => payment[panel[p].order] # "none"

RoomsInv == TypeOK /\ OrdersPresent /\ PaidHoldsRooms

\* What the panel may write to a booking is one of the order statuses.
LEMMA OverridesStay ==
    ASSUME NEW from \in OrderStates, NEW to, Allowed(OverrideMoves, from, to)
    PROVE  to \in OrderStates
  BY DEF Allowed, OverrideMoves, OrderStates

\* A calendar stays one when a stay's rooms move and every night can bear it.
LEMMA MovedIsCalendar ==
    ASSUME TypeOK, NEW c \in Checkouts, NEW k \in {-1, 1},
           \A n \in StayNights[c] : day[n].rooms + k * Rooms[c] \in 0 .. MaxRooms
    PROVE  Moved(c, k) \in [Nights -> Day]
  <1>1. ASSUME NEW n \in Nights
        PROVE  (IF n \in StayNights[c] THEN [day[n] EXCEPT !.rooms = @ + k * Rooms[c]]
                ELSE day[n]) \in Day
    <2>1. day[n] \in Day BY DEF TypeOK
    <2>2. CASE n \in StayNights[c]
      <3>1. [day[n] EXCEPT !.rooms = @ + k * Rooms[c]] =
                [rooms |-> day[n].rooms + k * Rooms[c], closed |-> day[n].closed,
                 price |-> day[n].price, minimum |-> day[n].minimum]
        BY <2>1 DEF Day
      <3> QED BY <2>1, <2>2, <3>1 DEF Day
    <2> QED BY <2>1, <2>2
  <1> QED BY <1>1 DEF Moved

LEMMA InitRooms == Init => RoomsInv
  BY DEF Init, RoomsInv, TypeOK, OrdersPresent, PaidHoldsRooms, NoTask, NoEdit,
         Task, Day, Sources

\* The hotelier's edits leave orders alone and keep the calendar one.
LEMMA HotelierKeeps ==
    ASSUME RoomsInv, HotelierStep
    PROVE  RoomsInv'
  <1>1. UNCHANGED <<sales, orders, pc, job, panel>>
    BY DEF HotelierStep, BulkInventory, UpdateProperty
  <1>2. day' \in [Nights -> Day]
    <2>1. CASE UpdateProperty BY <2>1 DEF UpdateProperty, RoomsInv, TypeOK
    <2>2. CASE BulkInventory
      <3>1. PICK ns \in SUBSET Nights \ {{}}, fs \in SUBSET Editable \ {{}}, new \in Day :
               day' = [n \in Nights |->
                         IF n \in ns
                         THEN [f \in Fields |-> IF f \in fs THEN new[f] ELSE day[n][f]]
                         ELSE day[n]]
        BY <2>2 DEF BulkInventory
      <3>2. ASSUME NEW n \in Nights
            PROVE  [f \in Fields |-> IF f \in fs THEN new[f] ELSE day[n][f]] \in Day
        <4>1. day[n] \in Day BY DEF RoomsInv, TypeOK
        <4>2. [f \in Fields |-> IF f \in fs THEN new[f] ELSE day[n][f]] =
                 [rooms   |-> IF "rooms" \in fs THEN new.rooms ELSE day[n].rooms,
                  closed  |-> IF "closed" \in fs THEN new.closed ELSE day[n].closed,
                  price   |-> IF "price" \in fs THEN new.price ELSE day[n].price,
                  minimum |-> IF "minimum" \in fs THEN new.minimum ELSE day[n].minimum]
          BY DEF Fields
        <4> QED BY <4>1, <4>2 DEF Day
      <3> QED BY <3>1, <3>2 DEF RoomsInv, TypeOK
    <2> QED BY <2>1, <2>2 DEF HotelierStep
  <1>3. DOMAIN offered' = Nights /\ onSale' \in BOOLEAN /\ source' \in Sources
    BY DEF HotelierStep, BulkInventory, UpdateProperty, RoomsInv, TypeOK, Sources
  <1> QED BY <1>1, <1>2, <1>3
          DEF RoomsInv, TypeOK, OrdersPresent, PaidHoldsRooms, sales, orders

\* Only a sale moves rooms or orders, and it makes the order and its allocation.
LEMMA CustomerKeeps ==
    ASSUME RoomsInv, NEW c \in Checkouts, CustomerStep(c)
    PROVE  RoomsInv'
  <1>1. CASE CreateCheckout(c)
    <2>1. Terms(c) \in [StayNights[c] -> Prices]
      <3>1. \A n \in StayNights[c] : day[n] \in Day
        BY HotelAssumption DEF RoomsInv, TypeOK
      <3> QED BY <3>1 DEF Terms, Day
    <2> QED BY <1>1, <2>1 DEF CreateCheckout, calendar, orders, RoomsInv, TypeOK,
                              OrdersPresent, PaidHoldsRooms
  <1>2. CASE Lapse(c)
    BY <1>2 DEF Lapse, calendar, orders, RoomsInv, TypeOK, OrdersPresent,
                PaidHoldsRooms
  <1>3. CASE Sell(c)
    <2>1. day' \in [Nights -> Day]
      <3>1. \A n \in StayNights[c] : day[n] \in Day /\ day[n].rooms >= Rooms[c]
        <4>1. \A n \in StayNights[c] : n \in Nights BY HotelAssumption
        <4>2. day \in [Nights -> Day] BY DEF RoomsInv, TypeOK
        <4>3. \A n \in StayNights[c] : day[n].rooms >= Rooms[c]
          BY <1>3 DEF Sell, HasRooms
        <4> QED BY <4>1, <4>2, <4>3
      <3>2. Rooms[c] \in Nat /\ MaxRooms \in Nat BY HotelAssumption
      <3>3. \A n \in StayNights[c] : day[n].rooms + (-1) * Rooms[c] \in 0 .. MaxRooms
        BY <3>1, <3>2 DEF Day
      <3> QED BY <1>3, <3>3, MovedIsCalendar DEF Sell, RoomsInv
    <2>2. TypeOK'
      BY <1>3, <2>1 DEF Sell, RoomsInv, TypeOK, OrderStates
    <2>3. OrdersPresent'
      BY <1>3 DEF Sell, RoomsInv, TypeOK, OrdersPresent
    <2>4. PaidHoldsRooms'
      BY <1>3 DEF Sell, RoomsInv, TypeOK, PaidHoldsRooms
    <2> QED BY <2>2, <2>3, <2>4 DEF RoomsInv
  <1> QED BY <1>1, <1>2, <1>3 DEF CustomerStep

\* A completion changes payment and allocation of one order together; every
\* other step of a handler leaves both alone.
LEMMA HandlerKeeps ==
    ASSUME RoomsInv, NEW w \in Workers, HandlerStep(w)
    PROVE  RoomsInv'
  <1> USE DEF Goto, GotoFor, Finish
  <1>1. ASSUME NEW c \in Checkouts, NEW s \in Outcomes, CheckOrder(w, c, s)
        PROVE  RoomsInv'
    <2>1. Task(c, s).order = c /\ Task(c, s).to = s BY DEF Task
    <2> QED BY <1>1, <2>1 DEF CheckOrder, calendar, sales, orders, RoomsInv, TypeOK,
                              OrdersPresent, PaidHoldsRooms
  <1>2. CASE WriteOrder(w)
    <2>1. job[w].order \in Checkouts /\ job[w].to \in Outcomes
      BY <1>2 DEF WriteOrder, RoomsInv, OrdersPresent
    <2>2. TypeOK'
      BY <1>2, <2>1 DEF WriteOrder, calendar, sales, RoomsInv, TypeOK, Outcomes, OrderStates
    <2>3. OrdersPresent'
      BY <1>2, <2>1 DEF WriteOrder, RoomsInv, TypeOK, OrdersPresent, Outcomes
    <2>4. PaidHoldsRooms'
      BY <1>2 DEF WriteOrder, RoomsInv, PaidHoldsRooms
    <2> QED BY <2>2, <2>3, <2>4 DEF RoomsInv
  <1>3. CASE BeginCompensation(w)
    <2>1. job[w].order \in Checkouts
      BY <1>3 DEF BeginCompensation, RoomsInv, OrdersPresent
    <2> QED BY <1>3, <2>1 DEF BeginCompensation, MayBegin, calendar, sales, RoomsInv,
                TypeOK, OrdersPresent, PaidHoldsRooms, OrderStates, RefundStates
  <1>4. CASE CompleteCompensation(w)
    <2> DEFINE c == job[w].order
    <2>1. c \in Checkouts /\ payment[c] # "none"
      BY <1>4 DEF CompleteCompensation, RoomsInv, OrdersPresent
    <2>2. day' \in [Nights -> Day]
      <3>1. CASE allocation[c] = "ACTIVE"
        <4>1. \A n \in StayNights[c] : day[n] \in Day
          BY <2>1, HotelAssumption DEF RoomsInv, TypeOK
        <4>2. Rooms[c] \in Nat /\ MaxRooms \in Nat BY <2>1, HotelAssumption
        <4>3. \A n \in StayNights[c] : day[n].rooms + 1 * Rooms[c] \in 0 .. MaxRooms
          BY <1>4, <3>1, <4>1, <4>2 DEF CompleteCompensation, Overflows, Releases, Day
        <4>4. day' = Moved(c, 1)
          BY <1>4, <3>1 DEF CompleteCompensation, Release, Releases
        <4> QED BY <2>1, <4>3, <4>4, MovedIsCalendar DEF RoomsInv
      <3>2. CASE allocation[c] # "ACTIVE"
        BY <1>4, <3>2 DEF CompleteCompensation, Release, Releases, RoomsInv, TypeOK
      <3> QED BY <3>1, <3>2
    <2>3. /\ allocation' = [allocation EXCEPT ![c] = "RELEASED"]
          /\ payment' = [payment EXCEPT ![c] = "refunded"]
      BY <1>4, <2>1 DEF CompleteCompensation, Release, Releases, RoomsInv, TypeOK,
                        PaidHoldsRooms
    <2>4. TypeOK'
      BY <1>4, <2>1, <2>2, <2>3 DEF CompleteCompensation, sales, RoomsInv, TypeOK,
                                    OrderStates, RefundStates
    <2>5. OrdersPresent'
      BY <1>4, <2>1, <2>3 DEF CompleteCompensation, RoomsInv, TypeOK, OrdersPresent
    <2>6. PaidHoldsRooms'
      BY <2>1, <2>3 DEF RoomsInv, TypeOK, PaidHoldsRooms
    <2> QED BY <2>4, <2>5, <2>6 DEF RoomsInv
  <1>5. CASE FailRefund(w) \/ FailOrder(w)
    <2>1. job[w].order \in Checkouts
      BY <1>5 DEF FailRefund, FailOrder, RoomsInv, OrdersPresent
    <2> QED BY <1>5, <2>1 DEF FailRefund, FailOrder, calendar, sales, RoomsInv, TypeOK,
                OrdersPresent, PaidHoldsRooms, OrderStates, RefundStates
  <1>6. CASE AlreadyCompleted(w) \/ Abandon(w)
    BY <1>6 DEF AlreadyCompleted, Abandon, calendar, sales, orders, RoomsInv, TypeOK,
                OrdersPresent, PaidHoldsRooms
  <1> QED BY <1>1, <1>2, <1>3, <1>4, <1>5, <1>6 DEF HandlerStep

\* The panel writes a booking or a refund status and nothing else.
LEMMA PanelKeeps ==
    ASSUME RoomsInv, NEW p \in Operators, PanelStep(p)
    PROVE  RoomsInv'
  <1>1. ASSUME NEW c \in Checkouts, NEW f \in {"booking", "refund"}, NEW s,
               OpenEdit(p, c, f, s)
        PROVE  RoomsInv'
    <2> DEFINE e == [order |-> c, field |-> f, to |-> s]
    <2>1. /\ f = "booking" => s \in OrderStates
          /\ f = "refund"  => s \in RefundStates
      <3>1. booking[c] \in OrderStates
        BY <1>1 DEF OpenEdit, RoomsInv, TypeOK
      <3> QED BY <1>1, <3>1, OverridesStay DEF OpenEdit, RefundStates
    <2>2. e \in [order : Checkouts, field : {"booking"}, to : OrderStates]
               \cup [order : Checkouts, field : {"refund"}, to : RefundStates]
      BY <2>1
    <2>3. panel' = [panel EXCEPT ![p] = e] /\ payment[c] # "none"
      BY <1>1 DEF OpenEdit, RoomsInv, OrdersPresent
    <2>4. TypeOK'
      BY <1>1, <2>2, <2>3 DEF OpenEdit, calendar, sales, orders, RoomsInv, TypeOK
    <2>5. e.order = c OBVIOUS
    <2>6. OrdersPresent'
      BY <1>1, <2>3, <2>5 DEF OpenEdit, orders, RoomsInv, TypeOK, OrdersPresent
    <2> QED BY <1>1, <2>4, <2>6 DEF OpenEdit, orders, RoomsInv, PaidHoldsRooms
  <1>2. CASE SaveEdit(p)
    <2> DEFINE e == panel[p]
    <2>1. /\ e \in [order : Checkouts, field : {"booking"}, to : OrderStates]
                \cup [order : Checkouts, field : {"refund"}, to : RefundStates]
          /\ payment[e.order] # "none"
      BY <1>2 DEF SaveEdit, RoomsInv, TypeOK, OrdersPresent
    <2>2. TypeOK'
      BY <1>2, <2>1 DEF SaveEdit, calendar, sales, RoomsInv, TypeOK
    <2>3. OrdersPresent'
      BY <1>2, <2>1 DEF SaveEdit, RoomsInv, TypeOK, OrdersPresent, OrderStates
    <2> QED BY <1>2, <2>2, <2>3 DEF SaveEdit, RoomsInv, PaidHoldsRooms
  <1> QED BY <1>1, <1>2 DEF PanelStep

LEMMA RoomsStep == RoomsInv /\ [Next]_vars => RoomsInv'
  <1>1. RoomsInv /\ UNCHANGED vars => RoomsInv'
    BY DEF vars, calendar, sales, orders, RoomsInv, TypeOK, OrdersPresent, PaidHoldsRooms
  <1> QED BY <1>1, HotelierKeeps, CustomerKeeps, HandlerKeeps, PanelKeeps DEF Next

\* Every row has its type in every reachable state; in particular no night ever
\* holds less than no room or more than its column's check allows.
THEOREM TypeCorrect == Spec => []TypeOK
  BY InitRooms, RoomsStep, PTL DEF Spec, RoomsInv

\* For any calendar, stays, handlers and operators: paid orders hold their rooms
\* and refunded ones have given them back.
THEOREM PaidOrdersHold == Spec => []PaidHoldsRooms
  BY InitRooms, RoomsStep, PTL DEF Spec, RoomsInv

-----------------------------------------------------------------------------
(* Rooms add up *)

\* The rooms one stay holds of a night, as many as it asked for.
StayRooms(c) == {c} \X (1 .. Rooms[c])

Holders(n) == {c \in Checkouts : allocation[c] = "ACTIVE" /\ n \in StayNights[c]}

\* Finitely many rooms of a night are held at a time, or they could not be
\* counted, and what is free and what is held make up what was offered.
CountInv ==
    \A n \in Nights :
        /\ IsFiniteSet(HeldRooms(n))
        /\ day[n].rooms + Held(n) = offered[n]

\* An order closes its checkout, so that it is sold once.
SoldOnce == \A c \in Checkouts : payment[c] # "none" => checkout[c] = "completed"

LEMMA StayRoomsSize ==
    ASSUME NEW c \in Checkouts
    PROVE  IsFiniteSet(StayRooms(c)) /\ Cardinality(StayRooms(c)) = Rooms[c]
  <1> DEFINE A == {c}
             B == 1 .. Rooms[c]
  <1>0. Rooms[c] \in Nat BY HotelAssumption
  <1>1. IsFiniteSet(A) /\ Cardinality(A) = 1 BY FS_Singleton
  <1>2. IsFiniteSet(B) /\ Cardinality(B) = Rooms[c] BY <1>0, FS_Interval
  <1>3. StayRooms(c) = A \X B BY DEF StayRooms
  <1> HIDE DEF A, B
  <1>4. IsFiniteSet(A \X B) /\ Cardinality(A \X B) = Cardinality(A) * Cardinality(B)
    BY <1>1, <1>2, FS_Product
  <1>5. Cardinality(A \X B) = Rooms[c] BY <1>0, <1>1, <1>2, <1>4
  <1> QED BY <1>3, <1>4, <1>5

\* Adding a stay that does not hold rooms of the night to those that do adds its rooms.
LEMMA OneMoreStay ==
    ASSUME NEW S, NEW T, NEW c \in Checkouts, c \notin S, T = S \cup {c},
           IsFiniteSet(UNION {StayRooms(d) : d \in S})
                \/ IsFiniteSet(UNION {StayRooms(d) : d \in T})
    PROVE  LET H == UNION {StayRooms(d) : d \in S}
               G == UNION {StayRooms(d) : d \in T}
           IN  /\ IsFiniteSet(H) /\ IsFiniteSet(G)
               /\ Cardinality(H) \in Nat
               /\ Cardinality(G) = Cardinality(H) + Rooms[c]
  <1> DEFINE H == UNION {StayRooms(d) : d \in S}
             G == UNION {StayRooms(d) : d \in T}
             R == StayRooms(c)
  <1>1. IsFiniteSet(R) /\ Cardinality(R) = Rooms[c] BY StayRoomsSize
  <1>2. G = H \cup R OBVIOUS
  <1>3. H \cap R = {}
    <2>1. \A d \in S : \A t \in StayRooms(d) : t[1] = d BY DEF StayRooms
    <2>2. \A t \in R : t[1] = c BY DEF StayRooms
    <2>3. \A t \in H : t[1] # c BY <2>1
    <2> QED BY <2>2, <2>3
  <1>4. IsFiniteSet(H) \/ IsFiniteSet(G) OBVIOUS
  <1> HIDE DEF H, G, R
  <1>5. IsFiniteSet(H)
    <2>1. H \subseteq G BY <1>2
    <2> QED BY <1>4, <2>1, FS_Subset
  <1>6. IsFiniteSet(G) /\ Cardinality(G) = Cardinality(H) + Cardinality(R) - Cardinality(H \cap R)
    BY <1>1, <1>2, <1>5, FS_Union
  <1>7. Cardinality(H \cap R) = 0 BY <1>3, FS_EmptySet
  <1>8. Cardinality(H) \in Nat BY <1>5, FS_CardinalityType
  <1>9. Cardinality(G) = Cardinality(H) + Rooms[c]
    <2>1. Rooms[c] \in Nat BY HotelAssumption
    <2> QED BY <1>1, <1>6, <1>7, <1>8, <2>1
  <1> QED BY <1>5, <1>6, <1>8, <1>9 DEF H, G

LEMMA InitRoomsAddUp == Init => SoldOnce /\ CountInv
  <1> SUFFICES ASSUME Init PROVE SoldOnce /\ CountInv OBVIOUS
  <1>1. \A n \in Nights : HeldRooms(n) = {} BY DEF Init, HeldRooms
  <1>2. \A n \in Nights : IsFiniteSet(HeldRooms(n)) /\ Held(n) = 0
    BY <1>1, FS_EmptySet DEF Held
  <1>3. \A n \in Nights : day[n].rooms \in Int /\ offered[n] = day[n].rooms
    BY DEF Init, Day
  <1> QED BY <1>2, <1>3 DEF Init, SoldOnce, CountInv

LEMMA SoldOnceStep == RoomsInv /\ SoldOnce /\ [Next]_vars => SoldOnce'
  <1> SUFFICES ASSUME RoomsInv, SoldOnce, [Next]_vars PROVE SoldOnce' OBVIOUS
  <1> USE DEF SoldOnce, RoomsInv, TypeOK
  <1>1. CASE UNCHANGED <<checkout, payment>> BY <1>1
  <1>2. ASSUME NEW c \in Checkouts, CustomerStep(c) PROVE SoldOnce'
    BY <1>2 DEF CustomerStep, CreateCheckout, Lapse, Sell, orders
  <1>3. ASSUME NEW w \in Workers, CompleteCompensation(w) PROVE SoldOnce'
    BY <1>3 DEF CompleteCompensation, OrdersPresent, sales
  <1>4. ASSUME NEW w \in Workers, HandlerStep(w), ~CompleteCompensation(w)
        PROVE  UNCHANGED <<checkout, payment>>
    BY <1>4 DEF HandlerStep, CheckOrder, WriteOrder, BeginCompensation, AlreadyCompleted,
                FailRefund, FailOrder, Abandon, sales, orders
  <1>5. HotelierStep => UNCHANGED <<checkout, payment>>
    BY DEF HotelierStep, BulkInventory, UpdateProperty, sales, orders
  <1>6. ASSUME NEW p \in Operators, PanelStep(p) PROVE UNCHANGED <<checkout, payment>>
    BY <1>6 DEF PanelStep, OpenEdit, SaveEdit, sales, orders
  <1>7. UNCHANGED vars => UNCHANGED <<checkout, payment>> BY DEF vars, sales, orders
  <1> QED BY <1>1, <1>2, <1>3, <1>4, <1>5, <1>6, <1>7 DEF Next

\* A sale takes from each of its nights what it comes to hold there.
LEMMA SellCounts ==
    ASSUME RoomsInv, SoldOnce, CountInv, NEW c \in Checkouts, Sell(c)
    PROVE  CountInv'
  <1>1. allocation[c] # "ACTIVE"
    BY DEF RoomsInv, PaidHoldsRooms, SoldOnce, Sell
  <1>2. ASSUME NEW n \in Nights
        PROVE  IsFiniteSet(HeldRooms(n))' /\ day'[n].rooms + Held(n)' = offered'[n]
    <2>1. CASE n \in StayNights[c]
      <3>1. Holders(n)' = Holders(n) \cup {c} /\ c \notin Holders(n)
        BY <1>1, <2>1 DEF Sell, Holders, RoomsInv, TypeOK
      <3>2. /\ HeldRooms(n) = UNION {StayRooms(d) : d \in Holders(n)}
            /\ HeldRooms(n)' = UNION {StayRooms(d) : d \in Holders(n)'}
        BY DEF HeldRooms, StayRooms, Holders
      <3>3. /\ IsFiniteSet(HeldRooms(n)') /\ Held(n) \in Nat
            /\ Held(n)' = Held(n) + Rooms[c]
        <4> DEFINE S == Holders(n)
                   T == Holders(n)'
        <4>1. c \notin S /\ T = S \cup {c} BY <3>1
        <4>2. /\ HeldRooms(n) = UNION {StayRooms(d) : d \in S}
              /\ HeldRooms(n)' = UNION {StayRooms(d) : d \in T}
          BY <3>2
        <4>3. IsFiniteSet(HeldRooms(n)) BY DEF CountInv
        <4>4. Held(n)' = Cardinality(HeldRooms(n)') BY DEF Held
        <4> HIDE DEF S, T
        <4> QED BY <4>1, <4>2, <4>3, <4>4, OneMoreStay DEF Held
      <3>4. /\ day'[n].rooms = day[n].rooms - Rooms[c]
            /\ day[n].rooms \in Int /\ Rooms[c] \in Nat
        <4>1. day[n] \in Day /\ Rooms[c] \in Nat BY HotelAssumption DEF RoomsInv, TypeOK
        <4>2. day'[n] = [day[n] EXCEPT !.rooms = @ + (-1) * Rooms[c]]
          BY <2>1 DEF Sell, Moved
        <4> QED BY <4>1, <4>2 DEF Day
      <3> QED BY <3>3, <3>4 DEF CountInv, Sell
    <2>2. CASE n \notin StayNights[c]
      <3>1. HeldRooms(n)' = HeldRooms(n)
        BY <2>2 DEF Sell, HeldRooms, RoomsInv, TypeOK
      <3>2. day'[n] = day[n] BY <2>2 DEF Sell, Moved
      <3> QED BY <3>1, <3>2 DEF CountInv, Held, Sell
    <2> QED BY <2>1, <2>2
  <1> QED BY <1>2 DEF CountInv

\* A completed compensation gives back what the stay holds, or moves no room.
LEMMA ReleaseCounts ==
    ASSUME RoomsInv, CountInv, NEW w \in Workers, CompleteCompensation(w)
    PROVE  CountInv'
  <1>1. PICK c \in Checkouts : c = job[w].order
    BY DEF CompleteCompensation, RoomsInv, OrdersPresent
  <1>2. offered' = offered BY DEF CompleteCompensation
  <1>3. CASE allocation[c] # "ACTIVE"
    BY <1>1, <1>2, <1>3 DEF CompleteCompensation, Release, Releases, CountInv, Held, HeldRooms
  <1>4. CASE allocation[c] = "ACTIVE"
    <2>0. day' = Moved(c, 1) /\ allocation' = [allocation EXCEPT ![c] = "RELEASED"]
      BY <1>1, <1>4 DEF CompleteCompensation, Release, Releases
    <2>1. ASSUME NEW n \in Nights
          PROVE  IsFiniteSet(HeldRooms(n))' /\ day'[n].rooms + Held(n)' = offered'[n]
      <3>1. CASE n \in StayNights[c]
        <4>1. Holders(n) = Holders(n)' \cup {c} /\ c \notin Holders(n)'
          BY <1>4, <2>0, <3>1 DEF Holders, RoomsInv, TypeOK
        <4>2. /\ HeldRooms(n) = UNION {StayRooms(d) : d \in Holders(n)}
              /\ HeldRooms(n)' = UNION {StayRooms(d) : d \in Holders(n)'}
          BY DEF HeldRooms, StayRooms, Holders
        <4>3. /\ IsFiniteSet(HeldRooms(n)') /\ Held(n)' \in Nat
              /\ Held(n) = Held(n)' + Rooms[c]
          <5> DEFINE S == Holders(n)'
                     T == Holders(n)
          <5>1. c \notin S /\ T = S \cup {c} BY <4>1
          <5>2. /\ HeldRooms(n) = UNION {StayRooms(d) : d \in T}
                /\ HeldRooms(n)' = UNION {StayRooms(d) : d \in S}
            BY <4>2
          <5>3. IsFiniteSet(HeldRooms(n)) BY DEF CountInv
          <5>4. Held(n)' = Cardinality(HeldRooms(n)') BY DEF Held
          <5> HIDE DEF S, T
          <5> QED BY <5>1, <5>2, <5>3, <5>4, OneMoreStay DEF Held
        <4>4. /\ day'[n].rooms = day[n].rooms + Rooms[c]
              /\ day[n].rooms \in Int /\ Rooms[c] \in Nat
          <5>1. day[n] \in Day /\ Rooms[c] \in Nat BY HotelAssumption DEF RoomsInv, TypeOK
          <5>2. day'[n] = [day[n] EXCEPT !.rooms = @ + 1 * Rooms[c]]
            BY <2>0, <3>1 DEF Moved
          <5> QED BY <5>1, <5>2 DEF Day
        <4> QED BY <1>2, <4>3, <4>4 DEF CountInv
      <3>2. CASE n \notin StayNights[c]
        <4>1. HeldRooms(n)' = HeldRooms(n)
          BY <2>0, <3>2 DEF HeldRooms, RoomsInv, TypeOK
        <4>2. day'[n] = day[n] BY <2>0, <3>2 DEF Moved
        <4> QED BY <1>2, <4>1, <4>2 DEF CountInv, Held
      <3> QED BY <3>1, <3>2
    <2> QED BY <2>1 DEF CountInv
  <1> QED BY <1>3, <1>4

LEMMA CountStep == RoomsInv /\ SoldOnce /\ CountInv /\ [Next]_vars => CountInv'
  <1> SUFFICES ASSUME RoomsInv, SoldOnce, CountInv, [Next]_vars PROVE CountInv' OBVIOUS
  <1>1. CASE UNCHANGED <<day, offered, allocation>>
    BY <1>1 DEF CountInv, Held, HeldRooms
  <1>2. CASE BulkInventory
    <2>1. allocation' = allocation BY <1>2 DEF BulkInventory, orders
    <2>2. \A n \in Nights : HeldRooms(n)' = HeldRooms(n) BY <2>1 DEF HeldRooms
    <2>3. \A n \in Nights :
            offered'[n] = IF day'[n].rooms # day[n].rooms
                          THEN day'[n].rooms + Held(n) ELSE offered[n]
      BY <1>2 DEF BulkInventory
    <2>4. \A n \in Nights : day'[n].rooms + Held(n) = offered'[n]
      BY <2>3 DEF CountInv
    <2> QED BY <2>2, <2>4 DEF CountInv, Held
  <1>3. UpdateProperty => UNCHANGED <<day, offered, allocation>>
    BY DEF UpdateProperty, orders
  <1>4. ASSUME NEW c \in Checkouts, CreateCheckout(c) \/ Lapse(c)
        PROVE  UNCHANGED <<day, offered, allocation>>
    BY <1>4 DEF CreateCheckout, Lapse, calendar, orders
  <1>5. ASSUME NEW w \in Workers, HandlerStep(w), ~CompleteCompensation(w)
        PROVE  UNCHANGED <<day, offered, allocation>>
    BY <1>5 DEF HandlerStep, CheckOrder, WriteOrder, BeginCompensation, AlreadyCompleted,
                FailRefund, FailOrder, Abandon, calendar, orders
  <1>6. ASSUME NEW p \in Operators, PanelStep(p)
        PROVE  UNCHANGED <<day, offered, allocation>>
    BY <1>6 DEF PanelStep, OpenEdit, SaveEdit, calendar, orders
  <1>7. UNCHANGED vars => UNCHANGED <<day, offered, allocation>>
    BY DEF vars, calendar, orders
  <1> QED BY <1>1, <1>2, <1>3, <1>4, <1>5, <1>6, <1>7, SellCounts, ReleaseCounts
          DEF Next, HotelierStep, CustomerStep

\* For any calendar, stays, handlers and operators: between two edits of the
\* hotelier no room of any night is sold twice, lost or given back twice.
THEOREM RoomsBalance == Spec => []RoomsAddUp
  <1>1. CountInv => RoomsAddUp BY DEF CountInv, RoomsAddUp
  <1> QED BY <1>1, InitRooms, RoomsStep, InitRoomsAddUp, SoldOnceStep, CountStep, PTL DEF Spec
=============================================================================
