------------------------- MODULE Departures_proofs -------------------------
(***************************************************************************)
(* Proofs about Departures for any number of checkouts, parties of any     *)
(* size, and any number of sessions and writers.                           *)
(***************************************************************************)
EXTENDS Departures, FiniteSetTheorems, TLAPS

Form   == [patch : Patches, fresh : BOOLEAN]
Writes == [order : Checkouts, to : OrderStates]

LEMMA NoFormIsNoForm == NoForm \notin Form
  <1>1. ASSUME NoForm \in Form PROVE FALSE
    <2>1. "fresh" \in DOMAIN NoForm BY <1>1 DEF Form
    <2> QED BY <2>1 DEF NoForm
  <1> QED BY <1>1

LEMMA NoWriteIsNoWrite == NoWrite \notin Writes
  <1>1. ASSUME NoWrite \in Writes PROVE FALSE
    <2>1. "to" \in DOMAIN NoWrite BY <1>1 DEF Writes
    <2> QED BY <2>1 DEF NoWrite
  <1> QED BY <1>1

\* A patch writes fields of the right types.
LEMMA GivenType ==
    ASSUME NEW p \in Patches, total \in Capacities, held \in 0 .. total, status \in SaleStates
    PROVE  /\ Given(p.total, total) \in Capacities
           /\ Given(p.held, held) \in Capacities
           /\ Given(p.status, status) \in SaleStates
  <1>1. p \in Patch BY DeparturesAssumption
  <1>2. held \in Capacities BY DeparturesAssumption DEF Capacities
  <1> QED BY <1>1, <1>2 DEF Given, Patch

\* A session whose look is outdated still holds its patch.
LEMMA OutdatedType ==
    ASSUME form \in [Staff -> {NoForm} \cup Form]
    PROVE  /\ Outdated \in [Staff -> {NoForm} \cup Form]
           /\ \A s \in Staff : /\ Outdated[s] = NoForm <=> form[s] = NoForm
                               /\ Outdated[s] # NoForm => ~ Outdated[s].fresh
  <1>1. ASSUME NEW s \in Staff, form[s] # NoForm
        PROVE  /\ Outdated[s] \in Form /\ ~ Outdated[s].fresh
    <2>1. form[s] \in Form BY <1>1
    <2>2. Outdated[s] = [form[s] EXCEPT !.fresh = FALSE] BY <1>1 DEF Outdated
    <2> QED BY <2>1, <2>2 DEF Form
  <1>2. ASSUME NEW s \in Staff, form[s] = NoForm PROVE Outdated[s] = NoForm
    BY <1>2 DEF Outdated
  <1>3. Outdated = [s \in Staff |-> Outdated[s]] BY DEF Outdated
  <1> QED BY <1>1, <1>2, <1>3, NoFormIsNoForm

-----------------------------------------------------------------------------
(* Types *)

\* What must be known of an order besides its types: what is not sold is not
\* booked, and only a booked order is refunded or rewritten.
OrdersOK ==
    /\ \A c \in Checkouts :
          checkout[c] # "completed" => payment[c] = "none" /\ booking[c] = "none"
    /\ \A c \in Checkouts : refund[c] # "none" => booking[c] # "none"
    /\ \A w \in Writers : writer[w] # NoWrite => booking[writer[w].order] # "none"

LEMMA InitType == Init => TypeOK /\ OrdersOK
  BY DEF Init, TypeOK, OrdersOK, SaleStates

\* SetBooking writes a status and may outdate the looks of the staff.
LEMMA SetBookingType ==
    ASSUME TypeOK, NEW c \in Checkouts, NEW s \in OrderStates, SetBooking(c, s)
    PROVE  /\ booking' \in [Checkouts -> {"none"} \cup OrderStates]
           /\ booking'[c] = s /\ \A d \in Checkouts \ {c} : booking'[d] = booking[d]
           /\ form' \in [Staff -> {NoForm} \cup Form]
           /\ form' = form \/ form' = Outdated
  BY OutdatedType DEF SetBooking, TypeOK, Form

LEMMA SomeStates ==
    /\ {"confirmed", "refunded", "compensation_pending", "manual_review_required",
        "reservation_failed"} \subseteq OrderStates \ {"none"}
    /\ {"processing", "completed", "failed"} \subseteq RefundStates \ {"none"}
    /\ "none" \notin OrderStates
  BY DEF OrderStates, RefundStates

LEMMA TypeStep == TypeOK /\ OrdersOK /\ [Next]_vars => TypeOK' /\ OrdersOK'
  <1> SUFFICES ASSUME TypeOK, OrdersOK, [Next]_vars PROVE TypeOK' /\ OrdersOK'
    OBVIOUS
  <1> USE DEF departure, orders
  <1>1. ASSUME NEW c \in Checkouts, CreateCheckout(c) \/ Lapse(c) PROVE TypeOK' /\ OrdersOK'
    BY <1>1 DEF CreateCheckout, Lapse, TypeOK, OrdersOK
  <1>2. ASSUME NEW c \in Checkouts, Sell(c) PROVE TypeOK' /\ OrdersOK'
    <2>1. form' \in [Staff -> {NoForm} \cup Form]
      BY <1>2, OutdatedType DEF Sell, TypeOK, Form
    <2>2. UNCHANGED <<departure, refund, writer>>
      BY <1>2 DEF Sell
    <2>3. /\ checkout' \in [Checkouts -> {"none", "open", "expired", "completed"}]
          /\ payment' \in [Checkouts -> {"none", "paid", "refunded"}]
          /\ booking' \in [Checkouts -> {"none"} \cup OrderStates]
      BY <1>2, SomeStates DEF Sell, TypeOK
    <2>4. OrdersOK'
      BY <1>2, SomeStates DEF Sell, TypeOK, OrdersOK
    <2> QED BY <2>1, <2>2, <2>3, <2>4 DEF TypeOK, Form
  <1>3. ASSUME NEW s \in Staff, NEW p \in Patches, OpenForm(s, p) PROVE TypeOK' /\ OrdersOK'
    <2>1. [patch |-> p, fresh |-> TRUE] \in Form BY DEF Form
    <2> QED BY <1>3, <2>1 DEF OpenForm, TypeOK, OrdersOK, Form
  <1>4. ASSUME NEW s \in Staff, SaveForm(s) PROVE TypeOK' /\ OrdersOK'
    <2>1. form[s] \in Form /\ form[s].patch \in Patches
      BY <1>4 DEF SaveForm, TypeOK, Form
    <2>2. /\ total' = Given(form[s].patch.total, total)
          /\ held' = Given(form[s].patch.held, held)
          /\ status' = Given(form[s].patch.status, status)
          /\ CapacityCheck(total', held')
          /\ form' = [Outdated EXCEPT ![s] = NoForm]
          /\ UNCHANGED <<limit, onSale, orders, writer>>
      BY <1>4 DEF SaveForm
    <2>3. /\ total' \in Capacities /\ held' \in Capacities /\ status' \in SaleStates
      BY <2>1, <2>2, GivenType DEF TypeOK
    <2>4. held' \in 0 .. total'
      BY <2>2, <2>3, DeparturesAssumption DEF CapacityCheck, Capacities
    <2>5. form' \in [Staff -> {NoForm} \cup Form]
      BY <2>2, OutdatedType DEF TypeOK, Form
    <2> QED BY <2>2, <2>3, <2>4, <2>5 DEF TypeOK, OrdersOK, Form
  <1>5. ASSUME NEW s \in Staff, DropForm(s) PROVE TypeOK' /\ OrdersOK'
    BY <1>5 DEF DropForm, TypeOK, OrdersOK
  <1>6. ASSUME NEW w \in Writers, NEW c \in Checkouts, NEW s \in OrderStates, OpenWrite(w, c, s)
        PROVE  TypeOK' /\ OrdersOK'
    <2>1. Write(c, s) \in Writes /\ Write(c, s).order = c BY DEF Write, Writes
    <2> QED BY <1>6, <2>1 DEF OpenWrite, TypeOK, OrdersOK, Writes
  <1>7. ASSUME NEW w \in Writers, SaveWrite(w) PROVE TypeOK' /\ OrdersOK'
    <2>1. writer[w] \in Writes /\ writer[w].order \in Checkouts /\ writer[w].to \in OrderStates
      BY <1>7 DEF SaveWrite, TypeOK, Writes
    <2>2. /\ SetBooking(writer[w].order, writer[w].to)
          /\ writer' = [writer EXCEPT ![w] = NoWrite]
          /\ UNCHANGED <<departure, checkout, payment, refund>>
      BY <1>7 DEF SaveWrite
    <2>3. /\ booking' \in [Checkouts -> {"none"} \cup OrderStates]
          /\ booking'[writer[w].order] # "none"
          /\ \A d \in Checkouts \ {writer[w].order} : booking'[d] = booking[d]
          /\ form' \in [Staff -> {NoForm} \cup Form]
      BY <2>1, <2>2, SetBookingType, SomeStates
    <2>4. booking[writer[w].order] # "none"
      BY <1>7 DEF SaveWrite, OrdersOK
    <2>5. \A d \in Checkouts : booking'[d] = "none" <=> booking[d] = "none"
      BY <2>3, <2>4
    <2>6. OrdersOK'
      BY <2>2, <2>5 DEF TypeOK, OrdersOK, Writes
    <2> QED BY <2>2, <2>3, <2>6 DEF TypeOK, Form
  <1>8. ASSUME NEW c \in Checkouts, BeginCompensation(c) PROVE TypeOK' /\ OrdersOK'
    <2>1. /\ refund' = [refund EXCEPT ![c] = "processing"]
          /\ SetBooking(c, "compensation_pending")
          /\ UNCHANGED <<departure, checkout, payment, writer>>
      BY <1>8 DEF BeginCompensation
    <2>2. /\ booking' \in [Checkouts -> {"none"} \cup OrderStates]
          /\ booking'[c] # "none"
          /\ \A d \in Checkouts \ {c} : booking'[d] = booking[d]
          /\ form' \in [Staff -> {NoForm} \cup Form]
      BY <2>1, SetBookingType, SomeStates
    <2>3. \A d \in Checkouts : booking'[d] = "none" <=> booking[d] = "none"
      BY <1>8, <2>2 DEF BeginCompensation
    <2>4. OrdersOK'
      BY <2>1, <2>2, <2>3 DEF TypeOK, OrdersOK
    <2> QED BY <2>1, <2>2, <2>4, SomeStates DEF TypeOK, Form
  <1>9. ASSUME NEW c \in Checkouts, CompleteCompensation(c) PROVE TypeOK' /\ OrdersOK'
    BY <1>9, SomeStates DEF CompleteCompensation, TypeOK, OrdersOK
  <1>10. ASSUME NEW w \in Writers, NEW c \in Checkouts, FailCompensation(w, c)
         PROVE  TypeOK' /\ OrdersOK'
    <2>1. /\ Write(c, "manual_review_required") \in Writes
          /\ Write(c, "manual_review_required").order = c
      BY SomeStates DEF Write, Writes
    <2> QED BY <1>10, <2>1, SomeStates DEF FailCompensation, TypeOK, OrdersOK, Writes
  <1>11. CASE UpdatePackage
    BY <1>11 DEF UpdatePackage, TypeOK, OrdersOK
  <1>12. CASE UNCHANGED vars
    BY <1>12 DEF vars, TypeOK, OrdersOK
  <1> QED BY <1>1, <1>2, <1>3, <1>4, <1>5, <1>6, <1>7, <1>8, <1>9, <1>10, <1>11, <1>12
          DEF Next, CustomerStep, CompensationStep, StaffStep, WriterStep

\* The departure, its orders, edits and writes have their types.
THEOREM TypeCorrect == Spec => []TypeOK
  BY InitType, TypeStep, PTL DEF Spec

-----------------------------------------------------------------------------
(* How many places are taken *)

LEMMA PartySeats ==
    ASSUME NEW c \in Checkouts
    PROVE  /\ Party[c] \in Nat /\ Seats(c) \in Nat /\ Party[c] >= 1 /\ Seats(c) >= 1
           /\ c \in Listed => Seats(c) = Party[c]
  BY DeparturesAssumption DEF Seats

\* The group of a checkout, for any numbering of its travellers.
LEMMA Group ==
    ASSUME NEW c, NEW n \in Nat
    PROVE  IsFiniteSet({c} \X (1 .. n)) /\ Cardinality({c} \X (1 .. n)) = n
  <1>1. IsFiniteSet({c}) /\ Cardinality({c}) = 1
    BY FS_Singleton
  <1>2. IsFiniteSet(1 .. n) /\ Cardinality(1 .. n) = n
    BY FS_Interval
  <1> DEFINE A == {c}
             B == 1 .. n
  <1> HIDE DEF A, B
  <1>3. IsFiniteSet(A \X B) /\ Cardinality(A \X B) = Cardinality(A) * Cardinality(B)
    BY <1>1, <1>2, FS_Product DEF A, B
  <1>4. Cardinality(A) = 1 /\ Cardinality(B) = n
    BY <1>1, <1>2 DEF A, B
  <1>5. Cardinality(A \X B) = n
    BY <1>3, <1>4
  <1> QED BY <1>3, <1>5 DEF A, B

\* The travellers and the places of a set of orders are finite in number.
LEMMA CountFinite ==
    ASSUME NEW S \in SUBSET Checkouts
    PROVE  /\ IsFiniteSet(People(S)) /\ Cardinality(People(S)) \in Nat
           /\ IsFiniteSet(Places(S)) /\ Cardinality(Places(S)) \in Nat
  <1>1. IsFiniteSet(S) BY DeparturesAssumption, FS_Subset
  <1>2. IsFiniteSet(People(S))
    <2> DEFINE T == {{c} \X (1 .. Party[c]) : c \in S}
               f == [c \in S |-> {c} \X (1 .. Party[c])]
    <2>1. f \in Surjection(S, T) BY DEF Surjection
    <2>2. IsFiniteSet(T)
      <3> HIDE DEF T, f
      <3> QED BY <1>1, <2>1, FS_Surjection
    <2>3. ASSUME NEW g \in T PROVE IsFiniteSet(g)
      <3>1. PICK c \in S : g = {c} \X (1 .. Party[c]) OBVIOUS
      <3>2. Party[c] \in Nat BY PartySeats
      <3> QED BY <3>1, <3>2, Group
    <2>4. People(S) = UNION T BY DEF People
    <2> QED
      <3> HIDE DEF T
      <3> QED BY <2>2, <2>3, <2>4, FS_UNION
  <1>3. IsFiniteSet(Places(S))
    <2> DEFINE T == {{c} \X (1 .. Seats(c)) : c \in S}
               f == [c \in S |-> {c} \X (1 .. Seats(c))]
    <2>1. f \in Surjection(S, T) BY DEF Surjection
    <2>2. IsFiniteSet(T)
      <3> HIDE DEF T, f
      <3> QED BY <1>1, <2>1, FS_Surjection
    <2>3. ASSUME NEW g \in T PROVE IsFiniteSet(g)
      <3>1. PICK c \in S : g = {c} \X (1 .. Seats(c)) OBVIOUS
      <3>2. Seats(c) \in Nat BY PartySeats
      <3> QED BY <3>1, <3>2, Group
    <2>4. Places(S) = UNION T BY DEF Places
    <2> QED
      <3> HIDE DEF T
      <3> QED BY <2>2, <2>3, <2>4, FS_UNION
  <1> QED BY <1>2, <1>3, FS_CardinalityType

\* Fewer orders take no more places and carry no more travellers.
LEMMA CountMonotone ==
    ASSUME NEW S \in SUBSET Checkouts, NEW R \in SUBSET S
    PROVE  /\ Cardinality(People(R)) <= Cardinality(People(S))
           /\ Cardinality(Places(R)) <= Cardinality(Places(S))
  <1>1. People(R) \subseteq People(S) /\ Places(R) \subseteq Places(S)
    BY DEF People, Places
  <1> QED BY <1>1, CountFinite, FS_Subset

\* Orders that name their travellers carry as many as they take places.
LEMMA ListedCount ==
    ASSUME NEW S \in SUBSET Checkouts, S \subseteq Listed
    PROVE  People(S) = Places(S)
  <1>1. \A c \in S : Seats(c) = Party[c] BY PartySeats
  <1> QED BY <1>1 DEF People, Places

\* One more order takes its own places at most.
LEMMA CountOneMore ==
    ASSUME NEW S \in SUBSET Checkouts, NEW c \in Checkouts
    PROVE  Cardinality(Places(S \cup {c})) <= Cardinality(Places(S)) + Seats(c)
  <1> DEFINE G == {c} \X (1 .. Seats(c))
  <1>1. Places(S \cup {c}) = Places(S) \cup G BY DEF Places
  <1>2. IsFiniteSet(G) /\ Cardinality(G) = Seats(c) BY PartySeats, Group
  <1>3. Seats(c) \in Nat BY PartySeats
  <1> HIDE DEF G
  <1>4. IsFiniteSet(Places(S)) /\ Cardinality(Places(S)) \in Nat BY CountFinite
  <1>5. IsFiniteSet(Places(S) \cap G) /\ Cardinality(Places(S) \cap G) \in Nat
    BY <1>2, FS_Subset, FS_CardinalityType
  <1>6. Cardinality(Places(S) \cup G) =
          Cardinality(Places(S)) + Cardinality(G) - Cardinality(Places(S) \cap G)
    BY <1>2, <1>4, FS_Union
  <1>7. Cardinality(Places(S \cup {c})) =
          Cardinality(Places(S)) + Seats(c) - Cardinality(Places(S) \cap G)
    BY <1>1, <1>2, <1>6
  <1> QED BY <1>3, <1>4, <1>5, <1>7

-----------------------------------------------------------------------------
(* What a session has checked *)

\* Patch p leaves room for b places taken and reopens nothing, on a departure of
\* capacity t, hold h and sale status st.
Fits(p, t, h, st, b) ==
    /\ Given(p.total, t) >= b + Least(Given(p.held, h), Given(p.total, t))
    /\ ~ (st = "CANCELLED" /\ p.status \notin {Keep, "CANCELLED"})

LEMMA CheckIsFits ==
    ASSUME NEW p PROVE CapacityKept(p) /\ ~ Reopens(p) <=> Fits(p, total, held, status, Booked)
  BY DEF CapacityKept, Reopens, Fits

\* A patch that fits still does when fewer places are taken.
LEMMA FitsFewer ==
    ASSUME NEW p \in Patches, NEW t \in Capacities, NEW h \in Capacities, NEW st,
           NEW b \in Nat, NEW a \in Nat, a <= b, Fits(p, t, h, st, b)
    PROVE  Fits(p, t, h, st, a)
  <1>1. Given(p.total, t) \in Nat /\ Given(p.held, h) \in Nat
    BY DeparturesAssumption DEF Given, Patch, Capacities
  <1> QED BY <1>1 DEF Fits, Least

\* Why CancelledStays and NeverOversold hold: what a session has checked about its
\* patch is still so until another step overtakes it.
CheckedInv ==
    \A s \in Staff : form[s] # NoForm /\ form[s].fresh =>
        Fits(form[s].patch, total, held, status, Booked)

LEMMA TakingType ==
    /\ Taking \in SUBSET Checkouts /\ Taking' \in SUBSET Checkouts
    /\ Booked \in Nat /\ Booked' \in Nat
  <1>1. Taking \in SUBSET Checkouts /\ Taking' \in SUBSET Checkouts
    BY DEF Taking
  <1> QED BY <1>1, CountFinite DEF Booked

\* A step that leaves the departure alone and takes no further place, or that
\* outdates every look, keeps it.
LEMMA KeepsChecked ==
    ASSUME TypeOK, CheckedInv, UNCHANGED <<total, held, status>>, Taking' \subseteq Taking,
           \A s \in Staff : form'[s] # NoForm /\ form'[s].fresh => form'[s] = form[s]
    PROVE  CheckedInv'
  <1>1. Booked' <= Booked
    BY TakingType, CountMonotone DEF Booked
  <1>2. ASSUME NEW s \in Staff, form'[s] # NoForm, form'[s].fresh
        PROVE  Fits(form'[s].patch, total', held', status', Booked')
    <2>1. form'[s] = form[s] /\ form[s] # NoForm /\ form[s].fresh
      BY <1>2
    <2>2. form[s].patch \in Patches
      BY <2>1 DEF TypeOK
    <2>3. Fits(form[s].patch, total, held, status, Booked)
      BY <2>1 DEF CheckedInv
    <2>4. total \in Capacities /\ held \in Capacities
      BY DeparturesAssumption DEF TypeOK, Capacities
    <2>5. Fits(form[s].patch, total, held, status, Booked')
      BY <1>1, <2>2, <2>3, <2>4, TakingType, FitsFewer
    <2> QED BY <2>1, <2>5
  <1> QED BY <1>2 DEF CheckedInv

\* A step that outdates every look but one it drops keeps it.
LEMMA OutdatesChecked ==
    ASSUME TypeOK, \A s \in Staff : form'[s] = NoForm \/ form'[s] = Outdated[s]
    PROVE  CheckedInv'
  <1>1. \A s \in Staff : form'[s] # NoForm => ~ form'[s].fresh
    BY OutdatedType DEF TypeOK, Form
  <1> QED BY <1>1 DEF CheckedInv

\* SetBooking takes a place only by outdating every look.
LEMMA SetBookingChecked ==
    ASSUME TypeOK, CheckedInv, UNCHANGED <<total, held, status, payment>>,
           NEW c \in Checkouts, NEW s \in OrderStates, SetBooking(c, s)
    PROVE  CheckedInv'
  <1>1. CASE ~Takes(payment[c], booking[c]) /\ Takes(payment[c], s)
    BY <1>1, OutdatesChecked DEF SetBooking
  <1>2. CASE Takes(payment[c], booking[c]) \/ ~Takes(payment[c], s)
    <2>1. form' = form BY <1>2 DEF SetBooking
    <2>2. Taking' \subseteq Taking BY <1>2, SetBookingType DEF Taking
    <2> QED BY <2>1, <2>2, KeepsChecked
  <1> QED BY <1>1, <1>2

LEMMA CheckedStep ==
    TypeOK /\ OrdersOK /\ CheckedInv /\ [Next]_vars => CheckedInv'
  <1> SUFFICES ASSUME TypeOK, OrdersOK, CheckedInv, [Next]_vars PROVE CheckedInv'
    OBVIOUS
  <1> USE DEF departure, orders
  <1>1. ASSUME NEW c \in Checkouts, CreateCheckout(c) \/ Lapse(c) PROVE CheckedInv'
    <2>1. Taking' = Taking BY <1>1 DEF CreateCheckout, Lapse, Taking
    <2> QED BY <1>1, <2>1, KeepsChecked DEF CreateCheckout, Lapse
  <1>2. ASSUME NEW c \in Checkouts, Sell(c) PROVE CheckedInv'
    BY <1>2, OutdatesChecked DEF Sell
  <1>3. ASSUME NEW s \in Staff, NEW p \in Patches, OpenForm(s, p) PROVE CheckedInv'
    <2>1. /\ form' = [form EXCEPT ![s] = [patch |-> p, fresh |-> TRUE]]
          /\ UNCHANGED <<total, held, status, payment, booking>>
      BY <1>3 DEF OpenForm
    <2>2. Booked' = Booked BY <2>1 DEF Booked, Taking
    <2>3. Fits(p, total, held, status, Booked)
      BY <1>3, CheckIsFits DEF OpenForm
    <2>4. form'[s] = [patch |-> p, fresh |-> TRUE] /\ \A z \in Staff \ {s} : form'[z] = form[z]
      BY <2>1 DEF TypeOK
    <2>5. ASSUME NEW z \in Staff, form'[z] # NoForm, form'[z].fresh
          PROVE  Fits(form'[z].patch, total', held', status', Booked')
      <3>1. CASE z = s BY <3>1, <2>1, <2>2, <2>3, <2>4
      <3>2. CASE z # s BY <3>2, <2>1, <2>2, <2>4, <2>5 DEF CheckedInv
      <3> QED BY <3>1, <3>2
    <2> QED BY <2>5 DEF CheckedInv
  <1>4. ASSUME NEW s \in Staff, SaveForm(s) PROVE CheckedInv'
    <2>1. form' = [Outdated EXCEPT ![s] = NoForm] BY <1>4 DEF SaveForm
    <2>2. \A z \in Staff : form'[z] = NoForm \/ form'[z] = Outdated[z]
      BY <2>1, OutdatedType DEF TypeOK, Form
    <2> QED BY <2>2, OutdatesChecked
  <1>5. ASSUME NEW s \in Staff, DropForm(s) PROVE CheckedInv'
    <2>1. Taking' = Taking BY <1>5 DEF DropForm, Taking
    <2>2. \A z \in Staff : form'[z] = NoForm \/ form'[z] = form[z]
      BY <1>5 DEF DropForm, TypeOK
    <2> QED BY <1>5, <2>1, <2>2, KeepsChecked DEF DropForm
  <1>6. ASSUME NEW w \in Writers, SaveWrite(w) PROVE CheckedInv'
    <2>1. writer[w].order \in Checkouts /\ writer[w].to \in OrderStates
      BY <1>6 DEF SaveWrite, TypeOK
    <2> QED BY <1>6, <2>1, SetBookingChecked DEF SaveWrite
  <1>7. ASSUME NEW c \in Checkouts, BeginCompensation(c) PROVE CheckedInv'
    BY <1>7, SomeStates, SetBookingChecked DEF BeginCompensation
  <1>8. ASSUME NEW c \in Checkouts, CompleteCompensation(c) PROVE CheckedInv'
    <2>1. /\ payment' = [payment EXCEPT ![c] = "refunded"]
          /\ booking' = [booking EXCEPT ![c] = "refunded"]
          /\ UNCHANGED <<departure, form>>
      BY <1>8 DEF CompleteCompensation
    <2>2. Taking' \subseteq Taking BY <2>1 DEF Taking, Takes, TypeOK
    <2> QED BY <2>1, <2>2, KeepsChecked
  <1>9. ASSUME UNCHANGED <<total, held, status, payment, booking, form>> PROVE CheckedInv'
    <2>1. Taking' = Taking BY <1>9 DEF Taking
    <2> QED BY <1>9, <2>1, KeepsChecked
  <1>10. ASSUME NEW w \in Writers, NEW c \in Checkouts, FailCompensation(w, c) PROVE CheckedInv'
    BY <1>10, <1>9 DEF FailCompensation
  <1>11. ASSUME NEW w \in Writers, NEW c \in Checkouts, NEW s \in OrderStates, OpenWrite(w, c, s)
         PROVE  CheckedInv'
    BY <1>11, <1>9 DEF OpenWrite
  <1>12. CASE UpdatePackage
    BY <1>12, <1>9 DEF UpdatePackage
  <1>13. CASE UNCHANGED vars
    BY <1>13, <1>9 DEF vars
  <1> QED BY <1>1, <1>2, <1>3, <1>4, <1>5, <1>6, <1>7, <1>8, <1>10, <1>11, <1>12, <1>13
          DEF Next, CustomerStep, CompensationStep, StaffStep, WriterStep

IInv == TypeOK /\ OrdersOK /\ CheckedInv

LEMMA InitIInv == Init => IInv
  <1> SUFFICES ASSUME Init PROVE CheckedInv
    BY InitType DEF IInv
  <1> QED BY DEF Init, CheckedInv

LEMMA IInvStep == IInv /\ [Next]_vars => IInv'
  BY TypeStep, CheckedStep DEF IInv

-----------------------------------------------------------------------------
(* A cancelled departure *)

\* Only a step of its session writes a patch, and what was not overtaken fits.
LEMMA SavedFits ==
    ASSUME IInv, NEW s \in Staff, SaveForm(s), ~ Overtaken(s)
    PROVE  /\ form[s].patch \in Patches
           /\ Fits(form[s].patch, total, held, status, Booked)
  <1>1. form[s] # NoForm BY DEF SaveForm
  <1>2. form[s].patch \in Patches BY <1>1 DEF IInv, TypeOK
  <1>3. form'[s] = NoForm BY OutdatedType DEF SaveForm, IInv, TypeOK, Form
  <1>4. form[s].fresh BY <1>1, <1>3 DEF Overtaken, IInv, TypeOK
  <1> QED BY <1>1, <1>2, <1>4 DEF IInv, CheckedInv

LEMMA CancelledStep ==
    IInv /\ [Next]_vars =>
        (status = "CANCELLED" /\ status' # "CANCELLED" => \E s \in Staff : Overtaken(s))
  <1> SUFFICES ASSUME IInv, [Next]_vars, status = "CANCELLED", \A s \in Staff : ~ Overtaken(s)
               PROVE  status' = "CANCELLED"
    OBVIOUS
  <1>1. ASSUME NEW s \in Staff, SaveForm(s) PROVE status' = "CANCELLED"
    <2>1. Fits(form[s].patch, total, held, status, Booked) BY <1>1, SavedFits
    <2> QED BY <1>1, <2>1 DEF SaveForm, Fits, Given
  <1>2. ASSUME UNCHANGED status PROVE status' = "CANCELLED"
    BY <1>2
  <1> QED BY <1>1, <1>2 DEF Next, CustomerStep, CompensationStep, StaffStep, WriterStep,
          CreateCheckout, Lapse, Sell, OpenForm, DropForm, OpenWrite, SaveWrite, FailCompensation,
          BeginCompensation, CompleteCompensation, UpdatePackage, departure, vars

\* A cancelled departure is reopened only by an edit checked before the
\* cancellation and written after it.
THEOREM CancellationHolds == Spec => CancelledStays
  BY InitIInv, IInvStep, CancelledStep, PTL DEF Spec, CancelledStays

-----------------------------------------------------------------------------
(* Overbooking *)

LEMMA ExcessType ==
    ASSUME TypeOK, TypeOK'
    PROVE  /\ total \in Nat /\ held \in Nat /\ total' \in Nat /\ held' \in Nat
           /\ Cardinality(People(Taking)) \in Nat /\ Cardinality(People(Taking')) \in Nat
  BY TakingType, CountFinite, DeparturesAssumption DEF TypeOK, Capacities

\* A departure that carries no further order is no fuller than before.
LEMMA FewerIsNoMore ==
    ASSUME TypeOK, TypeOK', UNCHANGED <<total, held>>, Taking' \subseteq Taking
    PROVE  Excess' <= Excess
  <1>1. Cardinality(People(Taking')) <= Cardinality(People(Taking))
    BY TakingType, CountMonotone
  <1> QED BY <1>1, ExcessType DEF Excess

\* An order that is written by id takes no place it did not take, or is brought back.
LEMMA BroughtBack ==
    ASSUME TypeOK, NEW c \in Checkouts, booking[c] # "none", UNCHANGED payment,
           NEW s \in OrderStates, SetBooking(c, s), ~ Returned(c)
    PROVE  Taking' \subseteq Taking
  <1>1. \A d \in Checkouts \ {c} : booking'[d] = booking[d]
    BY SetBookingType
  <1>2. Taking' \subseteq Taking \cup {c}
    BY <1>1 DEF Taking
  <1> QED BY <1>2 DEF Returned

LEMMA OversoldStep ==
    IInv /\ [Next]_vars =>
        (Excess' > 0 /\ Excess' > Excess
            => \/ \E s \in Staff : Overtaken(s)
               \/ \E c \in Checkouts : Returned(c)
               \/ Taking' \ Listed # {})
  <1> SUFFICES ASSUME IInv, [Next]_vars
               PROVE  Excess' > 0 /\ Excess' > Excess
                          => \/ \E s \in Staff : Overtaken(s)
                             \/ \E c \in Checkouts : Returned(c)
                             \/ Taking' \ Listed # {}
    OBVIOUS
  <1>1. TypeOK /\ TypeOK' /\ OrdersOK
    BY IInvStep DEF IInv
  <1>2. Excess \in Int /\ Excess' \in Int
    BY <1>1, ExcessType DEF Excess
  <1> SUFFICES ASSUME \A s \in Staff : ~ Overtaken(s),
                      \A c \in Checkouts : ~ Returned(c), Taking' \subseteq Listed
               PROVE  Excess' <= 0 \/ Excess' <= Excess
    BY <1>2
  <1> USE DEF departure, orders
  <1>3. ASSUME NEW c \in Checkouts, Sell(c) PROVE Excess' <= 0
    <2>1. UNCHANGED <<total, held>> /\ Seats(c) <= Remaining
      BY <1>3 DEF Sell, Room
    <2>2. Taking' = Taking \cup {c}
      BY <1>1, <1>3 DEF Sell, Taking, Takes, Seated, TypeOK
    <2>3. Cardinality(Places(Taking')) <= Booked + Seats(c)
      BY <2>2, TakingType, CountOneMore DEF Booked
    <2>4. People(Taking') = Places(Taking')
      BY TakingType, ListedCount
    <2>5. Seats(c) \in Nat /\ Seats(c) >= 1
      BY PartySeats
    <2>6. Booked + Seats(c) <= total - held
      BY <1>1, <2>1, <2>5, TakingType, ExcessType DEF Remaining, Most
    <2> QED BY <1>1, <2>1, <2>3, <2>4, <2>5, <2>6, TakingType, ExcessType DEF Excess
  <1>4. ASSUME NEW s \in Staff, SaveForm(s) PROVE Excess' <= 0
    <2>1. /\ total' = Given(form[s].patch.total, total)
          /\ held' = Given(form[s].patch.held, held)
          /\ held' <= total'
          /\ UNCHANGED <<payment, booking>>
      BY <1>4 DEF SaveForm, CapacityCheck
    <2>2. Fits(form[s].patch, total, held, status, Booked)
      BY <1>4, SavedFits
    <2>3. Taking' = Taking
      BY <2>1 DEF Taking
    <2>4. Cardinality(People(Taking')) = Booked
      BY <2>3, TakingType, ListedCount DEF Booked
    <2>5. total' >= Booked + held'
      BY <1>1, <2>1, <2>2, ExcessType, TakingType DEF Fits, Least
    <2> QED BY <1>1, <2>4, <2>5, ExcessType, TakingType DEF Excess
  <1>5. ASSUME NEW w \in Writers, SaveWrite(w) PROVE Excess' <= Excess
    <2>1. /\ writer[w].order \in Checkouts /\ writer[w].to \in OrderStates
          /\ booking[writer[w].order] # "none"
      BY <1>1, <1>5 DEF SaveWrite, TypeOK, OrdersOK
    <2>2. Taking' \subseteq Taking
      BY <1>1, <1>5, <2>1, BroughtBack DEF SaveWrite
    <2> QED BY <1>1, <1>5, <2>2, FewerIsNoMore DEF SaveWrite
  <1>6. ASSUME NEW c \in Checkouts, BeginCompensation(c) PROVE Excess' <= Excess
    <2>1. Taking' \subseteq Taking
      BY <1>1, <1>6, SomeStates, BroughtBack DEF BeginCompensation
    <2> QED BY <1>1, <1>6, <2>1, FewerIsNoMore DEF BeginCompensation
  <1>7. ASSUME NEW c \in Checkouts, CompleteCompensation(c) PROVE Excess' <= Excess
    <2>1. /\ payment' = [payment EXCEPT ![c] = "refunded"]
          /\ booking' = [booking EXCEPT ![c] = "refunded"]
          /\ UNCHANGED departure
      BY <1>7 DEF CompleteCompensation
    <2>2. Taking' \subseteq Taking
      BY <1>1, <2>1 DEF Taking, Takes, TypeOK
    <2> QED BY <1>1, <2>1, <2>2, FewerIsNoMore
  <1>8. ASSUME UNCHANGED <<total, held, payment, booking>> PROVE Excess' <= Excess
    <2>1. Taking' = Taking BY <1>8 DEF Taking
    <2> QED BY <1>1, <1>8, <2>1, FewerIsNoMore
  <1>9. ASSUME NEW c \in Checkouts, CreateCheckout(c) \/ Lapse(c) PROVE Excess' <= Excess
    BY <1>9, <1>8 DEF CreateCheckout, Lapse
  <1>10. ASSUME NEW s \in Staff, DropForm(s) \/ \E p \in Patches : OpenForm(s, p)
        PROVE  Excess' <= Excess
    BY <1>10, <1>8 DEF DropForm, OpenForm
  <1>11. ASSUME NEW w \in Writers, NEW c \in Checkouts,
                FailCompensation(w, c) \/ \E s \in OrderStates : OpenWrite(w, c, s)
         PROVE  Excess' <= Excess
    BY <1>11, <1>8 DEF FailCompensation, OpenWrite
  <1>12. CASE UpdatePackage
    BY <1>12, <1>8 DEF UpdatePackage
  <1>13. CASE UNCHANGED vars
    BY <1>13, <1>8 DEF vars
  <1> QED BY <1>3, <1>4, <1>5, <1>6, <1>7, <1>9, <1>10, <1>11, <1>12, <1>13
          DEF Next, CustomerStep, CompensationStep, StaffStep, WriterStep

\* A departure comes to be overbooked, or still more overbooked, only by an edit
\* that was overtaken, an order brought back, or a group that named nobody.
THEOREM SalesFit == Spec => NeverOversold
  BY InitIInv, IInvStep, OversoldStep, PTL DEF Spec, NeverOversold
=============================================================================
