--------------------------- MODULE Payments_proofs ---------------------------
(***************************************************************************)
(* Proofs about Payments for any number of checkouts, keys, requests and   *)
(* reconciliation runs.                                                    *)
(***************************************************************************)
EXTENDS Payments, FiniteSetTheorems, TLAPS

IntentRows  == [status : IntentStates, method : Methods, amount : Nat]
GatewayRows == [status : Results \cup {"pending"}, amount : Nat]
PaidRows    == [status : {"paid"}, key : Keys, method : Methods, wallet : Nat, online : Nat]

USE DEF IntentRows, GatewayRows, PaidRows

\* TypeOK but for the order of updates and the batches, which no handler works on.
CoreOK ==
    /\ checkout \in [Checkouts -> CheckoutStates]
    /\ lapsed \subseteq Checkouts
    /\ intent \in [Refs -> {NoRow} \cup IntentRows]
    /\ callback \in [Refs -> {NoRow} \cup [status : Results]]
    /\ order \in [Checkouts -> {NoRow} \cup PaidRows]
    /\ balance \in Nat
    /\ gateway \in [Refs -> {NoRow} \cup GatewayRows]
    /\ settled \subseteq Refs
    /\ pc \in [Procs -> Labels]
    /\ job \in [Procs -> Tasks \cup {NoJob}]
    /\ \A w \in Procs : pc[w] \notin {"idle", "next"} => job[w] \in Tasks

\* A run only holds references of intents that were stored.
QueueOK ==
    /\ older \subseteq Refs \X Refs
    /\ batch \in [Procs -> SUBSET Refs]
    /\ \A w \in Procs : \A r \in batch[w] : intent[r] # NoRow

\* A process gives up its task: it is done, or a run goes on with its batch.
Leaves(w) == Move(w, "idle", NoJob) \/ Move(w, "next", NoJob)

\* Steps that only exist once the intent is stored.
AfterStore == {"callback", "verify", "record", "commit", "query", "update", "write"}

\* Why CoreOK is inductive: handlers never touch a row that is not there.
RowsPresent ==
    /\ \A r \in Refs : intent[r] # NoRow => gateway[r] # NoRow
    /\ \A w \in Procs :
          /\ pc[w] \in AfterStore => intent[job[w].ref] # NoRow
          /\ pc[w] = "store" => gateway[job[w].ref] # NoRow
          /\ pc[w] \in {"callback", "verify", "record", "commit"}
                => job[w].status \in Results

TypeInv == CoreOK /\ RowsPresent

\* A task is a tuple of parts: its reference is a stored key of a checkout.
LEMMA TaskParts ==
    ASSUME NEW t \in Tasks
    PROVE  /\ t.ref \in Refs /\ t.ref[1] \in Checkouts /\ t.ref[2] \in Keys
           /\ t.ref = <<t.ref[1], t.ref[2]>>
           /\ t.method \in Methods /\ t.amount \in Nat
           /\ t.status \in Results \cup {"pending"} /\ t.sync \in BOOLEAN
  BY DEF Tasks, Refs

LEMMA TaskMade ==
    ASSUME NEW r \in Refs, NEW m \in Methods, NEW b \in BOOLEAN,
           NEW s \in Results \cup {"pending"}
    PROVE  Task(r, m, s, b) \in Tasks
  BY DEF Task, Tasks

\* The wallet part never exceeds the price, and a payment that is affordable
\* never takes more than the wallet holds.
LEMMA SplitBounds ==
    ASSUME balance \in Nat, NEW c \in Checkouts, NEW m \in Methods
    PROVE  /\ WalletPart(c, m) \in 0 .. Total[c]
           /\ Total[c] - WalletPart(c, m) \in Nat
           /\ Affordable(c, m) => WalletPart(c, m) <= balance
           /\ m = "online" => WalletPart(c, m) = 0
           /\ m = "wallet" => WalletPart(c, m) = Total[c]
  <1>1. Total[c] \in Nat \ {0} BY PaymentsAssumption
  <1>2. m \in {"online", "wallet", "combined"} BY PaymentsAssumption
  <1> QED BY <1>1, <1>2 DEF WalletPart, Affordable

LEMMA Leaving ==
    ASSUME NEW w
    PROVE  /\ Finish(w) => Leaves(w)
           /\ Return(w) => Leaves(w)
  BY DEF Finish, Return, GotoWith, Leaves

LEMMA InitType == Init => TypeInv
  BY PaymentsAssumption
  DEF Init, TypeInv, CoreOK, RowsPresent, CheckoutStates, Labels, AfterStore,
      Procs, NoJob, NoRow

\* A process that moves to label l with task j keeps TypeInv, provided the rows
\* stay well typed, none disappears, and those that l relies on are there.
LEMMA MoveType ==
    ASSUME TypeInv, NEW w \in Procs, NEW l \in Labels, NEW j \in Tasks \cup {NoJob},
           Move(w, l, j), l \notin {"idle", "next"} => j \in Tasks,
           checkout' \in [Checkouts -> CheckoutStates],
           intent' \in [Refs -> {NoRow} \cup IntentRows],
           gateway' \in [Refs -> {NoRow} \cup GatewayRows],
           UNCHANGED <<lapsed, callback, order, balance, settled>>,
           \A r \in Refs : /\ intent[r] # NoRow => intent'[r] # NoRow
                           /\ gateway[r] # NoRow => gateway'[r] # NoRow
                           /\ intent'[r] # NoRow => gateway'[r] # NoRow,
           l \in AfterStore => intent'[j.ref] # NoRow,
           l = "store" => gateway'[j.ref] # NoRow,
           l \in {"callback", "verify", "record", "commit"} => j.status \in Results
    PROVE  TypeInv'
  <1> USE DEF TypeInv
  <1>1. CoreOK'
    BY DEF CoreOK, GotoWith, Goto, Move
  <1>2. \A v \in Procs : pc'[v] = (IF v = w THEN l ELSE pc[v])
                        /\ job'[v] = (IF v = w THEN j ELSE job[v])
    BY DEF CoreOK, GotoWith, Goto, Move
  <1>3. \A v \in Procs : pc[v] \notin {"idle", "next"} => job[v].ref \in Refs
    BY TaskParts DEF CoreOK
  <1>4. RowsPresent'
    BY <1>2, <1>3 DEF RowsPresent, AfterStore
  <1> QED BY <1>1, <1>4

\* The same for a process that leaves the rows alone.
LEMMA MoveOnly ==
    ASSUME TypeInv, NEW w \in Procs, NEW l \in Labels, NEW j \in Tasks \cup {NoJob},
           Move(w, l, j), l \notin {"idle", "next"} => j \in Tasks,
           UNCHANGED <<rows, gateway, settled>>,
           l \in AfterStore => intent[j.ref] # NoRow,
           l = "store" => gateway[j.ref] # NoRow,
           l \in {"callback", "verify", "record", "commit"} => j.status \in Results
    PROVE  TypeInv'
  <1>1. /\ checkout' \in [Checkouts -> CheckoutStates]
        /\ intent' \in [Refs -> {NoRow} \cup IntentRows]
        /\ gateway' \in [Refs -> {NoRow} \cup GatewayRows]
    BY DEF TypeInv, CoreOK, rows
  <1>2. /\ UNCHANGED <<lapsed, callback, order, balance, settled>>
        /\ intent' = intent /\ gateway' = gateway
    BY DEF rows
  <1>3. \A r \in Refs : intent[r] # NoRow => gateway[r] # NoRow
    BY DEF TypeInv, RowsPresent
  <1> QED BY <1>1, <1>2, <1>3, MoveType

LEMMA LeaveOnly ==
    ASSUME TypeInv, NEW w \in Procs, Leaves(w), UNCHANGED <<rows, gateway, settled>>
    PROVE  TypeInv'
  <1>1. {"idle", "next"} \subseteq Labels /\ {"idle", "next"} \cap AfterStore = {}
    BY DEF Labels, AfterStore
  <1> QED BY <1>1, MoveOnly DEF Leaves

\* Every action keeps TypeInv; SMT sees the action, the parts of the task it
\* works on and the shape of the rows.
LEMMA TypeStep == TypeInv /\ QueueOK /\ [Next]_vars => TypeInv'
  <1> SUFFICES ASSUME TypeInv, QueueOK, [Next]_vars PROVE TypeInv'
    OBVIOUS
  <1> USE DEF TypeInv, CoreOK, RowsPresent
  <1>t. \A w \in Procs : pc[w] \notin {"idle", "next"} =>
           /\ job[w] \in Tasks
           /\ job[w].ref \in Refs /\ job[w].ref[1] \in Checkouts
           /\ job[w].ref[2] \in Keys
           /\ job[w].method \in Methods /\ job[w].amount \in Nat
           /\ job[w].status \in Results \cup {"pending"}
           /\ job[w].sync \in BOOLEAN
    BY TaskParts
  <1>1. ASSUME NEW c \in Checkouts, Lapse(c) PROVE TypeInv'
    BY <1>1 DEF Lapse
  <1>2. ASSUME NEW w \in Workers, NEW c \in Checkouts, NEW k \in Keys,
               NEW m \in Methods, RequestIntent(w, c, k, m) \/ RequestPayment(w, c, k, m)
        PROVE TypeInv'
    <2>1. w \in Procs /\ <<c, k>> \in Refs BY DEF Procs, Refs
    <2>2. \A b \in BOOLEAN : Task(<<c, k>>, m, "pending", b) \in Tasks
      BY <2>1, TaskMade
    <2>3. PICK b \in BOOLEAN : /\ Move(w, "split", Task(<<c, k>>, m, "pending", b))
                               /\ UNCHANGED <<rows, gateway, settled>>
      BY <1>2 DEF RequestIntent, RequestPayment, GotoWith
    <2> QED BY <2>1, <2>2, <2>3, MoveType DEF Leaves, rows, Labels, AfterStore
  <1>3. ASSUME NEW w \in Workers, NEW r \in Refs, NEW s \in Results,
               ReceiveCallback(w, r, s)
        PROVE TypeInv'
    <2>1. w \in Procs BY DEF Procs
    <2>2. intent[r] \in IntentRows
      BY <1>3 DEF ReceiveCallback
    <2>3. Task(r, intent[r].method, s, FALSE) \in Tasks BY <2>2, TaskMade
    <2> QED BY <1>3, <2>1, <2>3
        DEF ReceiveCallback, GotoWith, Goto, Move, rows, Labels, AfterStore, Task
  <1>4. ASSUME NEW w \in Workers, ReadSplit(w) PROVE TypeInv'
    <2>1. w \in Procs /\ pc[w] = "split" BY <1>4 DEF Procs, ReadSplit
    <2> DEFINE c == job[w].ref[1]
               online == Total[c] - WalletPart(c, job[w].method)
    <2>2. online \in Nat BY <1>t, <2>1, SplitBounds
    <2>3. [job[w] EXCEPT !.amount = online] \in Tasks BY <1>t, <2>1, <2>2 DEF Tasks
    <2>4. /\ UNCHANGED <<rows, gateway, settled>>
          /\ \/ Move(w, "finalize", [job[w] EXCEPT !.amount = online])
             \/ Move(w, "create", [job[w] EXCEPT !.amount = online])
             \/ Leaves(w)
      BY <1>4 DEF ReadSplit, Finish, Return, GotoWith, Leaves
    <2> QED BY <2>1, <2>3, <2>4, MoveType DEF Leaves, rows, Labels, AfterStore
  <1>5. ASSUME NEW w \in Workers, CreatePayment(w) PROVE TypeInv'
    <2>1. w \in Procs /\ pc[w] = "create" BY <1>5 DEF Procs, CreatePayment
    <2>2. Task(job[w].ref, job[w].method, "succeeded", FALSE) \in Tasks
      BY <1>t, <2>1, TaskMade DEF Results
    <2> DEFINE r == job[w].ref
               t == Task(r, job[w].method, "succeeded", FALSE)
    <2>3. r \in Refs /\ job[w] \in Tasks /\ job[w].amount \in Nat BY <1>t, <2>1
    <2>4. t.ref = r /\ t.status \in Results BY DEF Task, Results
    <2>5. CASE intent[r] # NoRow
      <3>1. /\ UNCHANGED <<rows, gateway, settled>>
            /\ Move(w, "callback", t) \/ Leaves(w)
        BY <1>5, <2>5 DEF CreatePayment, IntentReady, Finish, Return, GotoWith, Leaves
      <3> QED BY <2>1, <2>2, <2>3, <2>4, <2>5, <3>1, MoveType
              DEF Leaves, rows, Labels, AfterStore
    <2>6. CASE intent[r] = NoRow /\ pc'[w] = "idle"
      <3>1. pc' = [pc EXCEPT ![w] = "store"] => pc'[w] = "store" BY <2>1
      <3>2. UNCHANGED <<rows, gateway, settled>> /\ Leaves(w)
        BY <1>5, <2>6, <3>1 DEF CreatePayment, Finish, Goto, Move, Leaves
      <3> QED BY <2>1, <3>2, MoveType DEF Leaves, rows, Labels, AfterStore
    <2>7. CASE intent[r] = NoRow /\ pc'[w] # "idle"
      <3>1. pc' = [pc EXCEPT ![w] = "idle"] => pc'[w] = "idle" BY <2>1
      <3>2. /\ UNCHANGED <<rows, settled>>
            /\ pc' = [pc EXCEPT ![w] = "store"] /\ job' = job
            /\ gateway' = IF gateway[r] # NoRow THEN gateway
                 ELSE [gateway EXCEPT ![r] =
                          [status |-> "pending", amount |-> job[w].amount]]
        BY <1>5, <2>7, <3>1 DEF CreatePayment, Finish, Goto, Move
      <3>3. Move(w, "store", job[w]) BY <2>1, <3>2 DEF GotoWith, Goto, Move
      <3>4. [status |-> "pending", amount |-> job[w].amount]
               \in GatewayRows
            /\ [status |-> "pending", amount |-> job[w].amount] # NoRow
        BY <2>3 DEF NoRow
      <3>5. gateway'[r] # NoRow BY <2>3, <3>2, <3>4
      <3>6. gateway' \in [Refs -> {NoRow} \cup GatewayRows]
            /\ \A q \in Refs : gateway[q] # NoRow => gateway'[q] # NoRow
        BY <2>3, <3>2, <3>4
      <3>7. /\ UNCHANGED <<checkout, intent, lapsed, callback, order, balance, settled>>
            /\ checkout' \in [Checkouts -> CheckoutStates]
            /\ intent' \in [Refs -> {NoRow} \cup IntentRows]
            /\ \A q \in Refs : intent[q] # NoRow => gateway[q] # NoRow
        BY <3>2 DEF rows
      <3>8. "store" \in Labels /\ "store" \notin AfterStore BY DEF Labels, AfterStore
      <3>9. job[w] \in Tasks /\ gateway'[job[w].ref] # NoRow BY <2>3, <3>5
      <3> HIDE DEF TypeInv, CoreOK, RowsPresent
      <3> QED BY <2>1, <3>3, <3>6, <3>7, <3>8, <3>9, MoveType
    <2> QED BY <2>5, <2>6, <2>7
  <1>6. ASSUME NEW w \in Workers, StoreIntent(w) PROVE TypeInv'
    <2>1. w \in Procs /\ pc[w] = "store" BY <1>6 DEF Procs, StoreIntent
    <2>2. Task(job[w].ref, job[w].method, "succeeded", FALSE) \in Tasks
      BY <1>t, <2>1, TaskMade DEF Results
    <2> DEFINE r == job[w].ref
               t == Task(r, job[w].method, "succeeded", FALSE)
               row == [status |-> "created", method |-> job[w].method,
                       amount |-> job[w].amount]
    <2>3. /\ r \in Refs /\ r[1] \in Checkouts /\ job[w] \in Tasks
          /\ row \in IntentRows
          /\ row # NoRow /\ gateway[r] # NoRow
      BY <1>t, <2>1 DEF IntentStates, NoRow
    <2>4. t.ref = r /\ t.status \in Results BY DEF Task, Results
    <2>5. UNCHANGED <<lapsed, callback, order, balance, gateway, settled>>
      BY <1>6 DEF StoreIntent
    <2>6. CASE UNCHANGED <<intent, checkout>> /\ intent[r] # NoRow
      <3>1. Move(w, "callback", t) \/ Leaves(w)
        BY <1>6, <2>6 DEF StoreIntent, IntentReady, Finish, Return, GotoWith, Leaves
      <3> QED BY <2>1, <2>2, <2>3, <2>4, <2>5, <2>6, <3>1, MoveType
              DEF Leaves, Labels, AfterStore
    <2>7. CASE UNCHANGED <<intent, checkout>> /\ Leaves(w)
      BY <2>1, <2>5, <2>7, MoveType DEF Leaves, Labels, AfterStore
    <2>8. CASE /\ intent' = [intent EXCEPT ![r] = row]
               /\ checkout' = [checkout EXCEPT ![r[1]] = "payment_pending"]
               /\ IntentReady(w)
      <3>1. Move(w, "callback", t) \/ Leaves(w)
        BY <2>8 DEF IntentReady, Finish, Return, GotoWith, Leaves
      <3>2. /\ intent' \in [Refs -> {NoRow} \cup IntentRows]
            /\ checkout' \in [Checkouts -> CheckoutStates]
            /\ intent'[r] # NoRow
        BY <2>3, <2>8 DEF CheckoutStates
      <3>3. \A q \in Refs : /\ intent[q] # NoRow => intent'[q] # NoRow
                            /\ intent'[q] # NoRow => gateway[q] # NoRow
        BY <2>3, <2>8
      <3> QED BY <2>1, <2>2, <2>3, <2>4, <2>5, <3>1, <3>2, <3>3, MoveType
              DEF Leaves, Labels, AfterStore
    <2> QED BY <1>6, <2>6, <2>7, <2>8 DEF StoreIntent, Finish, Return, GotoWith, Leaves
  <1>7. ASSUME NEW w \in Workers, ReadIntent(w) PROVE TypeInv'
    <2>1. w \in Procs /\ pc[w] = "callback" BY <1>7 DEF Procs, ReadIntent
    <2>2. intent[job[w].ref] \in IntentRows
      BY <1>t, <2>1 DEF AfterStore
    <2>3. [job[w] EXCEPT !.method = intent[job[w].ref].method] \in Tasks
      BY <1>t, <2>1, <2>2 DEF Tasks
    <2> DEFINE j == [job[w] EXCEPT !.method = intent[job[w].ref].method]
    <2>4. /\ j.ref = job[w].ref /\ j.status = job[w].status
          /\ intent[j.ref] # NoRow /\ j.status \in Results
      BY <1>t, <2>1 DEF Tasks, AfterStore
    <2>5. Move(w, "verify", j) \/ Leaves(w)
      BY <1>7 DEF ReadIntent, Finish, Return, GotoWith, Leaves
    <2>6. UNCHANGED <<rows, gateway, settled>> BY <1>7 DEF ReadIntent
    <2>7. NoJob \in Tasks \cup {NoJob} /\ w \in Procs /\ j \in Tasks BY <2>1, <2>3
    <2>8. CASE Move(w, "verify", j)
      <3>1. "verify" \in Labels BY DEF Labels
      <3> HIDE DEF j, TypeInv, CoreOK, RowsPresent
      <3> QED BY <3>1, <2>4, <2>6, <2>7, <2>8, MoveOnly
    <2>9. CASE Leaves(w)
      BY <2>6, <2>7, <2>9, LeaveOnly
    <2> QED BY <2>5, <2>8, <2>9
  <1>8. ASSUME NEW w \in Workers, Verify(w) PROVE TypeInv'
    <2>1. w \in Procs /\ pc[w] = "verify" BY <1>8 DEF Procs, Verify
    <2>2. gateway[job[w].ref] \in GatewayRows
      BY <1>t, <2>1 DEF AfterStore
    <2> DEFINE r == job[w].ref
    <2>3. /\ r \in Refs /\ job[w].status \in Results
          /\ intent[r] # NoRow /\ gateway[r] # NoRow
      BY <1>t, <2>1 DEF AfterStore
    <2>4. /\ [gateway[r] EXCEPT !.status = job[w].status]
               \in GatewayRows
          /\ [gateway[r] EXCEPT !.status = job[w].status] # NoRow
      BY <2>2, <2>3 DEF NoRow
    <2>5. /\ gateway' \in [Refs -> {NoRow} \cup GatewayRows]
          /\ \A q \in Refs : gateway[q] # NoRow => gateway'[q] # NoRow
      BY <1>8, <2>3, <2>4 DEF Verify, GatewayRecords
    <2>6. settled' \subseteq Refs
      BY <1>8, <2>3 DEF Verify, GatewayRecords
    <2>7. UNCHANGED rows BY <1>8 DEF Verify
    <2>8. \/ pc' = [pc EXCEPT ![w] = "record"] /\ job' = job
          \/ pc' = [pc EXCEPT ![w] = "idle"] /\ job' = [job EXCEPT ![w] = NoJob]
      BY <1>8 DEF Verify, Finish, Return, GotoWith, Goto, Move
    <2>9. CoreOK'
      BY <2>1, <2>5, <2>6, <2>7, <2>8 DEF rows, Labels
    <2>10. RowsPresent'
      <3>1. \A v \in Procs :
               IF v = w THEN pc'[v] = "idle" \/ (pc'[v] = "record" /\ job'[v] = job[v])
                        ELSE pc'[v] = pc[v] /\ job'[v] = job[v]
        BY <2>1, <2>8
      <3>2. \A v \in Procs : pc[v] \notin {"idle", "next"} => job[v].ref \in Refs BY <1>t
      <3>3. intent' = intent BY <2>7 DEF rows
      <3>4. RowsPresent OBVIOUS
      <3> HIDE DEF TypeInv, CoreOK
      <3> QED BY <2>3, <2>5, <3>1, <3>2, <3>3, <3>4 DEF AfterStore
    <2> QED BY <2>9, <2>10
  <1>9. ASSUME NEW w \in Workers, CheckTransition(w) PROVE TypeInv'
    BY <1>9 DEF CheckTransition, Procs, Finish, Return, GotoWith, Goto, Move, rows, Labels, AfterStore
  <1>10. ASSUME NEW w \in Workers, CommitCallback(w) PROVE TypeInv'
    <2>1. w \in Procs /\ pc[w] = "commit" BY <1>10 DEF Procs, CommitCallback
    <2>2. intent[job[w].ref] \in IntentRows
      BY <1>t, <2>1 DEF AfterStore
    <2>3. job[w].status \in Results BY <2>1
    <2> DEFINE r == job[w].ref
               s == job[w].status
    <2>4. r \in Refs /\ r[1] \in Checkouts BY <1>t, <2>1
    <2>5. /\ callback' \in [Refs -> {NoRow} \cup [status : Results]]
          /\ checkout' \in [Checkouts -> CheckoutStates]
      BY <1>10, <2>3, <2>4
      DEF CommitCallback, CallbackOutcome, CheckoutStates
    <2>6. [intent[r] EXCEPT !.status = s]
             \in IntentRows
          /\ [intent[r] EXCEPT !.status = s] # NoRow
      BY <2>2, <2>3 DEF Results, IntentStates, NoRow
    <2>7. /\ intent' \in [Refs -> {NoRow} \cup IntentRows]
          /\ \A q \in Refs : intent'[q] # NoRow <=> intent[q] # NoRow
      BY <1>10, <1>t, <2>1, <2>4, <2>6 DEF CommitCallback, AfterStore
    <2>8. \/ pc' = [pc EXCEPT ![w] = "finalize"] /\ job' = job
          \/ pc' = [pc EXCEPT ![w] = "idle"] /\ job' = [job EXCEPT ![w] = NoJob]
      BY <1>10 DEF CommitCallback, Finish, Return, GotoWith, Goto, Move
    <2>9. UNCHANGED <<lapsed, order, balance, gateway, settled>>
      BY <1>10 DEF CommitCallback
    <2>10. CoreOK'
      BY <2>1, <2>5, <2>7, <2>8, <2>9 DEF Labels
    <2>11. RowsPresent'
      BY <1>t, <2>1, <2>7, <2>8, <2>9 DEF AfterStore, Labels
    <2> QED BY <2>10, <2>11
  <1>11. ASSUME NEW w \in Reconcilers, ListUnresolved(w) \/ TakeUp(w) PROVE TypeInv'
    <2>1. w \in Procs BY DEF Procs
    <2>2. CASE ListUnresolved(w)
      BY <2>1, <2>2 DEF ListUnresolved, rows, Labels, AfterStore
    <2>3. CASE TakeUp(w)
      <3>1. PICK r \in batch[w] : Move(w, "query", Task(r, intent[r].method, "pending", FALSE))
        BY <2>3 DEF TakeUp
      <3>2. r \in Refs /\ intent[r] # NoRow BY <2>1, <3>1 DEF QueueOK
      <3>3. intent[r] \in IntentRows BY <3>2
      <3>4. Task(r, intent[r].method, "pending", FALSE) \in Tasks BY <3>2, <3>3, TaskMade
      <3>5. UNCHANGED <<rows, gateway, settled>> BY <2>3 DEF TakeUp
      <3>6. Task(r, intent[r].method, "pending", FALSE).ref = r BY DEF Task
      <3>7. "query" \in Labels BY DEF Labels
      <3> HIDE DEF TypeInv, CoreOK, RowsPresent
      <3> QED BY <2>1, <3>1, <3>2, <3>4, <3>5, <3>6, <3>7, MoveOnly
    <2> QED BY <1>11, <2>2, <2>3
  <1>12. ASSUME NEW w \in Reconcilers, QueryStatus(w) PROVE TypeInv'
    <2>1. w \in Procs /\ pc[w] = "query" BY <1>12 DEF Procs, QueryStatus
    <2>2. gateway[job[w].ref] \in GatewayRows
      BY <1>t, <2>1 DEF AfterStore
    <2>3. [job[w] EXCEPT !.status = gateway[job[w].ref].status] \in Tasks
      BY <1>t, <2>1, <2>2 DEF Tasks
    <2> DEFINE j == [job[w] EXCEPT !.status = gateway[job[w].ref].status]
    <2>4. j.ref = job[w].ref /\ intent[j.ref] # NoRow
      BY <1>t, <2>1 DEF Tasks, AfterStore
    <2>5. Move(w, "update", j) \/ Leaves(w)
      BY <1>12 DEF QueryStatus, Finish, Return, GotoWith, Leaves
    <2>6. UNCHANGED <<rows, gateway, settled>> BY <1>12 DEF QueryStatus
    <2>7. NoJob \in Tasks \cup {NoJob} /\ w \in Procs /\ j \in Tasks BY <2>1, <2>3
    <2>8. CASE Move(w, "update", j)
      <3>1. "update" \in Labels BY DEF Labels
      <3> HIDE DEF j, TypeInv, CoreOK, RowsPresent
      <3> QED BY <3>1, <2>4, <2>6, <2>7, <2>8, MoveOnly
    <2>9. CASE Leaves(w)
      BY <2>6, <2>7, <2>9, LeaveOnly
    <2> QED BY <2>5, <2>8, <2>9
  <1>13. ASSUME NEW w \in Reconcilers, CheckUpdate(w) PROVE TypeInv'
    BY <1>13 DEF CheckUpdate, Procs, Finish, Return, GotoWith, Goto, Move, rows, Labels, AfterStore
  <1>14. ASSUME NEW w \in Reconcilers, WriteIntent(w) PROVE TypeInv'
    <2>1. w \in Procs /\ pc[w] = "write" BY <1>14 DEF Procs, WriteIntent
    <2>2. intent[job[w].ref] \in IntentRows
      BY <1>t, <2>1 DEF AfterStore
    <2> QED BY <1>14, <1>t, <2>1, <2>2
        DEF WriteIntent, Goto, Labels, AfterStore, NoRow, Results, IntentStates
  <1>15. ASSUME NEW w \in Reconcilers, ReopenCheckout(w) PROVE TypeInv'
    <2>1. w \in Procs /\ pc[w] = "reopen" BY <1>15 DEF Procs, ReopenCheckout
    <2> QED BY <1>15, <1>t, <2>1
        DEF ReopenCheckout, Finish, Return, GotoWith, Goto, Move, Labels, AfterStore, CheckoutStates
  <1>16. ASSUME NEW w \in Procs, Finalize(w) PROVE TypeInv'
    <2>1. pc[w] = "finalize" BY <1>16 DEF Finalize
    <2> DEFINE c == job[w].ref[1]
               part == WalletPart(c, job[w].method)
    <2>2. /\ part \in Nat /\ Total[c] - part \in Nat
          /\ Finalizable(c, job[w].method) => balance - part \in Nat
      <3>1. c \in Checkouts /\ job[w].method \in Methods BY <1>t, <2>1
      <3>2. balance \in Nat OBVIOUS
      <3>3. Total[c] \in Nat BY <3>1, PaymentsAssumption
      <3> HIDE DEF TypeInv, CoreOK, RowsPresent, c
      <3>4. /\ part \in 0 .. Total[c] /\ Total[c] - part \in Nat
            /\ Affordable(c, job[w].method) => part <= balance
        BY <3>1, <3>2, SplitBounds
      <3> HIDE DEF part
      <3> QED BY <3>2, <3>3, <3>4 DEF Finalizable
    <2>3. /\ Leaves(w)
          /\ UNCHANGED <<lapsed, intent, callback, gateway, settled>>
      BY <1>16, Leaving DEF Finalize
    <2>4. /\ checkout' \in [Checkouts -> CheckoutStates] /\ balance' \in Nat
          /\ order' \in [Checkouts -> {NoRow} \cup PaidRows]
      BY <1>16, <1>t, <2>1, <2>2 DEF Finalize, CheckoutStates
    <2> QED BY <2>3, <2>4 DEF Leaves, Move, Labels, AfterStore
  <1>17. ASSUME NEW w \in Procs, Abandon(w) PROVE TypeInv'
    BY <1>17 DEF Abandon, Finish, Return, GotoWith, Goto, Move, rows, Labels, AfterStore
  <1>18. CASE UNCHANGED vars
    BY <1>18 DEF vars, rows, AfterStore
  <1> QED
    BY <1>1, <1>2, <1>3, <1>4, <1>5, <1>6, <1>7, <1>8, <1>9, <1>10, <1>11, <1>12,
       <1>13, <1>14, <1>15, <1>16, <1>17, <1>18
    DEF Next, RequestStep, ReconcileStep

LEMMA InitQueue == Init => QueueOK
  BY DEF Init, QueueOK, Procs

\* Only a stored intent makes others older, only a run that starts lists any, and no
\* intent is ever deleted.
LEMMA QueueStep == TypeInv /\ QueueOK /\ [Next]_vars => QueueOK'
  <1> SUFFICES ASSUME TypeInv, QueueOK, [Next]_vars PROVE QueueOK' OBVIOUS
  <1>f. /\ intent \in [Refs -> {NoRow} \cup IntentRows] /\ job \in [Procs -> Tasks \cup {NoJob}]
        /\ \A w \in Procs : pc[w] \notin {"idle", "next"} => job[w].ref \in Refs
    BY TaskParts DEF TypeInv, CoreOK
  <1>m. ASSUME NEW w \in Procs,
               \/ UNCHANGED batch
               \/ \E q \in SUBSET batch[w] : batch' = [batch EXCEPT ![w] = q],
               older' \subseteq Refs \X Refs,
               \A r \in Refs : intent[r] # NoRow => intent'[r] # NoRow
        PROVE  QueueOK'
    BY <1>m DEF QueueOK
  <1>b. ASSUME NEW w \in Procs, Finish(w)
        PROVE  \E q \in SUBSET batch[w] : batch' = [batch EXCEPT ![w] = q]
    BY <1>b DEF Finish
  <1>o. older \subseteq Refs \X Refs BY DEF QueueOK
  <1>1. ASSUME NEW w \in Workers, StoreIntent(w) PROVE QueueOK'
    <2>1. w \in Procs /\ job[w].ref \in Refs BY <1>1, <1>f DEF StoreIntent, Procs
    <2>2. older' \subseteq Refs \X Refs BY <1>1, <2>1, <1>o DEF StoreIntent
    <2>3. \A r \in Refs : intent[r] # NoRow => intent'[r] # NoRow
      BY <1>1, <2>1, <1>f DEF StoreIntent
    <2>4. UNCHANGED batch \/ Finish(w)
      BY <1>1 DEF StoreIntent, IntentReady, GotoWith
    <2> QED BY <2>1, <2>2, <2>3, <2>4, <1>b, <1>m
  <1>2. ASSUME NEW w \in Procs, NEW r \in Refs, NEW s \in IntentStates,
               intent[r] # NoRow, intent' = [intent EXCEPT ![r].status = s],
               UNCHANGED older, UNCHANGED batch \/ Finish(w)
        PROVE  QueueOK'
    <2>1. \A q \in Refs : intent[q] # NoRow => intent'[q] # NoRow
      BY <1>2, <1>f DEF NoRow
    <2> QED BY <1>2, <2>1, <1>o, <1>b, <1>m
  <1>3. ASSUME NEW w \in Workers, CommitCallback(w) PROVE QueueOK'
    <2>1. /\ w \in Procs /\ pc[w] = "commit" /\ job[w].ref \in Refs
          /\ job[w].status \in Results /\ intent[job[w].ref] # NoRow
      BY <1>3, <1>f DEF CommitCallback, Procs, TypeInv, RowsPresent, AfterStore
    <2>2. job[w].status \in IntentStates BY <2>1 DEF Results, IntentStates
    <2>3. /\ UNCHANGED older
          /\ UNCHANGED batch \/ Finish(w)
          /\ \/ UNCHANGED intent
             \/ intent' = [intent EXCEPT ![job[w].ref].status = job[w].status]
      BY <1>3 DEF CommitCallback, Goto
    <2> QED BY <2>1, <2>2, <2>3, <1>2, <1>o, <1>b, <1>m
  <1>4. ASSUME NEW w \in Reconcilers, WriteIntent(w) PROVE QueueOK'
    <2>1. /\ w \in Procs /\ pc[w] = "write" /\ job[w].ref \in Refs /\ job[w] \in Tasks
          /\ intent[job[w].ref] # NoRow
      BY <1>4, <1>f DEF WriteIntent, Procs, TypeInv, CoreOK, RowsPresent, AfterStore
    <2>2. job[w].status \in IntentStates BY <2>1, TaskParts DEF Results, IntentStates
    <2>3. /\ UNCHANGED <<older, batch>>
          /\ intent' = [intent EXCEPT ![job[w].ref].status = job[w].status]
      BY <1>4 DEF WriteIntent, Goto
    <2> QED BY <2>1, <2>2, <2>3, <1>2
  <1>5. ASSUME NEW w \in Reconcilers, ListUnresolved(w) PROVE QueueOK'
    <2>1. \A r \in Listed : r \in Refs /\ intent[r] # NoRow
      BY DEF Listed, Unresolved, NoRow
    <2> QED BY <1>5, <2>1 DEF ListUnresolved, QueueOK, rows, Procs
  <1>6. ASSUME NEW w \in Reconcilers, TakeUp(w) PROVE QueueOK'
    <2>1. UNCHANGED <<older, intent>> BY <1>6 DEF TakeUp, rows
    <2>2. \E q \in SUBSET batch[w] : batch' = [batch EXCEPT ![w] = q]
      BY <1>6 DEF TakeUp
    <2> QED BY <2>1, <2>2, <1>m, <1>o DEF Procs
  <1>7. ASSUME NEW w \in Procs, UNCHANGED <<intent, older>>, UNCHANGED batch \/ Finish(w)
        PROVE  QueueOK'
    BY <1>7, <1>m, <1>b, <1>o
  <1>8. ASSUME NEW w \in Workers, RequestStep(w) PROVE QueueOK'
    <2>1. CASE \/ ReadSplit(w) \/ CreatePayment(w) \/ ReadIntent(w)
               \/ Verify(w) \/ CheckTransition(w)
      <3>1. UNCHANGED <<intent, older>>
        BY <2>1 DEF ReadSplit, CreatePayment, ReadIntent, Verify, CheckTransition, rows
      <3>2. UNCHANGED batch \/ Finish(w)
        BY <2>1 DEF ReadSplit, CreatePayment, ReadIntent, Verify, CheckTransition,
                    IntentReady, GotoWith, Goto
      <3> QED BY <3>1, <3>2, <1>7 DEF Procs
    <2> QED BY <1>1, <1>3, <1>8, <2>1 DEF RequestStep
  <1>9. ASSUME NEW w \in Reconcilers, ReconcileStep(w) PROVE QueueOK'
    <2>1. CASE QueryStatus(w) \/ CheckUpdate(w) \/ ReopenCheckout(w)
      <3>1. UNCHANGED <<intent, older>>
        BY <2>1 DEF QueryStatus, CheckUpdate, ReopenCheckout, rows
      <3>2. UNCHANGED batch \/ Finish(w)
        BY <2>1 DEF QueryStatus, CheckUpdate, ReopenCheckout, Return, GotoWith, Goto
      <3> QED BY <3>1, <3>2, <1>7 DEF Procs
    <2> QED BY <1>4, <1>6, <1>9, <2>1 DEF ReconcileStep
  <1>10. ASSUME NEW w \in Procs, Finalize(w) \/ Abandon(w) PROVE QueueOK'
    BY <1>10, <1>7 DEF Finalize, Abandon, Return, GotoWith, rows
  <1>11. CASE \/ \E c \in Checkouts : Lapse(c)
              \/ \E w \in Workers, c \in Checkouts, k \in Keys, m \in Methods :
                    RequestIntent(w, c, k, m) \/ RequestPayment(w, c, k, m)
              \/ \E w \in Workers, r \in Refs, s \in Results : ReceiveCallback(w, r, s)
              \/ UNCHANGED vars
    <2>1. UNCHANGED <<intent, older, batch>>
      BY <1>11 DEF Lapse, RequestIntent, RequestPayment, ReceiveCallback, GotoWith, rows, vars
    <2> QED BY <2>1 DEF QueueOK
  <1> QED BY <1>5, <1>8, <1>9, <1>10, <1>11 DEF Next

LEMMA TypeReached == Spec => [](TypeInv /\ QueueOK)
  BY InitType, InitQueue, TypeStep, QueueStep, PTL DEF Spec

\* Every reachable state is well typed and no handler works on a missing row;
\* in particular the wallet never goes below zero, whatever requests,
\* callbacks, crashes and reconciliation runs interleave.
THEOREM TypeCorrect == Spec => []TypeOK
  <1>1. TypeInv /\ QueueOK => TypeOK BY DEF TypeInv, QueueOK, CoreOK, TypeOK
  <1> QED BY <1>1, TypeReached, PTL

-----------------------------------------------------------------------------
\* What a process may claim: a success it is about to record or to finalize was
\* reported by the gateway.  This is what makes SuccessIsVerified inductive.
Verified ==
    /\ SuccessIsVerified
    /\ \A r \in Refs : gateway[r].status = "succeeded" => r \in settled
    /\ \A w \in Procs :
          pc[w] \in {"record", "commit", "update", "write"}
             /\ job[w].status = "succeeded" => job[w].ref \in settled

LEMMA InitVerified == Init => Verified
  BY DEF Init, Verified, SuccessIsVerified, NoRow, Procs

LEMMA VerifiedStep == TypeInv /\ Verified /\ [Next]_vars => Verified'
  <1> SUFFICES ASSUME TypeInv, Verified, [Next]_vars PROVE Verified'
    OBVIOUS
  <1>t. \A w \in Procs : pc[w] \notin {"idle", "next"} => job[w] \in Tasks /\ job[w].ref \in Refs
    BY TaskParts DEF TypeInv, CoreOK
  <1>f. /\ intent \in [Refs -> {NoRow} \cup IntentRows]
        /\ callback \in [Refs -> {NoRow} \cup [status : Results]]
        /\ gateway \in [Refs -> {NoRow} \cup GatewayRows]
        /\ pc \in [Procs -> Labels] /\ job \in [Procs -> Tasks \cup {NoJob}]
    BY DEF TypeInv, CoreOK
  <1>p. \A w \in Procs : pc[w] \in AfterStore => /\ intent[job[w].ref] # NoRow
                                                  /\ gateway[job[w].ref] # NoRow
    BY <1>t DEF TypeInv, RowsPresent, AfterStore
  <1> USE DEF Verified, SuccessIsVerified
  \* A process moves to a label that claims nothing; the rows stay.
  <1>m. ASSUME NEW w \in Procs, NEW l \in Labels, NEW j, Move(w, l, j),
               l \notin {"record", "commit", "update", "write"},
               UNCHANGED <<intent, callback, gateway, settled>>
        PROVE  Verified'
    BY <1>m, <1>f DEF GotoWith, Goto, Move
  <1>l. ASSUME NEW w \in Procs, Leaves(w), UNCHANGED <<intent, callback, gateway, settled>>
        PROVE  Verified'
    BY <1>l, <1>m DEF Leaves, Labels
  <1>1. ASSUME NEW c \in Checkouts, Lapse(c) PROVE Verified'
    BY <1>1 DEF Lapse
  <1>2. ASSUME NEW w \in Workers, NEW c \in Checkouts, NEW k \in Keys,
               NEW m \in Methods, RequestIntent(w, c, k, m) \/ RequestPayment(w, c, k, m)
        PROVE Verified'
    BY <1>2, <1>m DEF RequestIntent, RequestPayment, GotoWith, rows, Procs, Labels
  <1>3. ASSUME NEW w \in Workers, NEW r \in Refs, NEW s \in Results,
               ReceiveCallback(w, r, s)
        PROVE Verified'
    BY <1>3, <1>m DEF ReceiveCallback, GotoWith, rows, Procs, Labels
  <1>4. ASSUME NEW w \in Workers, ReadSplit(w) PROVE Verified'
    <2>1. PICK l \in {"finalize", "create", "idle"}, j \in {job'[w]} :
             Move(w, l, j) /\ UNCHANGED <<rows, gateway, settled>>
      BY <1>4, <1>f DEF ReadSplit, Finish, GotoWith, Move, Procs
    <2> QED BY <2>1, <1>m DEF rows, Procs, Labels
  <1>5. ASSUME NEW w \in Workers, CreatePayment(w) PROVE Verified'
    <2>1. w \in Procs /\ pc[w] = "create" /\ job[w].ref \in Refs
      BY <1>5, <1>t DEF Procs, CreatePayment
    <2>2. UNCHANGED <<intent, callback, settled>>
      BY <1>5 DEF CreatePayment, rows
    <2>3. \A r \in Refs : gateway'[r].status = "succeeded" => r \in settled
      BY <1>5, <1>f, <2>1 DEF CreatePayment
    <2>4. pc'[w] \in {"callback", "store", "idle"}
      BY <1>5, <1>f, <2>1 DEF CreatePayment, IntentReady, Finish, Return, GotoWith, Goto, Move
    <2>5. \A v \in Procs : v # w => pc'[v] = pc[v] /\ job'[v] = job[v]
      BY <1>5, <1>f, <2>1 DEF CreatePayment, IntentReady, Finish, Return, GotoWith, Goto, Move
    <2> QED BY <2>1, <2>2, <2>3, <2>4, <2>5
  <1>6. ASSUME NEW w \in Workers, StoreIntent(w) PROVE Verified'
    <2>1. w \in Procs /\ pc[w] = "store" /\ job[w].ref \in Refs
      BY <1>6, <1>t DEF Procs, StoreIntent
    <2>2. UNCHANGED <<gateway, callback, settled>>
      BY <1>6 DEF StoreIntent
    <2>3. \A r \in Refs : intent'[r].status = "succeeded" => r \in settled
      BY <1>6, <1>f, <2>1 DEF StoreIntent
    <2>4. pc'[w] \in {"callback", "idle"}
      BY <1>6, <1>f, <2>1 DEF StoreIntent, IntentReady, Finish, Return, GotoWith, Goto, Move
    <2>5. \A v \in Procs : v # w => pc'[v] = pc[v] /\ job'[v] = job[v]
      BY <1>6, <1>f, <2>1 DEF StoreIntent, IntentReady, Finish, Return, GotoWith, Goto, Move
    <2> QED BY <2>1, <2>2, <2>3, <2>4, <2>5
  <1>7. ASSUME NEW w \in Workers, ReadIntent(w) PROVE Verified'
    <2>1. PICK l \in {"verify", "idle"}, j \in {job'[w]} :
             Move(w, l, j) /\ UNCHANGED <<rows, gateway, settled>>
      BY <1>7, <1>f DEF ReadIntent, Finish, GotoWith, Move, Procs
    <2> QED BY <2>1, <1>m DEF rows, Procs, Labels
  <1>8. ASSUME NEW w \in Workers, Verify(w) PROVE Verified'
    <2>1. w \in Procs /\ pc[w] = "verify" /\ job[w].ref \in Refs
      BY <1>8, <1>t DEF Procs, Verify
    <2>2. CASE GatewayAccepts(job[w].ref, job[w].status)
      BY <1>8, <1>f, <1>p, <2>1, <2>2
      DEF Verify, GatewayRecords, Goto, rows, AfterStore
    <2>3. CASE ~ GatewayAccepts(job[w].ref, job[w].status)
      BY <1>8, <1>m, <1>l, Leaving, <2>1, <2>3 DEF Verify, rows, Labels
    <2> QED BY <2>2, <2>3
  <1>9. ASSUME NEW w \in Workers, CheckTransition(w) PROVE Verified'
    BY <1>9, <1>f DEF CheckTransition, Procs, Finish, Return, GotoWith, Goto, Move, rows
  <1>10. ASSUME NEW w \in Workers, CommitCallback(w) PROVE Verified'
    <2>1. /\ w \in Procs /\ pc[w] = "commit" /\ job[w].ref \in Refs
          /\ intent[job[w].ref] # NoRow
      BY <1>10, <1>t, <1>p DEF Procs, CommitCallback, AfterStore
    <2>2. UNCHANGED <<gateway, settled>> BY <1>10 DEF CommitCallback
    <2>3. \A r \in Refs : /\ intent'[r].status = "succeeded" => r \in settled
                          /\ callback'[r].status = "succeeded" => r \in settled
      BY <1>10, <1>f, <2>1 DEF CommitCallback
    <2>4. /\ pc'[w] \in {"finalize", "idle"}
          /\ \A v \in Procs : v # w => pc'[v] = pc[v] /\ job'[v] = job[v]
      BY <1>10, <1>f, <2>1 DEF CommitCallback, Finish, Return, GotoWith, Goto, Move
    <2> QED BY <2>1, <2>2, <2>3, <2>4
  <1>11. ASSUME NEW w \in Reconcilers, ListUnresolved(w) \/ TakeUp(w) PROVE Verified'
    <2>1. w \in Procs /\ UNCHANGED <<intent, callback, gateway, settled>>
      BY <1>11 DEF ListUnresolved, TakeUp, rows, Procs
    <2>2. CASE ListUnresolved(w)
      <3>1. Move(w, "next", job[w]) BY <2>1, <2>2, <1>f DEF ListUnresolved, Move
      <3> QED BY <2>1, <3>1, <1>m DEF Labels
    <2>3. CASE TakeUp(w)
      BY <2>1, <2>3, <1>m DEF TakeUp, Labels
    <2> QED BY <1>11, <2>2, <2>3
  <1>12. ASSUME NEW w \in Reconcilers, QueryStatus(w) PROVE Verified'
    <2>1. w \in Procs /\ pc[w] = "query" /\ job[w] \in Tasks /\ job[w].ref \in Refs
      BY <1>12, <1>t DEF Procs, QueryStatus
    <2> DEFINE j == [job[w] EXCEPT !.status = gateway[job[w].ref].status]
    <2>2. j.ref = job[w].ref /\ j.status = gateway[job[w].ref].status
      BY <2>1 DEF Tasks
    <2>3. CASE Move(w, "update", j) /\ UNCHANGED <<rows, gateway, settled>>
      BY <2>1, <2>2, <2>3, <1>f DEF GotoWith, Goto, Move, rows
    <2>4. CASE Return(w) /\ UNCHANGED <<rows, gateway, settled>>
      BY <2>1, <2>4, <1>m, <1>l, Leaving DEF rows, Labels
    <2> QED BY <1>12, <2>3, <2>4 DEF QueryStatus, GotoWith
  <1>13. ASSUME NEW w \in Reconcilers, CheckUpdate(w) PROVE Verified'
    BY <1>13, <1>f DEF CheckUpdate, Procs, Finish, Return, GotoWith, Goto, Move, rows
  <1>14. ASSUME NEW w \in Reconcilers, WriteIntent(w) PROVE Verified'
    <2>1. /\ w \in Procs /\ pc[w] = "write" /\ job[w].ref \in Refs
          /\ intent[job[w].ref] # NoRow
      BY <1>14, <1>t, <1>p DEF Procs, WriteIntent, AfterStore
    <2> QED BY <1>14, <1>f, <2>1 DEF WriteIntent, Goto
  <1>15. ASSUME NEW w \in Reconcilers, ReopenCheckout(w) PROVE Verified'
    BY <1>15, <1>m, <1>l, Leaving DEF ReopenCheckout, Procs, Labels
  <1>16. ASSUME NEW w \in Procs, Finalize(w) PROVE Verified'
    BY <1>16, <1>m, <1>l, Leaving DEF Finalize, Labels
  <1>17. ASSUME NEW w \in Procs, Abandon(w) PROVE Verified'
    BY <1>17, <1>m, <1>l, Leaving DEF Abandon, rows, Labels
  <1>18. CASE UNCHANGED vars
    BY <1>18 DEF vars, rows
  <1> QED
    BY <1>1, <1>2, <1>3, <1>4, <1>5, <1>6, <1>7, <1>8, <1>9, <1>10, <1>11, <1>12,
       <1>13, <1>14, <1>15, <1>16, <1>17, <1>18
    DEF Next, RequestStep, ReconcileStep

\* A payment intent or callback row says succeeded only if the gateway has
\* reported that very payment succeeded, for any number of concurrent
\* callbacks, requests and reconciliation runs.
THEOREM SuccessVerified == Spec => []SuccessIsVerified
  <1>1. Spec => [](TypeInv /\ Verified)
    BY TypeReached, InitVerified, VerifiedStep, PTL DEF Spec
  <1>2. Verified => SuccessIsVerified BY DEF Verified
  <1> QED BY <1>1, <1>2, PTL

-----------------------------------------------------------------------------
\* Labels at which a task carries the method its intent was stored with.
Carrying == {"verify", "record", "commit", "query", "update", "write"}

\* What a process claims about a payment that is wholly online: it asks for the price,
\* and it only finalizes what the gateway has taken under its reference.
Claim(w) ==
    LET j == job[w]
        r == j.ref
    IN  /\ pc[w] \in {"create", "store"} /\ j.method = "online" => j.amount = Total[r[1]]
        /\ pc[w] = "store" => gateway[r].amount = j.amount
        /\ pc[w] \in Carrying => j.method = intent[r].method
        /\ pc[w] = "finalize" /\ j.method = "online"
              => r \in settled /\ gateway[r].amount = Total[r[1]]

\* Why OrderIsFunded is inductive: what the gateway holds for an intent never changes
\* its amount, and no task changes its intent's method.
Funded ==
    /\ OrderIsFunded
    /\ \A r \in settled : gateway[r] # NoRow
    /\ \A r \in Refs : intent[r] # NoRow /\ intent[r].method = "online"
          => gateway[r].amount = Total[r[1]]
    /\ \A w \in Procs : Claim(w)

LEMMA InitFunded == Init => Funded
  BY DEF Init, Funded, OrderIsFunded, Claim, Carrying, Procs, NoRow

\* Whoever did not move keeps its claim: payments at the gateway and intents stay.
LEMMA FundedRows ==
    ASSUME TypeInv, Funded, NEW w \in Procs, Claim(w)',
           UNCHANGED order, settled \subseteq settled',
           \A r \in settled' \ settled : gateway'[r] # NoRow,
           \A r \in Refs : gateway[r] # NoRow
              => gateway'[r] # NoRow /\ gateway'[r].amount = gateway[r].amount,
           \A r \in Refs : \/ intent'[r] = NoRow
                           \/ intent[r] # NoRow /\ intent'[r].method = intent[r].method
                           \/ intent'[r].method = "online"
                                 => gateway'[r].amount = Total[r[1]],
           \A r \in Refs : intent[r] # NoRow => intent'[r].method = intent[r].method,
           \A v \in Procs \ {w} : pc'[v] = pc[v] /\ job'[v] = job[v]
    PROVE  Funded'
  <1>f. /\ settled \subseteq Refs
        /\ order \in [Checkouts -> {NoRow} \cup PaidRows]
        /\ \A r \in Refs : intent[r] # NoRow => gateway[r] # NoRow
    BY DEF TypeInv, CoreOK, RowsPresent
  <1>t. \A v \in Procs : pc[v] \notin {"idle", "next"} => job[v].ref \in Refs
    BY TaskParts DEF TypeInv, CoreOK
  <1>1. OrderIsFunded'
    <2> SUFFICES ASSUME NEW c \in Checkouts,
                        order[c] # NoRow, order[c].method # "combined", order[c].online > 0
                 PROVE  /\ <<c, order[c].key>> \in settled'
                        /\ gateway'[<<c, order[c].key>>].amount = order[c].online
      BY DEF OrderIsFunded
    <2> DEFINE r == <<c, order[c].key>>
    <2>1. r \in settled /\ gateway[r].amount = order[c].online /\ gateway[r] # NoRow
      BY DEF Funded, OrderIsFunded
    <2>2. r \in Refs BY <2>1, <1>f
    <2> QED BY <2>1, <2>2
  <1>2. \A r \in settled' : gateway'[r] # NoRow
    BY <1>f DEF Funded
  <1>3. ASSUME NEW r \in Refs, intent'[r] # NoRow, intent'[r].method = "online"
        PROVE  gateway'[r].amount = Total[r[1]]
    BY <1>3, <1>f DEF Funded
  <1>4. ASSUME NEW v \in Procs \ {w} PROVE Claim(v)'
    <2>1. Claim(v) /\ pc'[v] = pc[v] /\ job'[v] = job[v] BY DEF Funded
    <2>2. pc[v] \in {"create", "store", "finalize"} \cup Carrying => job[v].ref \in Refs
      BY <1>t DEF Carrying
    <2>3. pc[v] = "store" => gateway[job[v].ref] # NoRow BY DEF TypeInv, RowsPresent
    <2>4. pc[v] \in Carrying => intent[job[v].ref] # NoRow
      BY DEF TypeInv, RowsPresent, Carrying, AfterStore
    <2>5. job[v].ref \in settled => gateway[job[v].ref] # NoRow BY DEF Funded
    <2> QED BY <2>1, <2>2, <2>3, <2>4, <2>5 DEF Claim
  <1> QED BY <1>1, <1>2, <1>3, <1>4 DEF Funded

\* A process moves while orders, intents and payments stay.
LEMMA FundedMove ==
    ASSUME TypeInv, Funded, NEW w \in Procs, NEW l \in Labels, NEW j, Move(w, l, j),
           UNCHANGED <<order, intent, gateway, settled>>,
           l \in {"create", "store"} /\ j.method = "online" => j.amount = Total[j.ref[1]],
           l = "store" => gateway[j.ref].amount = j.amount,
           l \in Carrying => j.method = intent[j.ref].method,
           l = "finalize" /\ j.method = "online"
              => j.ref \in settled /\ gateway[j.ref].amount = Total[j.ref[1]]
    PROVE  Funded'
  <1>1. /\ pc'[w] = l /\ job'[w] = j
        /\ \A v \in Procs \ {w} : pc'[v] = pc[v] /\ job'[v] = job[v]
    BY DEF Move, TypeInv, CoreOK
  <1>2. Claim(w)' BY <1>1 DEF Claim
  <1> QED BY <1>1, <1>2, FundedRows

LEMMA FundedStep == TypeInv /\ Verified /\ Funded /\ [Next]_vars => Funded'
  <1> SUFFICES ASSUME TypeInv, Verified, Funded, [Next]_vars PROVE Funded'
    OBVIOUS
  <1>t. \A w \in Procs : pc[w] \notin {"idle", "next"} =>
           /\ job[w] \in Tasks /\ job[w].ref \in Refs
           /\ job[w].ref[1] \in Checkouts /\ job[w].ref[2] \in Keys
           /\ job[w].ref = <<job[w].ref[1], job[w].ref[2]>>
           /\ job[w].method \in Methods /\ job[w].amount \in Nat
    BY TaskParts DEF TypeInv, CoreOK
  <1>f. /\ pc \in [Procs -> Labels] /\ job \in [Procs -> Tasks \cup {NoJob}]
        /\ balance \in Nat
        /\ order \in [Checkouts -> {NoRow} \cup PaidRows]
        /\ intent \in [Refs -> {NoRow} \cup IntentRows]
        /\ gateway \in [Refs -> {NoRow} \cup GatewayRows]
    BY DEF TypeInv, CoreOK
  <1>p. \A w \in Procs : pc[w] \in AfterStore => /\ intent[job[w].ref] # NoRow
                                                  /\ gateway[job[w].ref] # NoRow
    BY <1>t DEF TypeInv, RowsPresent, AfterStore
  <1>c. \A w \in Procs : Claim(w) BY DEF Funded
  \* A process moves to a label that claims nothing.
  <1>m. ASSUME NEW w \in Procs, NEW l \in {"idle", "next", "split", "callback"}, NEW j,
               Move(w, l, j), UNCHANGED <<order, intent, gateway, settled>>
        PROVE  Funded'
    BY <1>m, FundedMove DEF Labels, Carrying
  <1>l. ASSUME NEW w \in Procs, Leaves(w), UNCHANGED <<order, intent, gateway, settled>>
        PROVE  Funded'
    BY <1>l, <1>m DEF Leaves
  \* A handler keeps its task from one label that carries the method to the next.
  <1>k. ASSUME NEW w \in Procs, pc[w] \in Carrying, NEW l \in Carrying, NEW j,
               j.ref = job[w].ref, j.method = job[w].method,
               Move(w, l, j), UNCHANGED <<order, intent, gateway, settled>>
        PROVE  Funded'
    BY <1>k, <1>c, FundedMove DEF Labels, Carrying, Claim
  <1>1. ASSUME NEW c \in Checkouts, Lapse(c) PROVE Funded'
    BY <1>1 DEF Lapse, Funded, OrderIsFunded, Claim
  <1>2. ASSUME NEW w \in Workers, NEW c \in Checkouts, NEW k \in Keys,
               NEW m \in Methods, RequestIntent(w, c, k, m) \/ RequestPayment(w, c, k, m)
        PROVE Funded'
    BY <1>2, <1>m DEF RequestIntent, RequestPayment, GotoWith, rows, Procs
  <1>3. ASSUME NEW w \in Workers, NEW r \in Refs, NEW s \in Results,
               ReceiveCallback(w, r, s)
        PROVE Funded'
    BY <1>3, <1>m DEF ReceiveCallback, GotoWith, rows, Procs
  <1>4. ASSUME NEW w \in Workers, ReadSplit(w) PROVE Funded'
    <2>1. w \in Procs /\ pc[w] = "split" BY <1>4 DEF Procs, ReadSplit
    <2> DEFINE c == job[w].ref[1]
               online == Total[c] - WalletPart(c, job[w].method)
               j == [job[w] EXCEPT !.amount = online]
    <2>2. job[w].method = "online" => online = Total[c] /\ online # 0
      BY <1>t, <1>f, <2>1, SplitBounds, PaymentsAssumption
    <2>3. j.method = job[w].method /\ j.ref = job[w].ref /\ j.amount = online
      BY <1>t, <2>1 DEF Tasks
    <2>4. UNCHANGED <<order, intent, gateway, settled>> BY <1>4 DEF ReadSplit, rows
    <2>5. CASE Move(w, "finalize", j) /\ online = 0
      <3> HIDE DEF j, online
      <3> QED BY <2>1, <2>2, <2>3, <2>4, <2>5, FundedMove DEF Labels, Carrying
    <2>6. CASE Move(w, "create", j)
      <3> HIDE DEF j, online
      <3> QED BY <2>1, <2>2, <2>3, <2>4, <2>6, FundedMove DEF Labels, Carrying
    <2>7. CASE Finish(w) BY <2>1, <2>4, <2>7, <1>l, Leaving
    <2> QED BY <1>4, <2>5, <2>6, <2>7 DEF ReadSplit, GotoWith
  <1>5. ASSUME NEW w \in Workers, CreatePayment(w) PROVE Funded'
    <2>1. w \in Procs /\ pc[w] = "create" BY <1>5 DEF Procs, CreatePayment
    <2> DEFINE r == job[w].ref
    <2>2. CASE UNCHANGED gateway /\ (IntentReady(w) \/ Finish(w))
      <3>1. UNCHANGED <<order, intent, gateway, settled>>
        BY <1>5, <2>2 DEF CreatePayment, rows
      <3> QED BY <2>1, <2>2, <3>1, <1>m, <1>l, Leaving DEF IntentReady, GotoWith
    <2>3. CASE /\ intent[r] = NoRow
               /\ gateway[r] # NoRow => gateway[r].amount = job[w].amount
               /\ gateway' = IF gateway[r] # NoRow THEN gateway
                             ELSE [gateway EXCEPT ![r] =
                                      [status |-> "pending", amount |-> job[w].amount]]
               /\ Goto(w, "store") /\ UNCHANGED job
      <3>1. UNCHANGED <<order, intent, settled>> BY <1>5 DEF CreatePayment, rows
      <3>2. /\ pc'[w] = "store" /\ job'[w] = job[w]
            /\ \A v \in Procs \ {w} : pc'[v] = pc[v] /\ job'[v] = job[v]
        BY <2>1, <2>3, <1>f DEF Goto
      <3>3. /\ gateway'[r].amount = job[w].amount
            /\ \A q \in Refs : gateway[q] # NoRow => gateway'[q] = gateway[q]
        BY <2>1, <2>3, <1>f, <1>t
      <3>4. Claim(w) BY <2>1, <1>c
      <3>5. Claim(w)' BY <2>1, <3>2, <3>3, <3>4 DEF Claim, Carrying
      <3>6. \A q \in Refs : intent[q] # NoRow => gateway'[q].amount = gateway[q].amount
        BY <3>3 DEF TypeInv, RowsPresent
      <3> QED BY <2>1, <3>1, <3>2, <3>3, <3>5, <3>6, FundedRows
    <2> QED BY <1>5, <2>2, <2>3 DEF CreatePayment
  <1>6. ASSUME NEW w \in Workers, StoreIntent(w) PROVE Funded'
    <2>1. w \in Procs /\ pc[w] = "store" /\ job[w].ref \in Refs
      BY <1>6, <1>t DEF Procs, StoreIntent
    <2>2. UNCHANGED <<order, gateway, settled>> BY <1>6 DEF StoreIntent
    <2> DEFINE r == job[w].ref
    <2>3. CASE UNCHANGED intent
      BY <1>6, <2>1, <2>2, <2>3, <1>m, <1>l, Leaving DEF StoreIntent, IntentReady, GotoWith
    <2>4. CASE /\ intent[r] = NoRow
               /\ intent' = [intent EXCEPT ![r] = [status |-> "created",
                                method |-> job[w].method, amount |-> job[w].amount]]
               /\ IntentReady(w)
      <3>1. /\ pc'[w] \in {"idle", "callback"}
            /\ \A v \in Procs \ {w} : pc'[v] = pc[v] /\ job'[v] = job[v]
        BY <2>1, <2>4, <1>f DEF IntentReady, Finish, GotoWith, Move
      <3>2. Claim(w)' BY <3>1 DEF Claim, Carrying
      <3>3. intent'[r].method = "online" => gateway[r].amount = Total[r[1]]
        BY <2>1, <2>4, <1>c, <1>f DEF Claim
      <3>4. \A q \in Refs \ {r} : intent'[q] = intent[q] BY <2>4, <1>f
      <3> QED BY <2>1, <2>2, <2>4, <3>1, <3>2, <3>3, <3>4, FundedRows
    <2> QED BY <1>6, <2>3, <2>4 DEF StoreIntent
  <1>7. ASSUME NEW w \in Workers, ReadIntent(w) PROVE Funded'
    <2>1. w \in Procs /\ pc[w] = "callback" /\ job[w] \in Tasks
      BY <1>7, <1>t DEF Procs, ReadIntent
    <2>2. UNCHANGED <<order, intent, gateway, settled>> BY <1>7 DEF ReadIntent, rows
    <2> DEFINE j == [job[w] EXCEPT !.method = intent[job[w].ref].method]
    <2>3. j.ref = job[w].ref /\ j.method = intent[job[w].ref].method BY <2>1 DEF Tasks
    <2>4. CASE Move(w, "verify", j)
      <3> HIDE DEF j
      <3> QED BY <2>1, <2>2, <2>3, <2>4, FundedMove DEF Labels, Carrying
    <2>5. CASE Finish(w) BY <2>1, <2>2, <2>5, <1>l, Leaving
    <2> QED BY <1>7, <2>4, <2>5 DEF ReadIntent, GotoWith
  <1>8. ASSUME NEW w \in Workers, Verify(w) PROVE Funded'
    <2>1. w \in Procs /\ pc[w] = "verify" /\ job[w].ref \in Refs /\ gateway[job[w].ref] # NoRow
      BY <1>8, <1>t, <1>p DEF Procs, Verify, AfterStore
    <2>2. UNCHANGED <<order, intent>> BY <1>8 DEF Verify, rows
    <2>3. CASE UNCHANGED <<gateway, settled>> /\ Finish(w)
      BY <2>1, <2>2, <2>3, <1>l, Leaving
    <2>4. CASE /\ GatewayRecords(job[w].ref, job[w].status)
               /\ Goto(w, "record") /\ UNCHANGED job
      <3>1. /\ settled \subseteq settled' /\ settled' \subseteq settled \cup {job[w].ref}
            /\ \A q \in Refs : gateway[q] # NoRow
                  => gateway'[q] # NoRow /\ gateway'[q].amount = gateway[q].amount
        BY <2>1, <2>4, <1>f DEF GatewayRecords, NoRow
      <3>2. /\ pc'[w] = "record" /\ job'[w] = job[w]
            /\ \A v \in Procs \ {w} : pc'[v] = pc[v] /\ job'[v] = job[v]
        BY <2>1, <2>4, <1>f DEF Goto
      <3>3. Claim(w)' BY <2>1, <2>2, <3>2, <1>c DEF Claim, Carrying
      <3>4. \A q \in settled' \ settled : gateway'[q] # NoRow BY <2>1, <3>1
      <3>5. \A q \in Refs : intent[q] # NoRow => gateway'[q].amount = gateway[q].amount
        BY <3>1 DEF TypeInv, RowsPresent
      <3> QED BY <2>1, <2>2, <3>1, <3>2, <3>3, <3>4, <3>5, FundedRows
    <2> QED BY <1>8, <2>3, <2>4 DEF Verify
  <1>9. ASSUME NEW w \in Workers, CheckTransition(w) PROVE Funded'
    <2>1. w \in Procs /\ pc[w] = "record" BY <1>9 DEF Procs, CheckTransition
    <2>2. UNCHANGED <<order, intent, gateway, settled>> BY <1>9 DEF CheckTransition, rows
    <2>3. CASE Goto(w, "commit") /\ UNCHANGED job
      <3>1. Move(w, "commit", job[w]) BY <2>3, <1>f, <2>1 DEF Goto, Move
      <3> QED BY <2>1, <2>2, <3>1, <1>k DEF Carrying
    <2>4. CASE Finish(w) BY <2>1, <2>2, <2>4, <1>l, Leaving
    <2> QED BY <1>9, <2>3, <2>4 DEF CheckTransition
  \* Who writes a result to its intent goes on to finalize only a payment that is taken.
  <1>w. ASSUME NEW w \in Procs, pc[w] \in {"commit", "write"},
               UNCHANGED <<order, gateway, settled>>,
               \/ UNCHANGED intent
               \/ intent' = [intent EXCEPT ![job[w].ref].status = job[w].status],
               \/ Leaves(w)
               \/ Move(w, "finalize", job[w]) /\ job[w].status = "succeeded"
               \/ Move(w, "reopen", job[w])
        PROVE  Funded'
    <2>1. /\ job[w].ref \in Refs /\ intent[job[w].ref] # NoRow
          /\ job[w].method = intent[job[w].ref].method
          /\ job[w].status = "succeeded" => job[w].ref \in settled
      BY <1>w, <1>t, <1>p, <1>c DEF AfterStore, Carrying, Claim, Verified
    <2>2. \A q \in Refs : /\ intent[q] # NoRow => intent'[q].method = intent[q].method
                          /\ intent[q] = NoRow => intent'[q] = NoRow
      BY <1>w, <2>1, <1>f
    <2>3. /\ \/ pc'[w] \in {"idle", "next", "reopen"}
             \/ pc'[w] = "finalize" /\ job'[w] = job[w] /\ job[w].status = "succeeded"
          /\ \A v \in Procs \ {w} : pc'[v] = pc[v] /\ job'[v] = job[v]
      BY <1>w, <1>f DEF Leaves, Move
    <2>4. job[w].method = "online" => gateway[job[w].ref].amount = Total[job[w].ref[1]]
      BY <2>1 DEF Funded
    <2>5. Claim(w)' BY <1>w, <2>1, <2>3, <2>4 DEF Claim, Carrying
    <2> QED BY <1>w, <2>2, <2>3, <2>5, FundedRows
  <1>10. ASSUME NEW w \in Workers, CommitCallback(w) PROVE Funded'
    <2>1. w \in Procs /\ pc[w] = "commit" BY <1>10 DEF Procs, CommitCallback
    <2>2. /\ UNCHANGED <<order, gateway, settled>>
          /\ \/ UNCHANGED intent
             \/ intent' = [intent EXCEPT ![job[w].ref].status = job[w].status]
      BY <1>10 DEF CommitCallback
    <2>3. \/ Finish(w)
          \/ Goto(w, "finalize") /\ UNCHANGED job /\ job[w].status = "succeeded"
      BY <1>10 DEF CommitCallback
    <2>4. Goto(w, "finalize") /\ UNCHANGED job => Move(w, "finalize", job[w])
      BY <2>1, <1>f DEF Goto, Move
    <2> QED BY <2>1, <2>2, <2>3, <2>4, <1>w, Leaving
  <1>11. ASSUME NEW w \in Reconcilers, ListUnresolved(w) \/ TakeUp(w) PROVE Funded'
    <2>1. w \in Procs /\ UNCHANGED <<order, intent, gateway, settled>>
      BY <1>11 DEF ListUnresolved, TakeUp, rows, Procs
    <2>2. CASE ListUnresolved(w)
      <3>1. Move(w, "next", job[w]) BY <2>1, <2>2, <1>f DEF ListUnresolved, Move
      <3> QED BY <2>1, <3>1, <1>m
    <2>3. CASE TakeUp(w)
      <3>1. PICK r \in batch[w] : Move(w, "query", Task(r, intent[r].method, "pending", FALSE))
        BY <2>3 DEF TakeUp
      <3> DEFINE j == Task(r, intent[r].method, "pending", FALSE)
      <3>2. j.ref = r /\ j.method = intent[r].method BY DEF Task
      <3> HIDE DEF j
      <3> QED BY <2>1, <3>1, <3>2, FundedMove DEF Labels, Carrying, j
    <2> QED BY <1>11, <2>2, <2>3
  <1>12. ASSUME NEW w \in Reconcilers, QueryStatus(w) PROVE Funded'
    <2>1. w \in Procs /\ pc[w] = "query" /\ job[w] \in Tasks
      BY <1>12, <1>t DEF Procs, QueryStatus
    <2>2. UNCHANGED <<order, intent, gateway, settled>> BY <1>12 DEF QueryStatus, rows
    <2> DEFINE j == [job[w] EXCEPT !.status = gateway[job[w].ref].status]
    <2>3. j.ref = job[w].ref /\ j.method = job[w].method BY <2>1 DEF Tasks
    <2>4. CASE Move(w, "update", j)
      <3> HIDE DEF j
      <3> QED BY <2>1, <2>2, <2>3, <2>4, <1>k DEF Carrying
    <2>5. CASE Return(w) BY <2>1, <2>2, <2>5, <1>l, Leaving
    <2> QED BY <1>12, <2>4, <2>5 DEF QueryStatus, GotoWith
  <1>13. ASSUME NEW w \in Reconcilers, CheckUpdate(w) PROVE Funded'
    <2>1. w \in Procs /\ pc[w] = "update" BY <1>13 DEF Procs, CheckUpdate
    <2>2. UNCHANGED <<order, intent, gateway, settled>> BY <1>13 DEF CheckUpdate, rows
    <2>3. CASE Goto(w, "write") /\ UNCHANGED job
      <3>1. Move(w, "write", job[w]) BY <2>3, <1>f, <2>1 DEF Goto, Move
      <3> QED BY <2>1, <2>2, <3>1, <1>k DEF Carrying
    <2>4. CASE Finish(w) BY <2>1, <2>2, <2>4, <1>l, Leaving
    <2> QED BY <1>13, <2>3, <2>4 DEF CheckUpdate
  <1>14. ASSUME NEW w \in Reconcilers, WriteIntent(w) PROVE Funded'
    <2>1. w \in Procs /\ pc[w] = "write" BY <1>14 DEF Procs, WriteIntent
    <2>2. /\ UNCHANGED <<order, gateway, settled>>
          /\ intent' = [intent EXCEPT ![job[w].ref].status = job[w].status]
      BY <1>14 DEF WriteIntent
    <2>3. \/ Move(w, "finalize", job[w]) /\ job[w].status = "succeeded"
          \/ Move(w, "reopen", job[w])
      BY <1>14, <2>1, <1>f DEF WriteIntent, Goto, Move
    <2> QED BY <2>1, <2>2, <2>3, <1>w
  <1>15. ASSUME NEW w \in Reconcilers, ReopenCheckout(w) PROVE Funded'
    BY <1>15, <1>l, Leaving DEF ReopenCheckout, Procs
  <1>16. ASSUME NEW w \in Procs, Finalize(w) PROVE Funded'
    <2>1. pc[w] = "finalize" /\ Leaves(w) /\ UNCHANGED <<intent, gateway, settled>>
      BY <1>16, Leaving DEF Finalize
    <2> DEFINE c == job[w].ref[1]
               m == job[w].method
               row == [status |-> "paid", key |-> job[w].ref[2], method |-> m,
                       wallet |-> WalletPart(c, m),
                       online |-> Total[c] - WalletPart(c, m)]
    <2>2. CASE UNCHANGED order
      BY <2>1, <2>2, <1>l
    <2>3. CASE order' = [order EXCEPT ![c] = row]
      <3>1. row.online > 0 /\ m # "combined" => m = "online" /\ row.online = Total[c]
        <4>1. c \in Checkouts /\ m \in Methods BY <1>t, <2>1
        <4>2. m \in {"online", "wallet", "combined"} /\ Total[c] \in Nat
          BY <4>1, PaymentsAssumption
        <4>3. row.online = Total[c] - WalletPart(c, m) OBVIOUS
        <4> HIDE DEF row, c, m
        <4>4. /\ m = "online" => WalletPart(c, m) = 0
              /\ m = "wallet" => WalletPart(c, m) = Total[c]
          BY <4>1, <1>f, SplitBounds
        <4> QED BY <4>2, <4>3, <4>4
      <3>2. row.online > 0 /\ m # "combined" =>
              /\ <<c, row.key>> \in settled
              /\ gateway[<<c, row.key>>].amount = row.online
        BY <1>t, <1>c, <2>1, <3>1 DEF Claim
      <3>3. c \in Checkouts BY <1>t, <2>1
      <3>4. row.method = m OBVIOUS
      <3>5. OrderIsFunded'
        <4> HIDE DEF row, c, m
        <4>1. order'[c] = row /\ \A d \in Checkouts \ {c} : order'[d] = order[d]
          BY <2>3, <3>3, <1>f
        <4> QED BY <2>1, <3>2, <3>4, <4>1 DEF Funded, OrderIsFunded
      <3>6. \A v \in Procs : Claim(v)'
        <4>1. pc'[w] \in {"idle", "next"} /\ \A v \in Procs \ {w} : pc'[v] = pc[v] /\ job'[v] = job[v]
          BY <2>1, <1>f DEF Leaves, Move
        <4> QED BY <2>1, <4>1, <1>c DEF Claim, Carrying
      <3> QED BY <2>1, <3>5, <3>6 DEF Funded
    <2> QED BY <1>16, <2>2, <2>3 DEF Finalize
  <1>17. ASSUME NEW w \in Procs, Abandon(w) PROVE Funded'
    BY <1>17, <1>l, Leaving DEF Abandon, rows
  <1>18. CASE UNCHANGED vars
    BY <1>18 DEF vars, rows, Funded, OrderIsFunded, Claim
  <1> QED
    BY <1>1, <1>2, <1>3, <1>4, <1>5, <1>6, <1>7, <1>8, <1>9, <1>10, <1>11, <1>12,
       <1>13, <1>14, <1>15, <1>16, <1>17, <1>18
    DEF Next, RequestStep, ReconcileStep

\* Whatever methods are offered, no order that is not a combined payment carries an
\* online amount other than what the gateway has taken under the order's own key.  Of
\* combined payments this is false: run pay_charge shows the code breaking it.
THEOREM OrdersFunded == Spec => []OrderIsFunded
  <1>1. Spec => [](TypeInv /\ Verified /\ Funded)
    BY TypeReached, InitVerified, VerifiedStep, InitFunded, FundedStep,
       PTL DEF Spec
  <1>2. Funded => OrderIsFunded BY DEF Funded
  <1> QED BY <1>1, <1>2, PTL

-----------------------------------------------------------------------------
\* Only Finalize touches orders and the wallet, and only for an unpaid checkout.
LEMMA OnlyFinalizePays ==
    ASSUME TypeInv, [Next]_vars
    PROVE  \/ UNCHANGED <<order, balance>>
           \/ \E w \in Procs :
                 LET c == job[w].ref[1]
                     m == job[w].method
                 IN  /\ pc[w] = "finalize" /\ order[c] = NoRow /\ Affordable(c, m)
                     /\ order' = [order EXCEPT ![c] =
                           [status |-> "paid", key |-> job[w].ref[2], method |-> m,
                            wallet |-> WalletPart(c, m),
                            online |-> Total[c] - WalletPart(c, m)]]
                     /\ balance' = balance - WalletPart(c, m)
  <1>1. ASSUME NEW w \in Workers, RequestStep(w) PROVE UNCHANGED <<order, balance>>
    BY <1>1 DEF RequestStep, ReadSplit, CreatePayment, StoreIntent, ReadIntent,
                Verify, CheckTransition, CommitCallback, rows
  <1>2. ASSUME NEW w \in Reconcilers, ReconcileStep(w) PROVE UNCHANGED <<order, balance>>
    BY <1>2 DEF ReconcileStep, TakeUp, QueryStatus, CheckUpdate, WriteIntent,
                ReopenCheckout, rows
  <1>3. CASE \/ \E c \in Checkouts : Lapse(c)
             \/ \E w \in Workers, c \in Checkouts, k \in Keys, m \in Methods :
                   RequestIntent(w, c, k, m) \/ RequestPayment(w, c, k, m)
             \/ \E w \in Workers, r \in Refs, s \in Results : ReceiveCallback(w, r, s)
             \/ \E w \in Reconcilers : ListUnresolved(w)
             \/ \E w \in Procs : Abandon(w)
             \/ UNCHANGED vars
    BY <1>3 DEF Lapse, RequestIntent, RequestPayment, ReceiveCallback,
                ListUnresolved, Abandon, rows, vars
  <1>4. ASSUME NEW w \in Procs, Finalize(w)
        PROVE  \/ UNCHANGED <<order, balance>>
               \/ LET c == job[w].ref[1]
                      m == job[w].method
                  IN  /\ pc[w] = "finalize" /\ order[c] = NoRow /\ Affordable(c, m)
                      /\ order' = [order EXCEPT ![c] =
                            [status |-> "paid", key |-> job[w].ref[2], method |-> m,
                             wallet |-> WalletPart(c, m),
                             online |-> Total[c] - WalletPart(c, m)]]
                      /\ balance' = balance - WalletPart(c, m)
    BY <1>4 DEF Finalize, Finalizable
  <1> QED BY <1>1, <1>2, <1>3, <1>4 DEF Next

\* Once a checkout has its order, no interleaving of requests, callbacks and
\* reconciliation runs replaces the order or changes its payment.
THEOREM OrdersFinal == Spec => OrderIsFinal
  <1>1. ASSUME TypeInv, [Next]_vars
        PROVE  \A c \in Checkouts : order[c] # NoRow => order'[c] = order[c]
    <2>1. order \in [Checkouts -> {NoRow} \cup PaidRows]
      BY <1>1 DEF TypeInv, CoreOK
    <2> QED BY <1>1, <2>1, OnlyFinalizePays
  <1>2. TypeInv /\ [Next]_vars =>
           [\A c \in Checkouts : order[c] # NoRow => order'[c] = order[c]]_vars
    BY <1>1
  <1> QED BY <1>2, TypeReached, PTL DEF Spec, OrderIsFinal

\* Settlement is implemented: every step either leaves what customers are
\* charged alone or pays one unpaid checkout once, out of what the wallet holds.
THEOREM Implements == Spec => ImplementsSettlement
  <1>1. Init => Abstract!Init
    BY DEF Init, Abstract!Init, Paid, Abstract!Unpaid
  <1>2. ASSUME TypeInv, [Next]_vars
        PROVE  [Abstract!Next]_<<Paid, balance>>
    <2>f. /\ order \in [Checkouts -> {NoRow} \cup PaidRows]
          /\ balance \in Nat
      BY <1>2 DEF TypeInv, CoreOK
    <2>1. CASE UNCHANGED <<order, balance>>
      BY <2>1 DEF Paid
    <2>2. ASSUME NEW w \in Procs,
                 LET c == job[w].ref[1]
                     m == job[w].method
                 IN  /\ pc[w] = "finalize" /\ order[c] = NoRow /\ Affordable(c, m)
                     /\ order' = [order EXCEPT ![c] =
                           [status |-> "paid", key |-> job[w].ref[2], method |-> m,
                            wallet |-> WalletPart(c, m),
                            online |-> Total[c] - WalletPart(c, m)]]
                     /\ balance' = balance - WalletPart(c, m)
          PROVE  Abstract!Next
      <3> DEFINE c == job[w].ref[1]
                 m == job[w].method
                 p == WalletPart(c, m)
                 row == [status |-> "paid", key |-> job[w].ref[2], method |-> m,
                         wallet |-> p, online |-> Total[c] - p]
      <3>1. c \in Checkouts /\ m \in Methods
        BY <1>2, <2>2, TaskParts DEF TypeInv, CoreOK
      <3>2. p \in 0 .. Total[c] /\ p <= balance
        BY <2>2, <2>f, <3>1, SplitBounds
      <3>3. Paid[c] = Abstract!Unpaid
        BY <2>2, <3>1 DEF Paid, Abstract!Unpaid
      <3>4. row # NoRow BY DEF NoRow
      <3>5. Paid' = [Paid EXCEPT ![c] = [wallet |-> p, online |-> Total[c] - p]]
        BY <2>2, <2>f, <3>1, <3>4 DEF Paid
      <3>6. balance' = balance - p BY <2>2
      <3> QED BY <3>1, <3>2, <3>3, <3>5, <3>6 DEF Abstract!Next, Abstract!Pay
    <2> QED BY <1>2, <2>1, <2>2, OnlyFinalizePays
  <1> QED BY <1>1, <1>2, TypeReached, PTL
          DEF Spec, ImplementsSettlement, Abstract!Spec

-----------------------------------------------------------------------------
(* The wallet *)

\* A debit takes as many toman as the order says, for any price.
LEMMA DebitSize ==
    ASSUME NEW c, NEW n \in Nat
    PROVE  IsFiniteSet({c} \X (1 .. n)) /\ Cardinality({c} \X (1 .. n)) = n
  <1> DEFINE A == {c}
             B == 1 .. n
  <1>s. IsFiniteSet(A) /\ Cardinality(A) = 1 BY FS_Singleton
  <1>i. IsFiniteSet(B) /\ Cardinality(B) = n BY FS_Interval
  <1> HIDE DEF A, B
  <1>2. IsFiniteSet(A \X B) /\ Cardinality(A \X B) = Cardinality(A) * Cardinality(B)
    BY <1>s, <1>i, FS_Product
  <1>3. Cardinality(A \X B) = n BY <1>s, <1>i, <1>2
  <1> QED BY <1>2, <1>3 DEF A, B

\* Sets of different orders have no debit in common, so sizes add.
LEMMA DisjointSizes ==
    ASSUME NEW S, NEW T, IsFiniteSet(S), IsFiniteSet(T), S \cap T = {}
    PROVE  /\ IsFiniteSet(S \cup T)
           /\ Cardinality(S) \in Nat /\ Cardinality(T) \in Nat
           /\ Cardinality(S \cup T) = Cardinality(S) + Cardinality(T)
  <1>1. /\ IsFiniteSet(S \cup T)
        /\ Cardinality(S \cup T) = Cardinality(S) + Cardinality(T) - Cardinality(S \cap T)
    BY FS_Union
  <1>2. Cardinality(S \cap T) = 0 BY FS_EmptySet
  <1>3. Cardinality(S) \in Nat /\ Cardinality(T) \in Nat BY FS_CardinalityType
  <1> QED BY <1>1, <1>2, <1>3

Debits == UNION {Debit(c) : c \in Checkouts}

\* Only finitely many toman have been taken, or they could not be counted.
WalletInv ==
    /\ IsFiniteSet(Debits)
    /\ balance + Cardinality(Debits) = InitialBalance

LEMMA InitWallet == Init => WalletInv
  <1> SUFFICES ASSUME Init PROVE WalletInv OBVIOUS
  <1>1. \A c \in Checkouts : order[c] = NoRow BY DEF Init
  <1>2. Debits = {} BY <1>1 DEF Debits, Debit
  <1> QED BY <1>2, FS_EmptySet, PaymentsAssumption DEF Init, WalletInv

\* A step that touches orders or wallet pays one unpaid checkout out of the wallet.
LEMMA PaysOne ==
    ASSUME TypeInv, [Next]_vars
    PROVE  \/ UNCHANGED <<order, balance>>
           \/ \E c \in Checkouts, k \in Keys, m \in Methods, p \in Nat :
                 /\ order[c] = NoRow /\ p <= balance /\ balance' = balance - p
                 /\ order' = [order EXCEPT ![c] =
                       [status |-> "paid", key |-> k, method |-> m, wallet |-> p,
                        online |-> Total[c] - p]]
  <1>1. ASSUME NEW w \in Procs, pc[w] = "finalize"
        PROVE  /\ job[w].ref[1] \in Checkouts /\ job[w].ref[2] \in Keys
               /\ job[w].method \in Methods
    BY <1>1, TaskParts DEF TypeInv, CoreOK
  <1>2. ASSUME NEW c \in Checkouts, NEW m \in Methods, Affordable(c, m)
        PROVE  WalletPart(c, m) \in Nat /\ WalletPart(c, m) <= balance
    BY <1>2, SplitBounds, PaymentsAssumption DEF TypeInv, CoreOK
  <1>3. ASSUME NEW w \in Procs, pc[w] = "finalize",
               NEW c, c = job[w].ref[1], NEW m, m = job[w].method,
               order[c] = NoRow, Affordable(c, m),
               order' = [order EXCEPT ![c] =
                  [status |-> "paid", key |-> job[w].ref[2], method |-> m,
                   wallet |-> WalletPart(c, m), online |-> Total[c] - WalletPart(c, m)]],
               balance' = balance - WalletPart(c, m)
        PROVE  \E d \in Checkouts, k \in Keys, n \in Methods, p \in Nat :
                 /\ order[d] = NoRow /\ p <= balance /\ balance' = balance - p
                 /\ order' = [order EXCEPT ![d] =
                       [status |-> "paid", key |-> k, method |-> n, wallet |-> p,
                        online |-> Total[d] - p]]
    <2>1. c \in Checkouts /\ job[w].ref[2] \in Keys /\ m \in Methods
      BY <1>1, <1>3
    <2>2. WalletPart(c, m) \in Nat /\ WalletPart(c, m) <= balance
      BY <1>2, <1>3, <2>1
    <2> QED BY <1>3, <2>1, <2>2
  <1> QED BY <1>3, OnlyFinalizePays

LEMMA WalletStep == TypeInv /\ WalletInv /\ [Next]_vars => WalletInv'
  <1> SUFFICES ASSUME TypeInv, WalletInv, [Next]_vars PROVE WalletInv' OBVIOUS
  <1>f. /\ order \in [Checkouts -> {NoRow} \cup PaidRows]
        /\ balance \in Nat
    BY DEF TypeInv, CoreOK
  <1>1. CASE UNCHANGED <<order, balance>>
    BY <1>1 DEF WalletInv, Debits, Debit
  <1>2. ASSUME NEW c \in Checkouts, NEW k \in Keys, NEW m \in Methods, NEW p \in Nat,
               order[c] = NoRow, p <= balance, balance' = balance - p,
               order' = [order EXCEPT ![c] =
                  [status |-> "paid", key |-> k, method |-> m, wallet |-> p,
                   online |-> Total[c] - p]]
        PROVE  WalletInv'
    <2> DEFINE D == {c} \X (1 .. p)
    <2>1. order'[c] # NoRow /\ order'[c].wallet = p BY <1>2, <1>f DEF NoRow
    <2>2. Debit(c) = {} BY <1>2 DEF Debit
    <2>3. Debit(c)' = D BY <2>1 DEF Debit
    <2>4. \A d \in Checkouts \ {c} : Debit(d)' = Debit(d)
      BY <1>2, <1>f DEF Debit
    <2>5. Debits' = Debits \cup D
      <3> HIDE DEF D
      <3> QED BY <2>2, <2>3, <2>4 DEF Debits
    <2>6. Debits \cap D = {}
      <3>1. \A t \in D : t[1] = c OBVIOUS
      <3>2. \A d \in Checkouts : \A t \in Debit(d) : t[1] = d BY DEF Debit
      <3>3. \A t \in Debits : t[1] # c BY <2>2, <3>2 DEF Debits
      <3> QED BY <3>1, <3>3
    <2>7. IsFiniteSet(D) /\ Cardinality(D) = p BY DebitSize
    <2> HIDE DEF D
    <2>8. /\ IsFiniteSet(Debits') /\ Cardinality(Debits) \in Nat
          /\ Cardinality(Debits') = Cardinality(Debits) + p
      BY <2>5, <2>6, <2>7, DisjointSizes DEF WalletInv
    <2> QED BY <1>2, <1>f, <2>8 DEF WalletInv
  <1> QED BY <1>1, <1>2, PaysOne

\* However many requests, callbacks and runs race for however many checkouts, what
\* left the wallet is what its orders say, and the wallet is never overdrawn.
THEOREM WalletBalances == Spec => []WalletAddsUp
  <1>1. TypeInv /\ WalletInv => WalletAddsUp
    BY DEF TypeInv, CoreOK, WalletInv, WalletAddsUp, Debits
  <1> QED BY <1>1, TypeReached, InitWallet, WalletStep, PTL DEF Spec

-----------------------------------------------------------------------------
(* Checkouts *)

\* Every step but Finalize leaves orders alone and completes no checkout.
LEMMA CheckoutStep ==
    ASSUME TypeInv, CompletedHasOrder, [Next]_vars
    PROVE  CompletedHasOrder'
  <1>f. /\ checkout \in [Checkouts -> CheckoutStates]
        /\ order \in [Checkouts -> {NoRow} \cup PaidRows]
    BY DEF TypeInv, CoreOK
  <1>t. \A w \in Procs : pc[w] \notin {"idle", "next"} => job[w].ref[1] \in Checkouts
    BY TaskParts DEF TypeInv, CoreOK
  <1>m. ASSUME UNCHANGED order, NEW c \in Checkouts, NEW s, s # "completed",
               checkout' = [checkout EXCEPT ![c] = s]
        PROVE  CompletedHasOrder'
    BY <1>m, <1>f DEF CompletedHasOrder
  <1>1. CASE UNCHANGED <<checkout, order>>
    BY <1>1 DEF CompletedHasOrder
  <1>2. ASSUME NEW w \in Workers, StoreIntent(w) PROVE CompletedHasOrder'
    <2>1. pc[w] = "store" /\ w \in Procs /\ UNCHANGED order
      BY <1>2 DEF StoreIntent, Procs
    <2>2. \/ UNCHANGED checkout
          \/ checkout' = [checkout EXCEPT ![job[w].ref[1]] = "payment_pending"]
      BY <1>2 DEF StoreIntent
    <2> QED BY <2>1, <2>2, <1>1, <1>m, <1>t
  <1>3. ASSUME NEW w \in Workers, CommitCallback(w) PROVE CompletedHasOrder'
    <2>1. pc[w] = "commit" /\ w \in Procs /\ UNCHANGED order
      BY <1>3 DEF CommitCallback, Procs
    <2>2. \/ UNCHANGED checkout
          \/ checkout' = [checkout EXCEPT ![job[w].ref[1]] = CallbackOutcome(job[w].status)]
      BY <1>3 DEF CommitCallback
    <2>3. CallbackOutcome(job[w].status) # "completed" BY DEF CallbackOutcome
    <2> QED BY <2>1, <2>2, <2>3, <1>1, <1>m, <1>t
  <1>4. ASSUME NEW w \in Reconcilers, ReopenCheckout(w) PROVE CompletedHasOrder'
    <2>1. /\ pc[w] = "reopen" /\ w \in Procs /\ UNCHANGED order
          /\ checkout' = [checkout EXCEPT ![job[w].ref[1]] = "ready_for_payment"]
      BY <1>4 DEF ReopenCheckout, Procs
    <2> QED BY <2>1, <1>m, <1>t
  <1>5. ASSUME NEW w \in Procs, Finalize(w) PROVE CompletedHasOrder'
    <2>1. pc[w] = "finalize" BY <1>5 DEF Finalize
    <2>2. PICK c \in Checkouts : c = job[w].ref[1] BY <2>1, <1>t
    <2>3. \/ UNCHANGED <<checkout, order>>
          \/ /\ checkout' = [checkout EXCEPT ![c] = "completed"]
             /\ \E k, l, n, m : order' = [order EXCEPT ![c] =
                   [status |-> "paid", key |-> k, method |-> l, wallet |-> n, online |-> m]]
      <3>1. CASE UNCHANGED <<checkout, order>> BY <3>1
      <3>2. CASE /\ checkout' = [checkout EXCEPT ![job[w].ref[1]] = "completed"]
                 /\ order' = [order EXCEPT ![job[w].ref[1]] =
                      [status |-> "paid", key |-> job[w].ref[2], method |-> job[w].method,
                       wallet |-> WalletPart(job[w].ref[1], job[w].method),
                       online |-> Total[job[w].ref[1]] - WalletPart(job[w].ref[1], job[w].method)]]
        BY <2>2, <3>2
      <3> QED BY <1>5, <3>1, <3>2 DEF Finalize
    <2>4. \A k, l, n, m : [status |-> "paid", key |-> k, method |-> l, wallet |-> n,
                            online |-> m] # NoRow
      BY DEF NoRow
    <2> QED BY <2>3, <2>4, <1>1, <1>f DEF CompletedHasOrder
  <1>6. ASSUME NEW w \in Workers, RequestStep(w) PROVE CompletedHasOrder'
    BY <1>1, <1>2, <1>3, <1>6
    DEF RequestStep, ReadSplit, CreatePayment, ReadIntent, Verify, CheckTransition, rows
  <1>7. ASSUME NEW w \in Reconcilers, ReconcileStep(w) PROVE CompletedHasOrder'
    BY <1>1, <1>4, <1>7 DEF ReconcileStep, TakeUp, QueryStatus, CheckUpdate, WriteIntent, rows
  <1>8. CASE \/ \E c \in Checkouts : Lapse(c)
             \/ \E w \in Workers, c \in Checkouts, k \in Keys, m \in Methods :
                   RequestIntent(w, c, k, m) \/ RequestPayment(w, c, k, m)
             \/ \E w \in Workers, r \in Refs, s \in Results : ReceiveCallback(w, r, s)
             \/ \E w \in Reconcilers : ListUnresolved(w)
             \/ \E w \in Procs : Abandon(w)
             \/ UNCHANGED vars
    <2>1. UNCHANGED <<checkout, order>>
      BY <1>8 DEF Lapse, RequestIntent, RequestPayment, ReceiveCallback,
                  ListUnresolved, Abandon, rows, vars
    <2> QED BY <2>1, <1>1
  <1> QED BY <1>5, <1>6, <1>7, <1>8 DEF Next

\* Only the transaction that writes the order completes its checkout, whoever else
\* writes the checkout's status on a read from before it.
THEOREM CompletedMeansOrder == Spec => []CompletedHasOrder
  <1>1. Init => CompletedHasOrder BY DEF Init, CompletedHasOrder
  <1>2. TypeInv /\ CompletedHasOrder /\ [Next]_vars => CompletedHasOrder'
    BY CheckoutStep
  <1> QED BY <1>1, <1>2, TypeReached, PTL DEF Spec

-----------------------------------------------------------------------------
(* Callbacks beside reconciliation runs *)

\* Steps that carry a result the gateway has given.
Deciding == {"record", "commit", "update", "write"}

\* Why runs and callbacks agree as long as the gateway has taken no money: its first
\* answer then is its only one, and whoever is about to write carries it.
AgreeInv ==
    \A r \in Refs \ settled :
        /\ intent[r] # NoRow =>
              \/ intent[r].status = "created"
              \/ intent[r].status = gateway[r].status /\ gateway[r].status \in Results
        /\ callback[r] # NoRow =>
              /\ intent[r] # NoRow /\ intent[r].status = callback[r].status
              /\ gateway[r].status = callback[r].status
        /\ \A w \in Procs : pc[w] \in Deciding /\ job[w].ref = r
              => job[w].status = gateway[r].status /\ job[w].status \in Results

LEMMA InitAgree == Init => AgreeInv
  BY DEF Init, AgreeInv, NoRow, Procs, Deciding

\* A process moves on with the gateway's answer, or with none.
LEMMA AgreeMove ==
    ASSUME TypeInv, AgreeInv, NEW w \in Procs, NEW l \in Labels, NEW j, Move(w, l, j),
           UNCHANGED <<intent, callback, gateway, settled>>,
           l \in Deciding => \/ j.ref \in settled
                             \/ j.status = gateway[j.ref].status /\ j.status \in Results
    PROVE  AgreeInv'
  <1>1. \A v \in Procs : pc'[v] = (IF v = w THEN l ELSE pc[v])
                        /\ job'[v] = (IF v = w THEN j ELSE job[v])
    BY DEF GotoWith, Goto, Move, TypeInv, CoreOK
  <1> QED BY <1>1 DEF AgreeInv

\* A process writes the gateway's answer to its intent, alone or with the callback row.
LEMMA AgreeWrite ==
    ASSUME TypeInv, AgreeInv, NEW w \in Procs, NEW r \in Refs, NEW s,
           pc[w] \in Deciding, job[w].ref = r, job[w].status = s, pc'[w] \notin Deciding,
           \A v \in Procs \ {w} : pc'[v] = pc[v] /\ job'[v] = job[v],
           intent[r] # NoRow, intent' = [intent EXCEPT ![r].status = s],
           \/ callback' = callback
           \/ callback' = [callback EXCEPT ![r] = [status |-> s]],
           UNCHANGED <<gateway, settled>>
    PROVE  AgreeInv'
  <1>f. /\ intent \in [Refs -> {NoRow} \cup IntentRows]
        /\ callback \in [Refs -> {NoRow} \cup [status : Results]]
    BY DEF TypeInv, CoreOK
  <1>1. /\ intent'[r] # NoRow /\ intent'[r].status = s
        /\ \A q \in Refs \ {r} : intent'[q] = intent[q] /\ callback'[q] = callback[q]
        /\ callback'[r] = callback[r] \/ callback'[r].status = s
    BY <1>f DEF NoRow
  <1>2. r \notin settled => s = gateway[r].status /\ s \in Results
    BY DEF AgreeInv
  <1> QED BY <1>1, <1>2 DEF AgreeInv

LEMMA AgreeStep == TypeInv /\ Verified /\ AgreeInv /\ [Next]_vars => AgreeInv'
  <1> SUFFICES ASSUME TypeInv, Verified, AgreeInv, [Next]_vars PROVE AgreeInv' OBVIOUS
  <1>t. \A w \in Procs : pc[w] \notin {"idle", "next"} => job[w] \in Tasks /\ job[w].ref \in Refs
    BY TaskParts DEF TypeInv, CoreOK
  <1>f. /\ intent \in [Refs -> {NoRow} \cup IntentRows]
        /\ callback \in [Refs -> {NoRow} \cup [status : Results]]
        /\ gateway \in [Refs -> {NoRow} \cup GatewayRows]
        /\ pc \in [Procs -> Labels] /\ job \in [Procs -> Tasks \cup {NoJob}]
    BY DEF TypeInv, CoreOK
  <1>p. \A w \in Procs : pc[w] \in AfterStore => intent[job[w].ref] # NoRow
    BY DEF TypeInv, RowsPresent
  <1>m. ASSUME NEW w \in Procs, NEW l \in Labels, NEW j, Move(w, l, j), l \notin Deciding,
               UNCHANGED <<intent, callback, gateway, settled>>
        PROVE  AgreeInv'
    BY <1>m, AgreeMove
  <1>l. ASSUME NEW w \in Procs, Leaves(w), UNCHANGED <<intent, callback, gateway, settled>>
        PROVE  AgreeInv'
    BY <1>l, <1>m DEF Leaves, Labels, Deciding
  \* The handler checks its transition: it keeps its answer or ends.
  <1>k. ASSUME NEW w \in Procs, pc[w] \in Deciding, NEW l \in Deciding,
               \/ Goto(w, l) /\ UNCHANGED job
               \/ Finish(w),
               UNCHANGED <<rows, gateway, settled>>
        PROVE  AgreeInv'
    <2>1. CASE Goto(w, l) /\ UNCHANGED job
      <3>1. Move(w, l, job[w]) BY <2>1, <1>f DEF Goto, Move
      <3>2. \/ job[w].ref \in settled
            \/ job[w].status = gateway[job[w].ref].status /\ job[w].status \in Results
        BY <1>k, <1>t DEF AgreeInv, Deciding
      <3> QED BY <1>k, <3>1, <3>2, AgreeMove DEF rows, Deciding, Labels
    <2>2. CASE Finish(w)
      BY <1>k, <2>2, <1>m, <1>l, Leaving DEF rows, Deciding, Labels
    <2> QED BY <1>k, <2>1, <2>2
  <1>1. ASSUME NEW c \in Checkouts, Lapse(c) PROVE AgreeInv'
    BY <1>1 DEF Lapse, AgreeInv
  <1>2. ASSUME NEW w \in Workers, NEW c \in Checkouts, NEW k \in Keys,
               NEW m \in Methods, RequestIntent(w, c, k, m) \/ RequestPayment(w, c, k, m)
        PROVE AgreeInv'
    BY <1>2, <1>m DEF RequestIntent, RequestPayment, GotoWith, rows, Procs, Labels, Deciding
  <1>3. ASSUME NEW w \in Workers, NEW r \in Refs, NEW s \in Results,
               ReceiveCallback(w, r, s)
        PROVE AgreeInv'
    BY <1>3, <1>m DEF ReceiveCallback, GotoWith, rows, Procs, Labels, Deciding
  <1>4. ASSUME NEW w \in Workers, ReadSplit(w) \/ ReadIntent(w) PROVE AgreeInv'
    <2>1. PICK l \in {"finalize", "create", "verify", "idle"}, j \in {job'[w]} :
             Move(w, l, j) /\ UNCHANGED <<rows, gateway, settled>>
      BY <1>4, <1>f DEF ReadSplit, ReadIntent, Finish, GotoWith, Move, Procs
    <2> QED BY <2>1, <1>m DEF rows, Procs, Labels, Deciding
  <1>5. ASSUME NEW w \in Workers, CreatePayment(w) PROVE AgreeInv'
    <2>1. w \in Procs /\ pc[w] = "create" /\ job[w].ref \in Refs
      BY <1>5, <1>t DEF Procs, CreatePayment
    <2>2. UNCHANGED <<intent, callback, settled>>
      BY <1>5 DEF CreatePayment, rows
    <2>3. \A r \in Refs : intent[r] # NoRow => gateway'[r] = gateway[r]
      BY <1>5, <1>f, <2>1 DEF CreatePayment
    <2>4. pc'[w] \notin Deciding
      BY <1>5, <1>f, <2>1 DEF CreatePayment, IntentReady, Finish, Return, GotoWith, Goto, Move, Deciding
    <2>5. \A v \in Procs : v # w => pc'[v] = pc[v] /\ job'[v] = job[v]
      BY <1>5, <1>f, <2>1 DEF CreatePayment, IntentReady, Finish, Return, GotoWith, Goto, Move
    <2>6. \A v \in Procs : pc[v] \in Deciding => intent[job[v].ref] # NoRow
      BY <1>p DEF AfterStore, Deciding
    <2> QED BY <2>1, <2>2, <2>3, <2>4, <2>5, <2>6 DEF AgreeInv
  <1>6. ASSUME NEW w \in Workers, StoreIntent(w) PROVE AgreeInv'
    <2>1. w \in Procs /\ pc[w] = "store" /\ job[w].ref \in Refs
      BY <1>6, <1>t DEF Procs, StoreIntent
    <2>2. UNCHANGED <<gateway, callback, settled>>
      BY <1>6 DEF StoreIntent
    <2>3. \A r \in Refs : \/ intent'[r] = intent[r]
                          \/ intent[r] = NoRow /\ intent'[r].status = "created"
      BY <1>6, <1>f, <2>1 DEF StoreIntent
    <2>4. pc'[w] \notin Deciding
      BY <1>6, <1>f, <2>1 DEF StoreIntent, IntentReady, Finish, Return, GotoWith, Goto, Move, Deciding
    <2>5. \A v \in Procs : v # w => pc'[v] = pc[v] /\ job'[v] = job[v]
      BY <1>6, <1>f, <2>1 DEF StoreIntent, IntentReady, Finish, Return, GotoWith, Goto, Move
    <2> QED BY <2>1, <2>2, <2>3, <2>4, <2>5 DEF AgreeInv
  <1>7. ASSUME NEW w \in Workers, Verify(w) PROVE AgreeInv'
    <2>1. /\ w \in Procs /\ pc[w] = "verify" /\ job[w].ref \in Refs
          /\ job[w].status \in Results
      BY <1>7, <1>t DEF Procs, Verify, TypeInv, RowsPresent
    <2>2. PICK r \in Refs, s \in Results : r = job[w].ref /\ s = job[w].status BY <2>1
    <2>3. gateway[r] # NoRow /\ intent[r] # NoRow
      BY <1>p, <2>1, <2>2 DEF TypeInv, RowsPresent, AfterStore
    <2>4. CASE GatewayAccepts(r, s)
      <3>1. /\ UNCHANGED <<intent, callback, job>>
            /\ gateway'[r].status = s
            /\ \A q \in Refs \ {r} : gateway'[q] = gateway[q]
            /\ pc'[w] = "record" /\ \A v \in Procs \ {w} : pc'[v] = pc[v]
            /\ settled \subseteq settled' /\ (s = "succeeded" => r \in settled')
        BY <1>7, <1>f, <2>1, <2>2, <2>3, <2>4 DEF Verify, GatewayRecords, Goto, rows
      <3>2. r \notin settled' => gateway[r].status \in {"pending", s}
        <4>1. r \notin settled' => gateway[r].status # "succeeded"
          BY <3>1 DEF Verified
        <4>2. gateway[r].status \in Results \cup {"pending"} BY <1>f, <2>3
        <4> QED BY <2>4, <4>1, <4>2 DEF GatewayAccepts, Results
      <3>3. "pending" \notin Results BY DEF Results
      <3>4. callback[r] # NoRow => callback[r].status \in Results BY <1>f
      <3> QED BY <2>1, <2>2, <3>1, <3>2, <3>3, <3>4 DEF AgreeInv
    <2>5. CASE ~ GatewayAccepts(r, s)
      BY <1>7, <1>m, <1>l, Leaving, <2>1, <2>2, <2>5 DEF Verify, rows, Labels, Deciding
    <2> QED BY <2>4, <2>5
  <1>8. ASSUME NEW w \in Workers, CheckTransition(w) PROVE AgreeInv'
    <2>1. w \in Procs /\ pc[w] \in Deciding /\ "commit" \in Deciding
      BY <1>8 DEF CheckTransition, Procs, Deciding
    <2>2. (Goto(w, "commit") /\ UNCHANGED job) \/ Finish(w)
      BY <1>8 DEF CheckTransition
    <2>3. UNCHANGED <<rows, gateway, settled>> BY <1>8 DEF CheckTransition
    <2> QED BY <2>1, <2>2, <2>3, <1>k
  <1>9. ASSUME NEW w \in Workers, CommitCallback(w) PROVE AgreeInv'
    <2>1. /\ w \in Procs /\ pc[w] = "commit" /\ job[w].ref \in Refs
          /\ intent[job[w].ref] # NoRow
      BY <1>9, <1>t, <1>p DEF Procs, CommitCallback, AfterStore
    <2>2. /\ pc'[w] \notin Deciding
          /\ \A v \in Procs \ {w} : pc'[v] = pc[v] /\ job'[v] = job[v]
      BY <1>9, <1>f, <2>1 DEF CommitCallback, Finish, Return, GotoWith, Goto, Move, Deciding
    <2>3. UNCHANGED <<gateway, settled>> BY <1>9 DEF CommitCallback
    <2>4. CASE FirstCallback(job[w].ref)
      BY <1>9, <2>1, <2>2, <2>3, <2>4, AgreeWrite DEF CommitCallback, Deciding
    <2>5. CASE ~ FirstCallback(job[w].ref)
      <3>1. UNCHANGED <<intent, callback>> BY <1>9, <2>5 DEF CommitCallback
      <3> QED BY <2>2, <2>3, <3>1 DEF AgreeInv
    <2> QED BY <2>4, <2>5
  <1>10. ASSUME NEW w \in Reconcilers, ListUnresolved(w) \/ TakeUp(w) PROVE AgreeInv'
    <2>1. w \in Procs /\ UNCHANGED <<intent, callback, gateway, settled>>
      BY <1>10 DEF ListUnresolved, TakeUp, rows, Procs
    <2>2. CASE ListUnresolved(w)
      <3>1. Move(w, "next", job[w]) BY <2>1, <2>2, <1>f DEF ListUnresolved, Move
      <3> QED BY <2>1, <3>1, <1>m DEF Labels, Deciding
    <2>3. CASE TakeUp(w)
      BY <2>1, <2>3, <1>m DEF TakeUp, Labels, Deciding
    <2> QED BY <1>10, <2>2, <2>3
  <1>11. ASSUME NEW w \in Reconcilers, QueryStatus(w) PROVE AgreeInv'
    <2>1. w \in Procs /\ pc[w] = "query" /\ job[w] \in Tasks /\ job[w].ref \in Refs
      BY <1>11, <1>t DEF Procs, QueryStatus
    <2> DEFINE s == gateway[job[w].ref].status
               j == [job[w] EXCEPT !.status = s]
    <2>2. j.ref = job[w].ref /\ j.status = s
      BY <2>1 DEF Tasks
    <2>3. CASE Move(w, "update", j) /\ s \in Results /\ UNCHANGED <<rows, gateway, settled>>
      BY <2>1, <2>2, <2>3, AgreeMove DEF rows, Labels
    <2>4. CASE Return(w) /\ UNCHANGED <<rows, gateway, settled>>
      BY <2>1, <2>4, <1>m, <1>l, Leaving DEF rows, Labels, Deciding
    <2>5. "succeeded" \in Results BY DEF Results
    <2> QED BY <1>11, <2>3, <2>4, <2>5 DEF QueryStatus, GotoWith
  <1>12. ASSUME NEW w \in Reconcilers, CheckUpdate(w) PROVE AgreeInv'
    <2>1. w \in Procs /\ pc[w] \in Deciding /\ "write" \in Deciding
      BY <1>12 DEF CheckUpdate, Procs, Deciding
    <2>2. (Goto(w, "write") /\ UNCHANGED job) \/ Finish(w)
      BY <1>12 DEF CheckUpdate
    <2>3. UNCHANGED <<rows, gateway, settled>> BY <1>12 DEF CheckUpdate
    <2> QED BY <2>1, <2>2, <2>3, <1>k
  <1>13. ASSUME NEW w \in Reconcilers, WriteIntent(w) PROVE AgreeInv'
    <2>1. /\ w \in Procs /\ pc[w] = "write" /\ job[w].ref \in Refs
          /\ intent[job[w].ref] # NoRow
      BY <1>13, <1>t, <1>p DEF Procs, WriteIntent, AfterStore
    <2>2. /\ pc'[w] \notin Deciding
          /\ \A v \in Procs \ {w} : pc'[v] = pc[v] /\ job'[v] = job[v]
      BY <1>13, <1>f, <2>1 DEF WriteIntent, Goto, Deciding
    <2>3. /\ intent' = [intent EXCEPT ![job[w].ref].status = job[w].status]
          /\ UNCHANGED <<callback, gateway, settled>>
      BY <1>13 DEF WriteIntent
    <2>4. pc[w] \in Deciding BY <2>1 DEF Deciding
    <2> QED BY <2>1, <2>2, <2>3, <2>4, AgreeWrite
  <1>14. ASSUME NEW w \in Reconcilers, ReopenCheckout(w) PROVE AgreeInv'
    BY <1>14, <1>m, <1>l, Leaving DEF ReopenCheckout, Procs, Labels, Deciding
  <1>15. ASSUME NEW w \in Procs, Finalize(w) \/ Abandon(w) PROVE AgreeInv'
    BY <1>15, <1>m, <1>l, Leaving DEF Finalize, Abandon, rows, Labels, Deciding
  <1>16. CASE UNCHANGED vars
    BY <1>16 DEF vars, rows, AgreeInv
  <1> QED
    BY <1>1, <1>2, <1>3, <1>4, <1>5, <1>6, <1>7, <1>8, <1>9, <1>10, <1>11, <1>12,
       <1>13, <1>14, <1>15, <1>16
    DEF Next, RequestStep, ReconcileStep

\* Callbacks and reconciliation runs on stale reads make a callback row and its intent
\* contradict each other only for a payment whose money the gateway has taken.
THEOREM UnsettledAgree == Spec => []CallbackDecides
  <1>1. AgreeInv => CallbackDecides BY DEF AgreeInv, CallbackDecides
  <1> QED BY <1>1, TypeReached, InitVerified, VerifiedStep, InitAgree, AgreeStep, PTL
          DEF Spec

\* They move an intent outside of its table only for such a payment, although the
\* run checks the move on one read and writes it by id later.
THEOREM UnsettledFollowTable == Spec => IntentFollowsTable
  <1>1. ASSUME TypeInv, AgreeInv, AgreeInv', [Next]_vars, NEW r \in Refs \ settled,
               intent[r] # NoRow
        PROVE  Allowed(IntentMoves, intent[r].status, intent'[r].status)
    <2>1. ASSUME NEW w \in Procs, pc[w] \in Deciding, intent[job[w].ref] # NoRow,
                 intent' = [intent EXCEPT ![job[w].ref].status = job[w].status]
          PROVE  Allowed(IntentMoves, intent[r].status, intent'[r].status)
      <3>f. intent \in [Refs -> {NoRow} \cup IntentRows]
        BY <1>1 DEF TypeInv, CoreOK
      <3>1. CASE job[w].ref # r
        BY <2>1, <3>1, <3>f DEF Allowed
      <3>2. CASE job[w].ref = r
        <4>1. intent'[r].status = job[w].status BY <1>1, <2>1, <3>2, <3>f
        <4>2. /\ job[w].status = gateway[r].status /\ job[w].status \in Results
              /\ intent[r].status = "created" \/ intent[r].status = gateway[r].status
          BY <1>1, <2>1, <3>2 DEF AgreeInv
        <4> QED BY <4>1, <4>2 DEF Allowed, IntentMoves, IntentStates, Results
      <3> QED BY <3>1, <3>2
    <2>2. CASE UNCHANGED intent
      BY <2>2 DEF Allowed
    <2>3. ASSUME NEW w \in Workers, RequestStep(w)
          PROVE  Allowed(IntentMoves, intent[r].status, intent'[r].status)
      <3>1. CASE StoreIntent(w)
        <4>1. intent'[r] = intent[r]
          BY <1>1, <3>1 DEF StoreIntent, TypeInv, CoreOK
        <4> QED BY <4>1 DEF Allowed
      <3>2. CASE CommitCallback(w) /\ ~ UNCHANGED intent
        <4>1. /\ w \in Procs /\ pc[w] = "commit"
              /\ intent' = [intent EXCEPT ![job[w].ref].status = job[w].status]
          BY <3>2 DEF CommitCallback, Procs
        <4>2. intent[job[w].ref] # NoRow
          BY <1>1, <4>1 DEF TypeInv, RowsPresent, AfterStore
        <4> QED BY <2>1, <4>1, <4>2 DEF Deciding
      <3>3. CASE \/ ReadSplit(w) \/ CreatePayment(w) \/ ReadIntent(w)
                 \/ Verify(w) \/ CheckTransition(w)
        BY <2>2, <3>3 DEF ReadSplit, CreatePayment, ReadIntent, Verify, CheckTransition, rows
      <3> QED BY <2>2, <2>3, <3>1, <3>2, <3>3 DEF RequestStep
    <2>4. ASSUME NEW w \in Reconcilers, ReconcileStep(w)
          PROVE  Allowed(IntentMoves, intent[r].status, intent'[r].status)
      <3>1. CASE WriteIntent(w)
        <4>1. /\ w \in Procs /\ pc[w] = "write"
              /\ intent' = [intent EXCEPT ![job[w].ref].status = job[w].status]
          BY <3>1 DEF WriteIntent, Procs
        <4>2. intent[job[w].ref] # NoRow
          BY <1>1, <4>1 DEF TypeInv, RowsPresent, AfterStore
        <4> QED BY <2>1, <4>1, <4>2 DEF Deciding
      <3>2. CASE TakeUp(w) \/ QueryStatus(w) \/ CheckUpdate(w) \/ ReopenCheckout(w)
        BY <2>2, <3>2 DEF TakeUp, QueryStatus, CheckUpdate, ReopenCheckout, rows
      <3> QED BY <2>4, <3>1, <3>2 DEF ReconcileStep
    <2>5. CASE \/ \E c \in Checkouts : Lapse(c)
               \/ \E w \in Workers, c \in Checkouts, k \in Keys, m \in Methods :
                     RequestIntent(w, c, k, m) \/ RequestPayment(w, c, k, m)
               \/ \E w \in Workers, q \in Refs, s \in Results : ReceiveCallback(w, q, s)
               \/ \E w \in Reconcilers : ListUnresolved(w)
               \/ \E w \in Procs : Finalize(w) \/ Abandon(w)
               \/ UNCHANGED vars
      BY <2>2, <2>5 DEF Lapse, RequestIntent, RequestPayment, ReceiveCallback,
         ListUnresolved, Finalize, Abandon, rows, vars
    <2> QED BY <1>1, <2>3, <2>4, <2>5 DEF Next
  <1>2. TypeInv /\ AgreeInv /\ AgreeInv' /\ [Next]_vars =>
           [\A r \in Refs \ settled : intent[r] # NoRow =>
               Allowed(IntentMoves, intent[r].status, intent'[r].status)]_vars
    BY <1>1
  <1> QED BY <1>2, TypeReached, InitVerified, VerifiedStep, InitAgree, AgreeStep, PTL
          DEF Spec, IntentFollowsTable

=============================================================================
