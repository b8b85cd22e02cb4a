------------------------------ MODULE Payments ------------------------------
(***************************************************************************)
(* Checkout settlement: payment requests, gateway callbacks and the        *)
(* payment reconciliation run of server/services/payment-service.ts over   *)
(* the rows of server/repositories/prisma-runtime.ts.                      *)
(*                                                                         *)
(* A request is a worker that walks through the awaits of its handler; a   *)
(* single statement or a serializable transaction is one step, a read      *)
(* followed by a blind write is two.  One payment intent exists per        *)
(* checkout and idempotency key, so a reference is the pair <<c, k>>: the  *)
(* gateway key is `checkout:key' and the external reference is a function  *)
(* of it.  Early guards of a handler whose truth can only be lost later    *)
(* (a checkout that is payable, an intent that does not exist yet) are     *)
(* read in the first step of the request.                                  *)
(***************************************************************************)
EXTENDS Integers, FiniteSets, States

CONSTANTS
    Checkouts,      \* checkout sessions of one customer
    Keys,           \* idempotency keys the client may send
    Methods,        \* payment methods offered: a subset of the three classes
    Total,          \* Total[c]: price of checkout c, in toman
    InitialBalance, \* the customer's wallet balance
    Workers,        \* concurrently running API requests
    Reconcilers,    \* concurrently running reconcile:payments runs
    BatchSize,      \* intents one run lists at most (50 unless told otherwise)
    Crashing,       \* processes that may end between two of their steps
    ReportsFailure  \* whether a status query may answer failed or cancelled

ASSUME PaymentsAssumption ==
    /\ Methods \subseteq {"online", "wallet", "combined"}
    /\ Total \in [Checkouts -> Nat \ {0}]
    /\ InitialBalance \in Nat
    /\ BatchSize \in Nat \ {0}
    /\ Workers \cap Reconcilers = {}
    /\ Crashing \subseteq Workers \cup Reconcilers
    /\ ReportsFailure \in BOOLEAN

VARIABLES
    checkout,   \* CheckoutSession.status
    lapsed,     \* checkouts whose expiresAt is in the past
    intent,     \* PaymentIntent rows, or NoRow
    callback,   \* PaymentCallback.status under the unique callbackKey, or NoRow
    order,      \* Order row of a checkout with its succeeded PaymentAttempt
    balance,    \* Wallet.balance
    older,      \* <<q, r>>: intent q was last updated before intent r
    gateway,    \* what the payment gateway holds for a reference, or NoRow
    settled,    \* references the gateway has reported succeeded: money taken
    pc, job,    \* where each process is and what it carries
    batch       \* a run's intents still to reconcile

rows == <<checkout, lapsed, intent, callback, order, balance, older>>
vars == <<rows, gateway, settled, pc, job, batch>>

Refs    == Checkouts \X Keys
Procs   == Workers \cup Reconcilers
Results == {"succeeded", "failed", "cancelled"}
NoRow   == [status |-> "none"]
NoJob   == [ref |-> <<>>]

\* What a handler carries across its awaits: the reference, the method, the
\* amount of the split, whether it is POST payments, the status it reports.
Task(r, m, s, sync) ==
    [ref |-> r, method |-> m, status |-> s, sync |-> sync, amount |-> 0]

\* Payable: the states in which checkouts accept intents and payments.
Payable(c) == /\ c \notin lapsed
              /\ checkout[c] \in {"ready_for_payment", "payment_pending"}

\* Mutant: the part of a combined payment is not capped at the price.
WalletPart_Uncapped(c, m) ==
    CASE m = "wallet" -> Total[c] [] m = "combined" -> balance [] OTHER -> 0

\* The wallet part of a payment at the current balance.
WalletPart(c, m) ==
    CASE m = "wallet"   -> Total[c]
      [] m = "combined" -> IF balance < Total[c] THEN balance ELSE Total[c]
      [] OTHER          -> 0

\* Mutant: the balance is not checked again when the wallet is debited.
Affordable_Always(c, m) == TRUE

\* A wallet payment needs the whole price (the check and the conditional debit).
Affordable(c, m) == m = "wallet" => balance >= Total[c]

Move(w, l, j)     == pc' = [pc EXCEPT ![w] = l] /\ job' = [job EXCEPT ![w] = j]
Goto(w, l)        == pc' = [pc EXCEPT ![w] = l] /\ UNCHANGED batch
GotoWith(w, l, j) == Move(w, l, j) /\ UNCHANGED batch

\* A request ends; a run goes on with the rest of its batch.
Return(w) == GotoWith(w, IF batch[w] = {} THEN "idle" ELSE "next", NoJob)

\* An error ends a request, or a whole run: nothing else of its batch is reconciled.
Finish(w) == Move(w, "idle", NoJob) /\ batch' = [batch EXCEPT ![w] = {}]

-----------------------------------------------------------------------------
Init ==
    /\ checkout = [c \in Checkouts |-> "ready_for_payment"]
    /\ lapsed   = {}
    /\ intent   = [r \in Refs |-> NoRow]
    /\ callback = [r \in Refs |-> NoRow]
    /\ order    = [c \in Checkouts |-> NoRow]
    /\ balance  = InitialBalance
    /\ older    = {}
    /\ gateway  = [r \in Refs |-> NoRow]
    /\ settled  = {}
    /\ pc  = [w \in Procs |-> "idle"]
    /\ job = [w \in Procs |-> NoJob]
    /\ batch = [w \in Procs |-> {}]

\* Thirty minutes after createCheckout the offer is no longer payable.
Lapse(c) ==
    /\ c \notin lapsed
    /\ lapsed' = lapsed \cup {c}
    /\ UNCHANGED <<checkout, intent, callback, order, balance, older,
                   gateway, settled, pc, job, batch>>

\* POST payment-intents, up to the supplier revalidation.
RequestIntent(w, c, k, m) ==
    /\ pc[w] = "idle"
    /\ intent[<<c, k>>] = NoRow
    /\ Payable(c)
    /\ GotoWith(w, "split", Task(<<c, k>>, m, "pending", FALSE))
    /\ UNCHANGED <<rows, gateway, settled>>

\* POST payments (also POST orders/:id/payments), up to the revalidation: a
\* key that already completed is answered with its order.
RequestPayment(w, c, k, m) ==
    /\ pc[w] = "idle"
    /\ ~ (order[c] # NoRow /\ order[c].key = k)
    /\ Payable(c)
    /\ GotoWith(w, "split", Task(<<c, k>>, m, "pending", TRUE))
    /\ UNCHANGED <<rows, gateway, settled>>

\* paymentSplit reads the balance outside any transaction.  With nothing left
\* to pay online, POST payments finalizes directly and POST payment-intents
\* refuses.
ReadSplit(w) ==
    /\ pc[w] = "split"
    /\ LET j == job[w]
           c == j.ref[1]
           online == Total[c] - WalletPart(c, j.method)
       IN  IF Affordable(c, j.method) /\ (online > 0 \/ j.sync)
           THEN GotoWith(w, IF online = 0 THEN "finalize" ELSE "create",
                         [j EXCEPT !.amount = online])
           ELSE Finish(w)
    /\ UNCHANGED <<rows, gateway, settled>>

\* Once an intent is at hand, POST payments plays the gateway's own success
\* callback; POST payment-intents answers with the redirect.
IntentReady(w) ==
    IF job[w].sync
    THEN GotoWith(w, "callback",
                  Task(job[w].ref, job[w].method, "succeeded", FALSE))
    ELSE Finish(w)

\* createIntent before its insert.  The gateway's createPayment is idempotent
\* per key and refuses a key that was used for another amount.
CreatePayment(w) ==
    /\ pc[w] = "create"
    /\ LET r == job[w].ref IN
       \/ /\ intent[r] # NoRow
          /\ IntentReady(w)
          /\ UNCHANGED gateway
       \/ /\ intent[r] = NoRow
          /\ gateway[r] # NoRow => gateway[r].amount = job[w].amount
          /\ gateway' = IF gateway[r] # NoRow THEN gateway
                        ELSE [gateway EXCEPT ![r] =
                                 [status |-> "pending", amount |-> job[w].amount]]
          /\ Goto(w, "store") /\ UNCHANGED job
       \/ /\ intent[r] = NoRow
          /\ gateway[r] # NoRow /\ gateway[r].amount # job[w].amount
          /\ Finish(w)
          /\ UNCHANGED gateway
    /\ UNCHANGED <<rows, settled>>

\* createPaymentIntent, one serializable transaction; when it fails because
\* the key was taken meanwhile, the stored intent is used.  A new intent is the one
\* updated last, and no later write leaves an intent unresolved.
StoreIntent(w) ==
    /\ pc[w] = "store"
    /\ LET j == job[w]
           r == j.ref
           c == r[1]
       IN \/ /\ intent[r] # NoRow
             /\ IntentReady(w)
             /\ UNCHANGED <<intent, checkout, older>>
          \/ /\ intent[r] = NoRow
             /\ checkout[c] \in {"ready_for_payment", "payment_pending"}
             /\ intent' = [intent EXCEPT ![r] = [status |-> "created",
                              method |-> j.method, amount |-> j.amount]]
             /\ checkout' = [checkout EXCEPT ![c] = "payment_pending"]
             /\ older' = older \cup ({q \in Refs : intent[q] # NoRow} \X {r})
             /\ IntentReady(w)
          \/ /\ intent[r] = NoRow
             /\ checkout[c] \notin {"ready_for_payment", "payment_pending"}
             /\ Finish(w)
             /\ UNCHANGED <<intent, checkout, older>>
    /\ UNCHANGED <<lapsed, callback, order, balance, gateway, settled>>

-----------------------------------------------------------------------------
\* POST payments/callback and payments/mock/simulate for a stored reference:
\* any result, at any time, any number of times.
ReceiveCallback(w, r, s) ==
    /\ pc[w] = "idle"
    /\ intent[r] # NoRow
    /\ s = "succeeded" => checkout[r[1]] = "completed" \/ Payable(r[1])
    /\ GotoWith(w, "callback", Task(r, intent[r].method, s, FALSE))
    /\ UNCHANGED <<rows, gateway, settled>>

\* handleCallback reads the intent: a failed or cancelled one takes no more
\* callbacks (line 39 answers a repetition, refuses a contradiction).
ReadIntent(w) ==
    /\ pc[w] = "callback"
    /\ LET r == job[w].ref IN
       IF intent[r].status \in {"failed", "cancelled"}
       THEN Finish(w)
       ELSE GotoWith(w, "verify", [job[w] EXCEPT !.method = intent[r].method])
    /\ UNCHANGED <<rows, gateway, settled>>

\* What MockPaymentGateway.verifyPayment does with the status of a callback.
GatewayAccepts(r, s) == gateway[r].status \in {"failed", "cancelled"}
                            => s = gateway[r].status
GatewayRecords(r, s) ==
    /\ gateway' = [gateway EXCEPT ![r].status = s]
    /\ settled' = IF s = "succeeded" THEN settled \cup {r} ELSE settled

\* Mutant: an error of the verification does not end the handler.
Verify_IgnoresError(w) ==
    /\ pc[w] = "verify"
    /\ Goto(w, "record") /\ UNCHANGED <<rows, job>>
    /\ IF GatewayAccepts(job[w].ref, job[w].status)
       THEN GatewayRecords(job[w].ref, job[w].status)
       ELSE UNCHANGED <<gateway, settled>>

\* The gateway confirms the callback.  ProviderExecutor races it against a
\* timer: an answer that is lost after the gateway acted on it is an Abandon
\* of the next step.
Verify(w) ==
    /\ pc[w] = "verify"
    /\ LET r == job[w].ref
           s == job[w].status
       IN IF GatewayAccepts(r, s)
          THEN GatewayRecords(r, s) /\ Goto(w, "record") /\ UNCHANGED job
          ELSE Finish(w) /\ UNCHANGED <<gateway, settled>>
    /\ UNCHANGED rows

\* recordPaymentCallback reads the intent outside its transaction.
CheckTransition(w) ==
    /\ pc[w] = "record"
    /\ IF Allowed(IntentMoves, intent[job[w].ref].status, job[w].status)
       THEN Goto(w, "commit") /\ UNCHANGED job
       ELSE Finish(w)
    /\ UNCHANGED <<rows, gateway, settled>>

\* Mutant: the callback already completes the checkout.
CallbackOutcome_Completes(s) ==
    IF s = "succeeded" THEN "completed" ELSE "ready_for_payment"

\* Mutant: the checkout takes the status of the callback.
CallbackOutcome_Raw(s) == s

\* What the callback transaction writes to the checkout.
CallbackOutcome(s) ==
    IF s = "succeeded" THEN "payment_pending" ELSE "ready_for_payment"

\* The insert under the unique callbackKey succeeds.
FirstCallback(r) == callback[r] = NoRow

\* Its batch transaction writes the callback row, the intent and the checkout
\* together; a second callback only passes if it says the same.
CommitCallback(w) ==
    /\ pc[w] = "commit"
    /\ LET r == job[w].ref
           s == job[w].status
           Proceed == IF s = "succeeded"
                      THEN Goto(w, "finalize") /\ UNCHANGED job
                      ELSE Finish(w)
       IN IF FirstCallback(r)
          THEN /\ callback' = [callback EXCEPT ![r] = [status |-> s]]
               /\ intent'   = [intent EXCEPT ![r].status = s]
               /\ checkout' = [checkout EXCEPT ![r[1]] = CallbackOutcome(s)]
               /\ Proceed
          ELSE /\ IF callback[r].status = s THEN Proceed ELSE Finish(w)
               /\ UNCHANGED <<callback, intent, checkout>>
    /\ UNCHANGED <<lapsed, order, balance, older, gateway, settled>>

-----------------------------------------------------------------------------
\* Mutant: the transaction does not look for an existing order.
Finalizable_Again(c, m) == Payable(c) /\ Affordable(c, m)

\* finalizePayment, one serializable transaction: an existing order is
\* returned as it is; otherwise the split is computed from the balance of this
\* moment, the wallet debited, and order, payment and checkout written.
Finalizable(c, m) ==
    /\ order[c] = NoRow
    /\ Payable(c)
    /\ Affordable(c, m)

Finalize(w) ==
    /\ pc[w] = "finalize"
    /\ LET c == job[w].ref[1]
           m == job[w].method
       IN \/ /\ Finalizable(c, m)
             /\ order' = [order EXCEPT ![c] =
                   [status |-> "paid", key |-> job[w].ref[2], method |-> m,
                    wallet |-> WalletPart(c, m),
                    online |-> Total[c] - WalletPart(c, m)]]
             /\ balance' = balance - WalletPart(c, m)
             /\ checkout' = [checkout EXCEPT ![c] = "completed"]
             /\ Return(w)
          \/ /\ ~ Finalizable(c, m)
             /\ IF order[c] # NoRow THEN Return(w) ELSE Finish(w)
             /\ UNCHANGED <<order, balance, checkout>>
    /\ UNCHANGED <<lapsed, intent, callback, older, gateway, settled>>

-----------------------------------------------------------------------------
\* Mutant: only intents marked pending are listed, which no code ever does.
Unresolved_Pending(r) == intent[r].status = "pending"

Unresolved(r) == intent[r].status \in {"created", "pending"}

\* listUnresolvedPaymentIntents: those updated longest ago, no more than a batch.
Listed ==
    {r \in Refs : /\ Unresolved(r)
                  /\ Cardinality({q \in Refs : Unresolved(q) /\ <<q, r>> \in older}) < BatchSize}

\* PaymentService.reconcile starts ...
ListUnresolved(w) ==
    /\ pc[w] = "idle"
    /\ Listed # {}
    /\ pc'    = [pc EXCEPT ![w] = "next"]
    /\ batch' = [batch EXCEPT ![w] = Listed]
    /\ UNCHANGED <<rows, gateway, settled, job>>

\* ... and takes up the next intent of its batch (the model leaves open which).
TakeUp(w) ==
    /\ pc[w] = "next"
    /\ \E r \in batch[w] :
          /\ Move(w, "query", Task(r, intent[r].method, "pending", FALSE))
          /\ batch' = [batch EXCEPT ![w] = @ \ {r}]
    /\ UNCHANGED <<rows, gateway, settled>>

\* A status query without a callback.  The mock answers failed and cancelled
\* payments with an error; an adapter of the interface may report them.  An error
\* or a payment that is still pending is noted and the run goes on.
QueryStatus(w) ==
    /\ pc[w] = "query"
    /\ LET s == gateway[job[w].ref].status IN
       IF s = "succeeded" \/ (ReportsFailure /\ s \in Results)
       THEN GotoWith(w, "update", [job[w] EXCEPT !.status = s])
       ELSE Return(w)
    /\ UNCHANGED <<rows, gateway, settled>>

\* updatePaymentIntentStatus: read and check ...
CheckUpdate(w) ==
    /\ pc[w] = "update"
    /\ IF Allowed(IntentMoves, intent[job[w].ref].status, job[w].status)
       THEN Goto(w, "write") /\ UNCHANGED job
       ELSE Finish(w)
    /\ UNCHANGED <<rows, gateway, settled>>

\* ... then write the intent blindly ...
WriteIntent(w) ==
    /\ pc[w] = "write"
    /\ intent' = [intent EXCEPT ![job[w].ref].status = job[w].status]
    /\ Goto(w, IF job[w].status = "succeeded" THEN "finalize" ELSE "reopen")
    /\ UNCHANGED <<checkout, lapsed, callback, order, balance, older,
                   gateway, settled, job>>

\* ... and, for a failed payment, reopen the checkout in a third statement.
ReopenCheckout(w) ==
    /\ pc[w] = "reopen"
    /\ checkout' = [checkout EXCEPT ![job[w].ref[1]] = "ready_for_payment"]
    /\ Return(w)
    /\ UNCHANGED <<lapsed, intent, callback, order, balance, older, gateway, settled>>

\* A crash, a lost connection or a failing provider ends a process between
\* any two of its steps; the rows keep what was written.
Abandon(w) ==
    /\ w \in Crashing
    /\ pc[w] # "idle"
    /\ Finish(w)
    /\ UNCHANGED <<rows, gateway, settled>>

-----------------------------------------------------------------------------
RequestStep(w) ==
    \/ ReadSplit(w) \/ CreatePayment(w) \/ StoreIntent(w)
    \/ ReadIntent(w) \/ Verify(w) \/ CheckTransition(w) \/ CommitCallback(w)

ReconcileStep(w) ==
    TakeUp(w) \/ QueryStatus(w) \/ CheckUpdate(w) \/ WriteIntent(w) \/ ReopenCheckout(w)

Next ==
    \/ \E c \in Checkouts : Lapse(c)
    \/ \E w \in Workers, c \in Checkouts, k \in Keys, m \in Methods :
          RequestIntent(w, c, k, m) \/ RequestPayment(w, c, k, m)
    \/ \E w \in Workers, r \in Refs, s \in Results : ReceiveCallback(w, r, s)
    \/ \E w \in Workers : RequestStep(w)
    \/ \E w \in Reconcilers : ListUnresolved(w) \/ ReconcileStep(w)
    \/ \E w \in Procs : Finalize(w) \/ Abandon(w)

Spec == Init /\ [][Next]_vars

\* Started handlers and runs keep going, and a scheduler, which the repository only
\* prescribes, starts reconcile:payments over and over.  It is the run that is
\* started: no intent is promised a place in its batch.
Fairness ==
    /\ \A w \in Procs :
          WF_vars(RequestStep(w) \/ ReconcileStep(w) \/ Finalize(w))
    /\ \A w \in Reconcilers : WF_vars(ListUnresolved(w))

FairSpec == Spec /\ Fairness

-----------------------------------------------------------------------------
Labels == {"idle", "next", "split", "create", "store", "callback", "verify", "record",
           "commit", "finalize", "query", "update", "write", "reopen"}

Tasks == [ref : Refs, method : Methods, status : Results \cup {"pending"},
          sync : BOOLEAN, amount : Nat]

TypeOK ==
    /\ checkout \in [Checkouts -> CheckoutStates]
    /\ lapsed \subseteq Checkouts
    /\ intent \in [Refs -> {NoRow} \cup
                     [status : IntentStates, method : Methods, amount : Nat]]
    /\ callback \in [Refs -> {NoRow} \cup [status : Results]]
    /\ order \in [Checkouts -> {NoRow} \cup
           [status : {"paid"}, key : Keys, method : Methods, wallet : Nat, online : Nat]]
    /\ balance \in Nat
    /\ older \subseteq Refs \X Refs
    /\ gateway \in [Refs -> {NoRow} \cup
                      [status : Results \cup {"pending"}, amount : Nat]]
    /\ settled \subseteq Refs
    /\ pc \in [Procs -> Labels]
    /\ job \in [Procs -> Tasks \cup {NoJob}]
    /\ \A w \in Procs : pc[w] \notin {"idle", "next"} => job[w] \in Tasks
    /\ batch \in [Procs -> SUBSET Refs]

\* The toman that an order took from the wallet, each told apart by a number.
Debit(c) == {c} \X (1 .. IF order[c] = NoRow THEN 0 ELSE order[c].wallet)

\* The wallet is debited exactly once for every order and for nothing else,
\* however many requests, callbacks and retries race for a checkout, and never
\* below zero: balance and orders always add up (finalizePayment's debit and
\* its ledger entry are in the transaction that creates the order).
WalletAddsUp ==
    /\ balance >= 0
    /\ balance + Cardinality(UNION {Debit(c) : c \in Checkouts}) = InitialBalance

\* What a customer is charged is settled once per checkout, exactly as the
\* abstract specification allows: order rows and the wallet are its state.
Paid == [c \in Checkouts |->
            IF order[c] = NoRow THEN [wallet |-> 0, online |-> 0]
            ELSE [wallet |-> order[c].wallet, online |-> order[c].online]]

Abstract == INSTANCE Settlement WITH paid <- Paid

ImplementsSettlement == Abstract!Spec

\* What an order records as paid online the gateway has taken under that very key:
\* no request, callback or lost answer makes an order of a payment that was not
\* confirmed, or of another amount.  Not so for combined payments: see
\* ChargeIsAsRecorded.
OrderIsFunded ==
    \A c \in Checkouts :
        order[c] # NoRow /\ order[c].method # "combined" /\ order[c].online > 0 =>
            LET r == <<c, order[c].key>> IN
            r \in settled /\ gateway[r].amount = order[c].online

\* A checkout is only completed by the transaction that creates its order.
CompletedHasOrder ==
    \A c \in Checkouts : checkout[c] = "completed" => order[c] # NoRow

\* A recorded success was confirmed by the gateway, whatever callbacks claim.
SuccessIsVerified ==
    \A r \in Refs :
        (intent[r].status = "succeeded" \/ callback[r].status = "succeeded")
            => r \in settled

\* Whichever of callbacks and reconciliation runs, each on an older read, writes an
\* intent, it and its callback row do not contradict each other, unless the gateway
\* reported the payment as succeeded: it may report another result later, and then
\* they can.
CallbackDecides ==
    \A r \in Refs \ settled : callback[r] # NoRow => intent[r].status = callback[r].status

\* Once a checkout has an order, no later request, callback or reconciliation
\* run replaces it or changes what was paid from where.
OrderIsFinal ==
    [][\A c \in Checkouts : order[c] # NoRow => order'[c] = order[c]]_vars

\* Under the same condition an intent only moves along states.ts, although a run checks
\* the move on one read and then writes by id.
IntentFollowsTable ==
    [][\A r \in Refs \ settled : intent[r] # NoRow =>
          Allowed(IntentMoves, intent[r].status, intent'[r].status)]_vars

\* docs/phase-16-reliability.md:35: nothing else than the price shown is
\* charged silently: what the order records as paid online is what the gateway
\* took for it.
ChargeIsAsRecorded ==
    \A c \in Checkouts : order[c] # NoRow /\ order[c].online > 0 =>
        LET r == <<c, order[c].key>> IN
        r \in settled /\ gateway[r].amount = order[c].online

\* Intents that the gateway leaves undecided fill the batch of every run.
Crowded ==
    Cardinality({q \in Refs : Unresolved(q) /\ gateway[q].status \notin Results}) >= BatchSize

\* A payment that the gateway has decided does not stay unresolved, unless the runs
\* are crowded again and again: they always list the intents updated longest ago.
DecidedGetsResolved ==
    \A r \in Refs : gateway[r].status \in Results
                       ~> (intent[r].status \notin {"created", "pending"} \/ Crowded)

\* docs/provider-activation.md:49: on a definite answer reconciliation finalizes
\* the payment and its order: a payment recorded as succeeded gets its order.
SuccessBecomesOrder ==
    \A r \in Refs : intent[r].status = "succeeded"
                       ~> (order[r[1]] # NoRow \/ r[1] \in lapsed)
=============================================================================
