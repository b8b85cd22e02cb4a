------------------------------- MODULE Payouts -------------------------------
(***************************************************************************)
(* One settlement batch of a merchant on its way to being paid out, moved  *)
(* on by the sessions of the finance team (settlementTransitions of        *)
(* platform/finance.ts, updateSettlementStatus of repositories/platform.ts *)
(* and its route).                                                         *)
(*                                                                         *)
(* The status is checked on one read and written by id at read committed,  *)
(* two steps, and nothing notices a session that wrote in between.         *)
(* Batches share nothing, so one is enough.                                *)
(***************************************************************************)
EXTENDS Naturals

CONSTANTS
    Clerks,      \* back-office sessions with backoffice.finance.manage
    References,  \* payment references of the bank
    NoReference  \* a batch, or a request, without one

VARIABLES
    batch,  \* the SettlementBatch as stored
    work    \* what a session has checked and is about to write

vars == <<batch, work>>

Statuses == {"DRAFT", "READY", "APPROVED", "PROCESSING", "PAID", "FAILED", "CANCELLED"}

\* settlementTransitions
Transitions == [s \in Statuses |->
    CASE s = "DRAFT"      -> {"READY", "CANCELLED"}
      [] s = "READY"      -> {"DRAFT", "APPROVED", "CANCELLED"}
      [] s = "APPROVED"   -> {"PROCESSING", "CANCELLED"}
      [] s = "PROCESSING" -> {"PAID", "FAILED"}
      [] s = "FAILED"     -> {"READY", "CANCELLED"}
      [] OTHER            -> {}]

Final == {"PAID", "CANCELLED"}

\* approved and paid say whether approvedAt and paidAt are set, noted whether the
\* notes say something.
Batch == [status : Statuses, approved : BOOLEAN, paid : BOOLEAN, noted : BOOLEAN,
          reference : References \cup {NoReference}]

\* An update brings notes that say something, blank ones, or leaves them as they are.
Update == [to : Statuses, notes : {"kept", "blank", "given"},
           reference : References \cup {NoReference}]

NoWork == [fresh |-> FALSE]

Init ==
    /\ batch = [status |-> "DRAFT", approved |-> FALSE, paid |-> FALSE, noted |-> FALSE,
                reference |-> NoReference]
    /\ work = [c \in Clerks |-> NoWork]

-----------------------------------------------------------------------------
\* The route: a payment has the bank's reference, a failure or a cancellation a note.
Acceptable(u) ==
    /\ u.to = "PAID" => u.reference # NoReference
    /\ u.to \in {"FAILED", "CANCELLED"} => u.notes = "given"

\* canTransitionSettlement
MayMove(to) == to \in Transitions[batch.status]

Check(c, u) ==
    /\ work[c] = NoWork
    /\ Acceptable(u) /\ MayMove(u.to)
    /\ work' = [work EXCEPT ![c] = [update |-> u, fresh |-> TRUE]]
    /\ UNCHANGED batch

\* Whoever has checked the status has checked one that is no longer there.
Outdated ==
    [c \in Clerks |-> IF work[c] = NoWork THEN NoWork ELSE [work[c] EXCEPT !.fresh = FALSE]]

Written_Whole(u) ==
    [status |-> u.to, approved |-> u.to = "APPROVED", paid |-> u.to = "PAID",
     noted |-> u.notes = "given", reference |-> u.reference]

\* The row after an update: what the update does not carry stays as it is.
Written(u) ==
    [batch EXCEPT !.status    = u.to,
                  !.approved  = @ \/ u.to = "APPROVED",
                  !.paid      = @ \/ u.to = "PAID",
                  !.noted     = IF u.notes = "kept" THEN @ ELSE u.notes = "given",
                  !.reference = IF u.to = "PAID" THEN u.reference ELSE @]

\* The update and its audit row are one transaction.
Save(c) ==
    /\ work[c] # NoWork
    /\ batch' = Written(work[c].update)
    /\ work'  = [Outdated EXCEPT ![c] = NoWork]

\* A failing write rolls the session's transaction back.
Fail(c) ==
    /\ work[c] # NoWork
    /\ work' = [work EXCEPT ![c] = NoWork]
    /\ UNCHANGED batch

Next == \E c \in Clerks : (\E u \in Update : Check(c, u)) \/ Save(c) \/ Fail(c)

Spec == Init /\ [][Next]_vars

-----------------------------------------------------------------------------
(* Properties *)

TypeOK ==
    /\ batch \in Batch
    /\ work \in [Clerks -> {NoWork} \cup [update : Update, fresh : BOOLEAN]]

\* A batch that counts as paid was approved, has the time and the bank's reference
\* of the payment, and one that failed or was cancelled says why, also when
\* sessions have overwritten each other (updateSettlementStatus).
PaidIsBacked ==
    /\ batch.status \in {"PROCESSING", "PAID", "FAILED"} => batch.approved
    /\ batch.status = "PAID" => batch.paid /\ batch.reference # NoReference
    /\ batch.status \in {"FAILED", "CANCELLED"} => batch.noted

\* A session's work is done that another session overtook.
Overtaken(c) == work[c] # NoWork /\ ~work[c].fresh /\ work'[c] = NoWork

\* A return from PAID is not allowed (docs/merchant-finance-ledger.md:22).  What the
\* code keeps of that: a paid or cancelled batch is changed, its payment reference
\* included, only by a session that looked at it before it was paid or cancelled; so
\* is a batch paid twice (updateSettlementStatus).
FinalStays == [][batch.status \in Final /\ batch' # batch => \E c \in Clerks : Overtaken(c)]_vars
=============================================================================
