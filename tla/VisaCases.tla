------------------------------ MODULE VisaCases ------------------------------
(***************************************************************************)
(* One visa case: a row of a status and a payload with the applicant's     *)
(* data, the provider's reference and the timeline that the customer is    *)
(* shown (visa/domain.ts, createVisa and updateVisa of                     *)
(* repositories/prisma-runtime.ts, updateVisaCase of                       *)
(* repositories/platform.ts).                                              *)
(*                                                                         *)
(* The customer and the officers read the row, compute the whole next row  *)
(* from it and write it by id, with nothing that notices a write in        *)
(* between: each update is two steps.  Cases share nothing, so one is      *)
(* enough.  Checklist, notes and reviewer travel in the payload like the   *)
(* applicant's data and are not told apart from it.                        *)
(***************************************************************************)
EXTENDS Naturals, SequencesExt

CONSTANTS
    Customers,   \* sessions of the customer who owns the case
    Officers,    \* back-office sessions with backoffice.visa.manage
    Data,        \* what the customer may enter
    MaxEntries   \* bound: entries of a timeline

VARIABLES
    row,    \* the VisaApplication as stored
    draft   \* the row each session has computed and is about to write

vars == <<row, draft>>

VisaStates ==
    {"DRAFT", "SUBMITTED", "DOCUMENTS_REQUIRED", "UNDER_REVIEW", "READY_FOR_SUBMISSION",
     "SUBMITTED_TO_PROVIDER", "DECISION_RECEIVED", "COMPLETED", "REJECTED", "CANCELLED"}

Transitions == [s \in VisaStates |->
    CASE s = "DRAFT"              -> {"SUBMITTED", "CANCELLED"}
      [] s = "SUBMITTED"          -> {"DOCUMENTS_REQUIRED", "UNDER_REVIEW", "CANCELLED"}
      [] s = "DOCUMENTS_REQUIRED" -> {"SUBMITTED", "CANCELLED"}
      [] s = "UNDER_REVIEW" ->
            {"DOCUMENTS_REQUIRED", "READY_FOR_SUBMISSION", "REJECTED", "CANCELLED"}
      [] s = "READY_FOR_SUBMISSION" ->
            {"SUBMITTED_TO_PROVIDER", "DOCUMENTS_REQUIRED", "CANCELLED"}
      [] s = "SUBMITTED_TO_PROVIDER" -> {"DECISION_RECEIVED"}
      [] s = "DECISION_RECEIVED"     -> {"COMPLETED", "REJECTED"}
      [] OTHER                       -> {}]

Final == {"COMPLETED", "REJECTED", "CANCELLED"}

\* assertVisaTransition
Moves(from, to) == from = to \/ to \in Transitions[from]

Entry(s, audience) == [status |-> s, audience |-> audience]
Entries == [status : VisaStates, audience : {"customer", "internal"}]

Row == [status : VisaStates, data : Data, reference : BOOLEAN, submitted : BOOLEAN,
        timeline : Seq(Entries)]

Sessions == Customers \cup Officers
NoDraft  == [fresh |-> FALSE]

\* createVisa
Init ==
    /\ row \in {[status |-> "DRAFT", data |-> d, reference |-> FALSE, submitted |-> FALSE,
                 timeline |-> <<Entry("DRAFT", "customer")>>] : d \in Data}
    /\ draft = [s \in Sessions |-> NoDraft]

\* Whoever has computed a row has computed it from one that is no longer there.
Outdated ==
    [s \in Sessions |-> IF draft[s] = NoDraft THEN NoDraft ELSE [draft[s] EXCEPT !.fresh = FALSE]]

-----------------------------------------------------------------------------
Compute(s, next) ==
    /\ draft[s] = NoDraft
    /\ Len(next.timeline) <= MaxEntries
    /\ draft' = [draft EXCEPT ![s] = [row |-> next, fresh |-> TRUE]]
    /\ UNCHANGED row

Announced_Silent(to) == row.timeline

\* The timeline once a new status is announced to the customer.
Announced(to) ==
    IF to = row.status THEN row.timeline ELSE Append(row.timeline, Entry(to, "customer"))

\* The customer edits a draft or completes documents, and may only submit.
CustomerMay(to) ==
    /\ row.status \in {"DRAFT", "DOCUMENTS_REQUIRED"}
    /\ to \in {"DRAFT", "SUBMITTED"}
    /\ Moves(row.status, to)

\* updateVisa
CustomerUpdate(s, to, data) ==
    /\ CustomerMay(to)
    /\ Compute(s, [row EXCEPT !.status = to, !.data = data, !.timeline = Announced(to),
                              !.submitted = @ \/ to # row.status])

Sendable_Always(to, reference) == TRUE

\* A case goes to the provider under the provider's reference only.
Sendable(to, reference) == to = "SUBMITTED_TO_PROVIDER" => reference

\* updateVisaCase; note says whether an internal note is written too.
OfficerUpdate(s, to, reference, note) ==
    /\ Moves(row.status, to) /\ Sendable(to, reference)
    /\ Compute(s, [row EXCEPT !.status = to, !.reference = reference,
                              !.submitted = @ \/ to # "DRAFT",
                              !.timeline = IF note THEN Append(Announced(to), Entry(to, "internal"))
                                                   ELSE Announced(to)])

Save(s) ==
    /\ draft[s] # NoDraft
    /\ row'   = draft[s].row
    /\ draft' = [Outdated EXCEPT ![s] = NoDraft]

\* A failing write leaves the case as it is.
Fail(s) ==
    /\ draft[s] # NoDraft
    /\ draft' = [draft EXCEPT ![s] = NoDraft]
    /\ UNCHANGED row

-----------------------------------------------------------------------------
Update(s) ==
    \/ s \in Customers /\ \E to \in VisaStates, d \in Data : CustomerUpdate(s, to, d)
    \/ s \in Officers  /\ \E to \in VisaStates, reference, note \in BOOLEAN :
                             OfficerUpdate(s, to, reference, note)
    \/ Save(s) \/ Fail(s)

Next == \E s \in Sessions : Update(s)

Spec == Init /\ [][Next]_vars

-----------------------------------------------------------------------------
(* Properties *)

TypeOK ==
    /\ row \in Row
    /\ draft \in [Sessions -> {NoDraft} \cup [row : Row, fresh : BOOLEAN]]

Shown(t, i) == i \in DOMAIN t /\ t[i].audience = "customer"

\* The next entry of the timeline that the customer sees after entry i is k.
Follows(t, i, k) ==
    Shown(t, i) /\ Shown(t, k) /\ i < k /\ \A j \in i + 1 .. k - 1 : ~Shown(t, j)

\* The timeline the customer is shown is a legal history of the case that ends in
\* its status, whatever updates have overwritten each other: status and timeline
\* are always written together (updateVisa, updateVisaCase).
HistoryIsLegal ==
    LET t == row.timeline IN
    /\ \A i, k \in DOMAIN t : Follows(t, i, k) => t[k].status \in Transitions[t[i].status]
    /\ \E i \in DOMAIN t : /\ Shown(t, i) /\ t[i].status = row.status
                           /\ \A j \in i + 1 .. Len(t) : ~Shown(t, j)

\* A case that lies with the provider has the provider's reference, and one that
\* is no draft has its date of submission: no update of another session takes
\* them away again (updateVisaCase, updateVisa).
CaseIsComplete ==
    /\ row.status = "SUBMITTED_TO_PROVIDER" => row.reference
    /\ row.status # "DRAFT" => row.submitted

\* Final statuses are not opened again without an authorised correction
\* (docs/visa-operations.md:13), and the timeline only grows.  What the code keeps of
\* that: an entry disappears, and a final status is left, only by an update that
\* another one has overtaken (updateVisa, updateVisaCase).
NothingLost ==
    [][~IsPrefix(row.timeline, row'.timeline) \/ (row.status \in Final /\ row'.status # row.status)
          => \E s \in Sessions : draft[s] # NoDraft /\ ~draft[s].fresh /\ draft'[s] = NoDraft]_vars
=============================================================================
