-------------------------- MODULE VisaCases_proofs --------------------------
(***************************************************************************)
(* Proofs about VisaCases for any number of sessions and timelines of any  *)
(* length.                                                                 *)
(***************************************************************************)
EXTENDS VisaCases, TLAPS

Draft == [row : Row, fresh : BOOLEAN]

LEMMA NoDraftIsNoDraft == NoDraft \notin Draft
  <1>1. ASSUME NoDraft \in Draft PROVE FALSE
    <2>1. "row" \in DOMAIN NoDraft BY <1>1 DEF Draft
    <2> QED BY <2>1 DEF NoDraft
  <1> QED BY <1>1

-----------------------------------------------------------------------------
(* Timelines *)

\* The timeline t is a legal history that ends in the status s.
Legal(t, s) ==
    /\ \A i, k \in DOMAIN t : Follows(t, i, k) => t[k].status \in Transitions[t[i].status]
    /\ \E i \in DOMAIN t : /\ Shown(t, i) /\ t[i].status = s
                           /\ \A j \in i + 1 .. Len(t) : ~Shown(t, j)

\* What appending an entry does to a timeline.
LEMMA Appended ==
    ASSUME NEW t \in Seq(Entries), NEW e \in Entries
    PROVE  /\ Append(t, e) \in Seq(Entries)
           /\ Len(Append(t, e)) = Len(t) + 1
           /\ Append(t, e)[Len(t) + 1] = e
           /\ \A i \in DOMAIN t : Append(t, e)[i] = t[i]
           /\ DOMAIN t = 1 .. Len(t) /\ Len(t) \in Nat
           /\ DOMAIN Append(t, e) = 1 .. Len(t) + 1
           /\ IsPrefix(t, Append(t, e))
  BY DEF IsPrefix

\* The entries that were shown stay shown, and follow each other as before.
LEMMA ShownAppended ==
    ASSUME NEW t \in Seq(Entries), NEW e \in Entries
    PROVE  /\ \A i \in DOMAIN t : Shown(Append(t, e), i) <=> Shown(t, i)
           /\ Shown(Append(t, e), Len(t) + 1) <=> e.audience = "customer"
           /\ \A i, k \in DOMAIN t : Follows(Append(t, e), i, k) <=> Follows(t, i, k)
  <1> DEFINE u == Append(t, e)
  <1>1. /\ \A i \in DOMAIN t : Shown(u, i) <=> Shown(t, i)
        /\ Shown(u, Len(t) + 1) <=> e.audience = "customer"
    BY Appended DEF Shown
  <1>2. ASSUME NEW i \in DOMAIN t, NEW k \in DOMAIN t
        PROVE  Follows(u, i, k) <=> Follows(t, i, k)
    <2>1. \A j \in i + 1 .. k - 1 : j \in DOMAIN t
      BY Appended
    <2> HIDE DEF u
    <2> QED BY <1>1, <2>1 DEF Follows
  <1> QED BY <1>1, <1>2

\* An internal note leaves the shown history as it is.
LEMMA NoteKeepsLegal ==
    ASSUME NEW t \in Seq(Entries), NEW s \in VisaStates, NEW x \in VisaStates, Legal(t, s)
    PROVE  Legal(Append(t, Entry(x, "internal")), s)
  <1> DEFINE e == Entry(x, "internal")
             u == Append(t, e)
  <1>1. e \in Entries /\ e.audience # "customer"
    BY DEF Entry, Entries
  <1> HIDE DEF e
  <1>2. /\ DOMAIN u = 1 .. Len(t) + 1 /\ DOMAIN t = 1 .. Len(t) /\ Len(t) \in Nat
        /\ Len(u) = Len(t) + 1
        /\ \A i \in DOMAIN t : u[i] = t[i]
    BY <1>1, Appended
  <1>3. /\ \A i \in DOMAIN t : Shown(u, i) <=> Shown(t, i)
        /\ ~ Shown(u, Len(t) + 1)
        /\ \A i, k \in DOMAIN t : Follows(u, i, k) <=> Follows(t, i, k)
    BY <1>1, ShownAppended
  <1> HIDE DEF u
  <1>4. ASSUME NEW i \in DOMAIN u, NEW k \in DOMAIN u, Follows(u, i, k)
        PROVE  u[k].status \in Transitions[u[i].status]
    <2>1. i \in DOMAIN t /\ k \in DOMAIN t
      BY <1>2, <1>3, <1>4 DEF Follows
    <2> QED BY <1>2, <1>3, <1>4, <2>1 DEF Legal
  <1>5. PICK i \in DOMAIN t : /\ Shown(t, i) /\ t[i].status = s
                              /\ \A j \in i + 1 .. Len(t) : ~Shown(t, j)
    BY DEF Legal
  <1>6. \A j \in i + 1 .. Len(u) : ~Shown(u, j)
    BY <1>2, <1>3, <1>5
  <1> QED BY <1>2, <1>3, <1>4, <1>5, <1>6 DEF Legal, u, e

\* A new status is announced as the next step of the history.
LEMMA AnnouncementKeepsLegal ==
    ASSUME NEW t \in Seq(Entries), NEW s \in VisaStates, NEW to \in Transitions[s],
           to \in VisaStates, Legal(t, s)
    PROVE  Legal(Append(t, Entry(to, "customer")), to)
  <1> DEFINE e == Entry(to, "customer")
             u == Append(t, e)
  <1>1. e \in Entries /\ e.audience = "customer" /\ e.status = to
    BY DEF Entry, Entries
  <1> HIDE DEF e
  <1>2. /\ DOMAIN u = 1 .. Len(t) + 1 /\ DOMAIN t = 1 .. Len(t) /\ Len(t) \in Nat
        /\ Len(u) = Len(t) + 1 /\ u[Len(t) + 1] = e
        /\ \A i \in DOMAIN t : u[i] = t[i]
    BY <1>1, Appended
  <1>3. /\ \A i \in DOMAIN t : Shown(u, i) <=> Shown(t, i)
        /\ Shown(u, Len(t) + 1)
        /\ \A i, k \in DOMAIN t : Follows(u, i, k) <=> Follows(t, i, k)
    BY <1>1, ShownAppended
  <1> HIDE DEF u
  <1>4. PICK l \in DOMAIN t : /\ Shown(t, l) /\ t[l].status = s
                              /\ \A j \in l + 1 .. Len(t) : ~Shown(t, j)
    BY DEF Legal
  <1>5. ASSUME NEW i \in DOMAIN u, NEW k \in DOMAIN u, Follows(u, i, k)
        PROVE  u[k].status \in Transitions[u[i].status]
    <2>1. CASE k \in DOMAIN t
      <3>1. i \in DOMAIN t
        BY <1>2, <1>5, <2>1 DEF Follows
      <3> QED BY <1>2, <1>3, <1>5, <2>1, <3>1 DEF Legal
    <2>2. CASE k = Len(t) + 1
      <3>1. i \in DOMAIN t /\ Shown(t, i) /\ \A j \in i + 1 .. Len(t) : ~Shown(t, j)
        BY <1>2, <1>3, <1>5, <2>2 DEF Follows
      <3>2. i = l
        BY <1>2, <1>4, <3>1
      <3> QED BY <1>1, <1>2, <1>4, <2>2, <3>2
    <2> QED BY <1>2, <2>1, <2>2
  <1>6. \A j \in (Len(t) + 1) + 1 .. Len(u) : ~Shown(u, j)
    BY <1>2
  <1>7. Len(t) + 1 \in DOMAIN u /\ u[Len(t) + 1].status = to
    BY <1>1, <1>2
  <1> QED BY <1>3, <1>5, <1>6, <1>7 DEF Legal, u, e

-----------------------------------------------------------------------------
(* Rows *)

\* u begins with the entries of t.
Extends(t, u) == Len(t) <= Len(u) /\ \A i \in 1 .. Len(t) : u[i] = t[i]

LEMMA ExtendsIsPrefix ==
    ASSUME NEW t \in Seq(Entries), NEW u \in Seq(Entries), Extends(t, u)
    PROVE  IsPrefix(t, u)
  BY DEF Extends, IsPrefix

\* What every row holds, whether stored or computed.
RowOK(r) ==
    /\ r \in Row
    /\ Legal(r.timeline, r.status)
    /\ r.status = "SUBMITTED_TO_PROVIDER" => r.reference
    /\ r.status # "DRAFT" => r.submitted

\* What a row n that is computed from row r holds besides.
NextOK(r, n) ==
    /\ Extends(r.timeline, n.timeline)
    /\ r.status \in Final => n.status = r.status

LEMMA AnnouncedOK ==
    ASSUME RowOK(row), NEW to \in VisaStates, Moves(row.status, to)
    PROVE  /\ Announced(to) \in Seq(Entries) /\ Legal(Announced(to), to)
           /\ Extends(row.timeline, Announced(to))
           /\ row.status \in Final => to = row.status
  <1>1. row.timeline \in Seq(Entries) /\ row.status \in VisaStates
    BY DEF RowOK, Row
  <1>2. row.status \in Final => to = row.status
    BY <1>1 DEF Moves, Final, Transitions, VisaStates
  <1>3. CASE to = row.status
    BY <1>1, <1>2, <1>3 DEF Announced, Extends, RowOK
  <1>4. CASE to # row.status
    <2>1. Entry(to, "customer") \in Entries BY DEF Entry, Entries
    <2>2. to \in Transitions[row.status] /\ Announced(to) = Append(row.timeline, Entry(to, "customer"))
      BY <1>4 DEF Moves, Announced
    <2>3. Legal(Announced(to), to)
      BY <1>1, <2>2, AnnouncementKeepsLegal DEF RowOK
    <2> QED BY <1>1, <1>2, <2>1, <2>2, <2>3, Appended DEF Extends
  <1> QED BY <1>3, <1>4

LEMMA CustomerRowOK ==
    ASSUME RowOK(row), NEW to \in VisaStates, NEW d \in Data, CustomerMay(to)
    PROVE  LET n == [row EXCEPT !.status = to, !.data = d, !.timeline = Announced(to),
                                !.submitted = @ \/ to # row.status]
           IN  RowOK(n) /\ NextOK(row, n)
  <1> DEFINE n == [row EXCEPT !.status = to, !.data = d, !.timeline = Announced(to),
                              !.submitted = @ \/ to # row.status]
  <1>1. /\ Announced(to) \in Seq(Entries) /\ Legal(Announced(to), to)
        /\ Extends(row.timeline, Announced(to))
        /\ row.status \in Final => to = row.status
    BY AnnouncedOK DEF CustomerMay
  <1>2. row \in Row BY DEF RowOK
  <1>3. /\ n \in Row /\ n.status = to /\ n.timeline = Announced(to)
        /\ n.submitted = (row.submitted \/ to # row.status) /\ n.reference = row.reference
    BY <1>1, <1>2 DEF Row
  <1>4. to \in {"DRAFT", "SUBMITTED"}
    BY DEF CustomerMay
  <1> HIDE DEF n
  <1>5. RowOK(n)
    BY <1>1, <1>3, <1>4 DEF RowOK, CustomerMay
  <1> QED BY <1>1, <1>3, <1>5 DEF NextOK, n

LEMMA OfficerRowOK ==
    ASSUME RowOK(row), NEW to \in VisaStates, NEW reference \in BOOLEAN, NEW note \in BOOLEAN,
           Moves(row.status, to), Sendable(to, reference)
    PROVE  LET n == [row EXCEPT !.status = to, !.reference = reference,
                                !.submitted = @ \/ to # "DRAFT",
                                !.timeline = IF note THEN Append(Announced(to), Entry(to, "internal"))
                                                     ELSE Announced(to)]
           IN  RowOK(n) /\ NextOK(row, n)
  <1> DEFINE t == IF note THEN Append(Announced(to), Entry(to, "internal")) ELSE Announced(to)
             n == [row EXCEPT !.status = to, !.reference = reference,
                              !.submitted = @ \/ to # "DRAFT", !.timeline = t]
  <1>1. /\ Announced(to) \in Seq(Entries) /\ Legal(Announced(to), to)
        /\ Extends(row.timeline, Announced(to))
        /\ row.status \in Final => to = row.status
    BY AnnouncedOK
  <1>2. Entry(to, "internal") \in Entries BY DEF Entry, Entries
  <1>3. row \in Row /\ row.timeline \in Seq(Entries) BY DEF RowOK, Row
  <1>4. t \in Seq(Entries) /\ Legal(t, to) /\ Extends(row.timeline, t)
    <2>1. CASE note
      <3>1. Append(Announced(to), Entry(to, "internal")) \in Seq(Entries)
        BY <1>1, <1>2, Appended
      <3>2. Extends(row.timeline, Append(Announced(to), Entry(to, "internal")))
        BY <1>1, <1>2, <1>3, Appended DEF Extends
      <3> QED BY <1>1, <2>1, <3>1, <3>2, NoteKeepsLegal
    <2>2. CASE ~ note
      BY <1>1, <2>2
    <2> QED BY <2>1, <2>2
  <1> HIDE DEF t
  <1>5. /\ n \in Row /\ n.status = to /\ n.timeline = t /\ n.reference = reference
        /\ n.submitted = (row.submitted \/ to # "DRAFT")
    BY <1>3, <1>4 DEF Row
  <1> HIDE DEF n
  <1>6. RowOK(n)
    BY <1>4, <1>5 DEF RowOK, Sendable
  <1> QED BY <1>1, <1>4, <1>5, <1>6 DEF NextOK, n, t

-----------------------------------------------------------------------------
\* Why the invariants are inductive: the stored row and every row that a session
\* is about to write are sound on their own, and one that has not been overtaken
\* continues the stored one.
CaseInv ==
    /\ RowOK(row)
    /\ draft \in [Sessions -> {NoDraft} \cup Draft]
    /\ \A s \in Sessions : draft[s] # NoDraft =>
          /\ RowOK(draft[s].row)
          /\ draft[s].fresh => NextOK(row, draft[s].row)

LEMMA InitCase == Init => CaseInv
  <1> SUFFICES ASSUME Init PROVE CaseInv
    OBVIOUS
  <1>1. PICK d \in Data :
           row = [status |-> "DRAFT", data |-> d, reference |-> FALSE, submitted |-> FALSE,
                  timeline |-> <<Entry("DRAFT", "customer")>>]
    BY DEF Init
  <1> DEFINE e == Entry("DRAFT", "customer")
  <1>2. e \in Entries /\ e.audience = "customer" /\ e.status = "DRAFT"
    BY DEF Entry, Entries, VisaStates
  <1> HIDE DEF e
  <1>3. Legal(<<e>>, "DRAFT") /\ <<e>> \in Seq(Entries)
    BY <1>2 DEF Legal, Shown, Follows
  <1>4. RowOK(row)
    BY <1>1, <1>3 DEF RowOK, Row, VisaStates, e
  <1> QED BY <1>4 DEF Init, CaseInv

\* A session that computes a sound next row keeps CaseInv.
LEMMA ComputeKeeps ==
    ASSUME CaseInv, NEW s \in Sessions, NEW n, RowOK(n), NextOK(row, n), Compute(s, n)
    PROVE  CaseInv'
  <1> DEFINE j == [row |-> n, fresh |-> TRUE]
  <1>1. j \in Draft /\ j.row = n /\ j.fresh
    BY DEF Draft, RowOK
  <1>2. draft' = [draft EXCEPT ![s] = j] /\ row' = row
    BY DEF Compute
  <1> HIDE DEF j
  <1>3. /\ draft' \in [Sessions -> {NoDraft} \cup Draft] /\ draft'[s] = j
        /\ \A q \in Sessions \ {s} : draft'[q] = draft[q]
    BY <1>1, <1>2 DEF CaseInv
  <1> QED BY <1>1, <1>2, <1>3 DEF CaseInv

LEMMA SaveKeeps ==
    ASSUME CaseInv, NEW s \in Sessions, Save(s)
    PROVE  CaseInv'
  <1>1. RowOK(row')
    BY DEF Save, CaseInv
  <1>2. ASSUME NEW q \in Sessions, draft[q] # NoDraft
        PROVE  /\ Outdated[q] \in Draft /\ Outdated[q].row = draft[q].row
               /\ ~ Outdated[q].fresh
    BY <1>2 DEF Outdated, CaseInv, Draft
  <1>3. ASSUME NEW q \in Sessions, draft[q] = NoDraft PROVE Outdated[q] = NoDraft
    BY <1>3 DEF Outdated
  <1>4. draft' = [Outdated EXCEPT ![s] = NoDraft]
    BY DEF Save
  <1>5. /\ draft' \in [Sessions -> {NoDraft} \cup Draft]
        /\ \A q \in Sessions : draft'[q] # NoDraft => draft[q] # NoDraft /\ draft'[q] = Outdated[q]
    BY <1>2, <1>3, <1>4 DEF Outdated
  <1> QED BY <1>1, <1>2, <1>5 DEF CaseInv

LEMMA CaseStep == CaseInv /\ [Next]_vars => CaseInv'
  <1> SUFFICES ASSUME CaseInv, [Next]_vars PROVE CaseInv'
    OBVIOUS
  <1>1. RowOK(row) BY DEF CaseInv
  <1>2. ASSUME NEW s \in Sessions, NEW to \in VisaStates, NEW d \in Data,
               CustomerUpdate(s, to, d)
        PROVE  CaseInv'
    BY <1>1, <1>2, CustomerRowOK, ComputeKeeps DEF CustomerUpdate
  <1>3. ASSUME NEW s \in Sessions, NEW to \in VisaStates, NEW reference \in BOOLEAN,
               NEW note \in BOOLEAN, OfficerUpdate(s, to, reference, note)
        PROVE  CaseInv'
    BY <1>1, <1>3, OfficerRowOK, ComputeKeeps DEF OfficerUpdate
  <1>4. ASSUME NEW s \in Sessions, Fail(s) PROVE CaseInv'
    BY <1>4 DEF Fail, CaseInv
  <1>5. CASE UNCHANGED vars
    BY <1>5 DEF vars, CaseInv
  <1> QED BY <1>2, <1>3, <1>4, <1>5, SaveKeeps DEF Next, Update

\* The row and the drafts have their types.
THEOREM TypeCorrect == Spec => []TypeOK
  <1>1. CaseInv => TypeOK BY DEF CaseInv, TypeOK, RowOK, Draft
  <1> QED BY <1>1, InitCase, CaseStep, PTL DEF Spec

\* The customer is shown a legal history that ends in the case's status.
THEOREM HistoriesAreLegal == Spec => []HistoryIsLegal
  <1>1. CaseInv => HistoryIsLegal BY DEF CaseInv, RowOK, Legal, HistoryIsLegal
  <1> QED BY <1>1, InitCase, CaseStep, PTL DEF Spec

\* A case at the provider has its reference, and one that was sent in its date.
THEOREM CasesAreComplete == Spec => []CaseIsComplete
  <1>1. CaseInv => CaseIsComplete BY DEF CaseInv, RowOK, CaseIsComplete
  <1> QED BY <1>1, InitCase, CaseStep, PTL DEF Spec

\* Entries and final statuses are lost to updates that another one has overtaken, and
\* to no other.
THEOREM OnlyOvertakenLose == Spec => NothingLost
  <1> DEFINE Lost == \/ ~ IsPrefix(row.timeline, row'.timeline)
                     \/ row.status \in Final /\ row'.status # row.status
             Late == \E s \in Sessions : draft[s] # NoDraft /\ ~draft[s].fresh /\ draft'[s] = NoDraft
  <1>1. ASSUME CaseInv, [Next]_vars, Lost PROVE Late
    <2>0. row.timeline \in Seq(Entries) BY <1>1 DEF CaseInv, RowOK, Row
    <2>1. row' # row
      <3>1. Extends(row.timeline, row.timeline) BY <2>0 DEF Extends
      <3> QED BY <1>1, <2>0, <3>1, ExtendsIsPrefix
    <2>2. PICK s \in Sessions : Save(s)
      BY <1>1, <2>1 DEF Next, Update, CustomerUpdate, OfficerUpdate, Compute, Fail, vars
    <2>3. /\ draft[s] # NoDraft /\ row' = draft[s].row /\ draft'[s] = NoDraft
          /\ RowOK(row') /\ (draft[s].fresh => NextOK(row, row'))
      BY <1>1, <2>2 DEF Save, CaseInv, Outdated
    <2>4. row'.timeline \in Seq(Entries) BY <2>3 DEF RowOK, Row
    <2>5. ~ NextOK(row, row')
      BY <1>1, <2>0, <2>4, ExtendsIsPrefix DEF NextOK
    <2> QED BY <2>3, <2>5
  <1>2. CaseInv /\ [Next]_vars => [Lost => Late]_vars
    BY <1>1
  <1> QED BY <1>2, InitCase, CaseStep, PTL DEF Spec, NothingLost
=============================================================================
