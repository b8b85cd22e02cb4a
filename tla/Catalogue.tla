------------------------------ MODULE Catalogue ------------------------------
(***************************************************************************)
(* Publication of one travel program: its content, edited by the merchant  *)
(* and the back office, and the workflow that puts it on sale              *)
(* (programs/domain.ts; updateProgram, transitionProgram, duplicateProgram *)
(* and the edits of departures and packages of repositories/programs.ts).  *)
(*                                                                         *)
(* All run at read committed.  An edit replaces the rows of a section with *)
(* a delete followed by an insert, so that of two edits at once neither    *)
(* deletes what the other inserts; of covers, a unique index of the        *)
(* database turns the second one away.  A transition checks the content    *)
(* and the status on one read and writes by id.  Of the content the model  *)
(* keeps what publication looks at: the cover image, the rest of the       *)
(* program's own texts, and whether a usable departure and package exist.  *)
(***************************************************************************)
EXTENDS Naturals

CONSTANTS
    Merchants,  \* sessions of the merchant
    Office      \* sessions of the back office

VARIABLES
    publication,  \* publicationStatus
    status,       \* status: ACTIVE, PAUSED or ARCHIVED
    texts,        \* the program's own fields and sections other than media are complete
    stocked,      \* a usable departure and an active package exist
    covers,       \* the cover images, each known by the session that inserted it
    job           \* what a session has read and is about to write, and whether
                  \* the program is still as it found it

content == <<texts, stocked, covers>>
vars    == <<publication, status, content, job>>

Sessions == Merchants \cup Office

Stages == {"DRAFT", "SUBMITTED", "NEEDS_CHANGES", "REJECTED", "PUBLISHED", "PAUSED", "ARCHIVED"}

\* transitionMap
Transitions == [s \in Stages |->
    CASE s \in {"DRAFT", "NEEDS_CHANGES", "REJECTED"} -> {"SUBMITTED", "ARCHIVED"}
      [] s = "SUBMITTED" -> {"PUBLISHED", "NEEDS_CHANGES", "REJECTED", "ARCHIVED"}
      [] s = "PUBLISHED" -> {"PAUSED", "ARCHIVED"}
      [] s = "PAUSED"    -> {"PUBLISHED", "ARCHIVED"}
      [] OTHER           -> {}]

NoJob == [kind |-> "none"]

\* createProgram, or duplicateProgram, whose copy has packages but no departures: it
\* is stocked at once only where future departures are enough (futureSalePolicy).
Init ==
    /\ publication = "DRAFT" /\ status = "ACTIVE"
    /\ texts \in BOOLEAN
    /\ stocked \in BOOLEAN
    /\ covers \in {{}} \cup {{s} : s \in Sessions}
    /\ job = [s \in Sessions |-> NoJob]

\* Whoever is at work has not seen what this step changes.
Outdated == [s \in Sessions |-> IF job[s] = NoJob THEN NoJob ELSE [job[s] EXCEPT !.fresh = FALSE]]

-----------------------------------------------------------------------------
(* Content *)

\* What an edit does to the media: leaves them, or replaces them by some without
\* or with one cover; more than one is refused.
Media == {"keep", "plain", "cover"}

\* updateProgram, its reads; the covers that its delete can see are those of now,
\* or of a moment before its write.
BeginEdit(s, media) ==
    /\ job[s] = NoJob
    /\ publication # "ARCHIVED"
    /\ job' = [job EXCEPT ![s] = [kind |-> "edit", media |-> media, seen |-> covers,
                                  fresh |-> TRUE]]
    /\ UNCHANGED <<publication, status, content>>

\* The covers that other edits have inserted since the delete of this one.
Missed(s) == covers \ job[s].seen

\* The covers once s has written; missed are those its delete did not see.
Replaced(s, missed) ==
    CASE job[s].media = "keep"  -> covers
      [] job[s].media = "plain" -> missed
      [] job[s].media = "cover" -> missed \cup {s}

Insertable_Always(s, missed) == TRUE

\* TravelProgramMedia_one_cover_per_program: a second cover fails the transaction.
Insertable(s, missed) == job[s].media = "cover" => missed = {}

\* The row that s inserts is a new one: nobody's delete has seen it.
SaveEdit(s) ==
    /\ job[s].kind = "edit"
    /\ texts' \in BOOLEAN
    /\ \E missed \in SUBSET Missed(s) :
          Insertable(s, missed) /\ covers' = Replaced(s, missed)
    /\ job' = [t \in Sessions |->
                 CASE t = s -> NoJob
                   [] t # s /\ job[t].kind = "edit" ->
                         [job[t] EXCEPT !.fresh = FALSE, !.seen = @ \ {s}]
                   [] OTHER -> Outdated[t]]
    /\ UNCHANGED <<publication, status, stocked>>

\* Departures and packages come and go with edits of their own, which do not look
\* at the publication (createDeparture, updateDeparture, updatePackage).
Restock ==
    /\ stocked' = ~stocked
    /\ job'     = Outdated
    /\ UNCHANGED <<publication, status, texts, covers>>

-----------------------------------------------------------------------------
(* Workflow *)

\* publicationIssues
Complete == texts /\ stocked /\ covers # {}

\* assertProgramTransition: what a merchant may do.
MerchantMay(to) ==
    /\ to \in {"SUBMITTED", "PAUSED", "ARCHIVED"}
    /\ publication = "PUBLISHED" => to = "PAUSED"

\* The routes and assertProgramTransition: the back office does not submit.
OfficeMay(to) == to \in {"PUBLISHED", "NEEDS_CHANGES", "REJECTED", "PAUSED", "ARCHIVED"}

Publishable_OnSubmit(to) == to = "SUBMITTED" => Complete

\* assertPublishable
Publishable(to) == to \in {"SUBMITTED", "PUBLISHED"} => Complete

BeginMove(s, to) ==
    /\ job[s] = NoJob
    /\ to \in Transitions[publication]
    /\ IF s \in Merchants THEN MerchantMay(to) ELSE OfficeMay(to)
    /\ Publishable(to)
    /\ job' = [job EXCEPT ![s] = [kind |-> "move", to |-> to, fresh |-> TRUE]]
    /\ UNCHANGED <<publication, status, content>>

SaveMove(s) ==
    /\ job[s].kind = "move"
    /\ publication' = job[s].to
    /\ status' = IF job[s].to \in {"ARCHIVED", "PAUSED"} THEN job[s].to ELSE "ACTIVE"
    /\ job' = [Outdated EXCEPT ![s] = NoJob]
    /\ UNCHANGED content

\* A failing write rolls the session's transaction back.
Fail(s) ==
    /\ job[s] # NoJob
    /\ job' = [job EXCEPT ![s] = NoJob]
    /\ UNCHANGED <<publication, status, content>>

-----------------------------------------------------------------------------
SessionStep(s) ==
    \/ \E media \in Media : BeginEdit(s, media)
    \/ \E to \in Stages : BeginMove(s, to)
    \/ SaveEdit(s) \/ SaveMove(s) \/ Fail(s)

Next == (\E s \in Sessions : SessionStep(s)) \/ Restock

Spec == Init /\ [][Next]_vars

-----------------------------------------------------------------------------
(* Properties *)

Edits    == [kind : {"edit"}, media : Media, seen : SUBSET Sessions, fresh : BOOLEAN]
MoveJobs == [kind : {"move"}, to : Stages, fresh : BOOLEAN]

TypeOK ==
    /\ publication \in Stages
    /\ status \in {"ACTIVE", "PAUSED", "ARCHIVED"}
    /\ texts \in BOOLEAN /\ stocked \in BOOLEAN
    /\ covers \in SUBSET Sessions
    /\ job \in [Sessions -> {NoJob} \cup Edits \cup MoveJobs]

OnSale == publication = "PUBLISHED" /\ status = "ACTIVE"

\* A session's work is done that another one overtook.
Overtaken(s) == job[s] # NoJob /\ ~job[s].fresh /\ job'[s] = NoJob

\* A program goes on sale complete, or else its content or status changed between
\* the check of the transition and its write (transitionProgram, assertPublishable).
PublishedComplete ==
    [][~OnSale /\ OnSale' => Complete' \/ \E s \in Sessions : Overtaken(s)]_vars

\* However edits that replace the images at the same time miss each other's rows, a
\* program never has two covers (updateProgram and the index of the database).
OneCover == \A s, t \in covers : s = t
=============================================================================
