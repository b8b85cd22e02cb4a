------------------------------ MODULE MC_Office ------------------------------
(***************************************************************************)
(* A small instance of Office for TLC.                                     *)
(*                                                                         *)
(* The parts do not meet, so the product of their states shows nothing     *)
(* more: a behaviour picks one part and runs it, the others stay in one    *)
(* initial state.  Departures and Login are run in two parts each, which   *)
(* differ in who is active.                                                *)
(***************************************************************************)
EXTENDS Office, TLC

CONSTANTS
    c1, c2, w1,          \* Departures: checkouts and a writer of booking statuses
    a1, a2, b1, b2,      \* two things of a kind, and two of another, in every part
    own, agent,          \* Team
    customer, officer,   \* VisaCases
    browser1,            \* Login
    merchant, editor     \* Catalogue

VARIABLE part

allVars == <<part, officeVars>>

-----------------------------------------------------------------------------
(* Departures: a checkout that names two travellers, one that names nobody *)

PartyOf == c1 :> 2 @@ c2 :> 1

Only(field, value) ==
    [[f \in {"total", "held", "status"} |-> Keep] EXCEPT ![field] = value]

SomePatches ==
    {Only("total", 1), Only("total", 2), Only("held", 0), Only("held", 1),
     Only("status", "OPEN"), Only("status", "CANCELLED")}

\* In "edits" two sessions edit freely and the package changes; in "bookings" one
\* session at a time edits a little and booking statuses are written.
EditsNext ==
    \/ \E c \in Checkouts : CustomerStep(c) \/ CompensationStep(c)
    \/ \E s \in Staff : StaffStep(s)
    \/ UpdatePackage

BookingsNext ==
    \/ \E c \in Checkouts : CustomerStep(c) \/ CompensationStep(c)
    \/ \E s \in Staff : /\ \A t \in Staff \ {s} : form[t] = NoForm
                        /\ \/ \E p \in {Only("total", 1), Only("status", "OPEN")} : OpenForm(s, p)
                           \/ SaveForm(s)
    \/ \E w \in Writers : WriterStep(w)

\* Login: in "ask" two requests for a code meet; in "verify" one code is asked for
\* and verified at once by two.
AskNext == \E c \in Challenges : L!AskStep(c)

VerifyNext ==
    \/ \E c \in Challenges : (\A d \in Challenges \ {c} : ask[d] = "idle") /\ L!AskStep(c)
    \/ \E v \in Verifiers : L!VerifyStep(v)
    \/ L!SessionStep

-----------------------------------------------------------------------------
Parts == {"edits", "bookings", "team", "visa", "ask", "verify", "payouts", "support", "catalogue"}

\* A part that does not run has one initial state.
PartInit ==
    /\ part \in Parts
    /\ Init
    /\ part \in {"edits", "bookings"} \/ (total = 0 /\ limit = NoLimit /\ onSale)
    /\ T!Init /\ L!Init /\ P!Init
    /\ V!Init /\ (part = "visa" \/ visa.data = 1)
    /\ S!Init /\ (part = "support" \/ ticketOwner = "customer")
    /\ C!Init /\ (part = "catalogue" \/ (texts /\ stocked /\ covers = {}))

PartNext ==
    /\ UNCHANGED part
    /\ \/ part = "edits"     /\ EditsNext    /\ Rest("departures")
       \/ part = "bookings"  /\ BookingsNext /\ Rest("departures")
       \/ part = "team"      /\ T!Next       /\ Rest("team")
       \/ part = "visa"      /\ V!Next       /\ Rest("visa")
       \/ part = "ask"       /\ AskNext      /\ Rest("login")
       \/ part = "verify"    /\ VerifyNext   /\ Rest("login")
       \/ part = "payouts"   /\ P!Next       /\ Rest("payouts")
       \/ part = "support"   /\ S!Next       /\ Rest("support")
       \/ part = "catalogue" /\ C!Next       /\ Rest("catalogue")

\* Its behaviours are behaviours of OfficeSpec.
PartSpec == PartInit /\ [][PartNext]_allVars

\* Sessions and requests of a kind are interchangeable, and so are members,
\* challenges and bank references; checkouts, roles, merchant and editor are not.
OfficeSymmetry == Permutations({a1, a2}) \cup Permutations({b1, b2})
=============================================================================
