-------------------------------- MODULE Team --------------------------------
(***************************************************************************)
(* The memberships of one merchant organization: who is on the team, with  *)
(* which roles, and the concurrent requests of managers and of the back    *)
(* office that change that (updateMembershipStatus, setMembershipRoles and *)
(* upsertMembership of repositories/platform.ts, contextFor and the team   *)
(* routes of routes/platform.ts).                                          *)
(*                                                                         *)
(* All of it runs at read committed: a request is admitted on one read,    *)
(* looks for another owner on a second, and writes in a third step; a new  *)
(* set of roles is a delete of the rows the statement sees followed by an  *)
(* insert.  The permissions of a role are a constant here.                 *)
(***************************************************************************)
EXTENDS Integers, FiniteSets

CONSTANTS
    Members,   \* users that are or may come on the team
    Requests,  \* requests that may be in flight at once
    Roles,     \* role codes of a merchant
    Owner,     \* MERCHANT_OWNER
    Managing,  \* the roles that carry merchant.team.manage
    Statuses,  \* membership statuses considered
    Office     \* the back office, as the author of a request

VARIABLES
    status,  \* OrganizationMembership.status of a member, or none
    roles,   \* the roles of a member
    req      \* what each request has read and is about to do

vars == <<status, roles, req>>

Idle == [phase |-> "idle"]

\* What a request asks for: a status, or a set of roles.
SetStatus(s) == [kind |-> "status", status |-> s, roles |-> {}]
SetRoles(S)  == [kind |-> "roles", status |-> "none", roles |-> S]

\* A request for member m: what it asks for, the role rows its delete has seen,
\* and whether the team is still as it found it.
Request(phase, m, to, seen) ==
    [phase |-> phase, member |-> m, to |-> to, seen |-> seen, fresh |-> TRUE]

Init ==
    /\ status = [m \in Members |-> "none"]
    /\ roles  = [m \in Members |-> {}]
    /\ req    = [r \in Requests |-> Idle]

-----------------------------------------------------------------------------
Manages(m) == status[m] = "ACTIVE" /\ roles[m] \cap Managing # {}

Owns(m) == status[m] = "ACTIVE" /\ Owner \in roles[m]

Owned == \E m \in Members : Owns(m)

\* Another member is an active owner.
OtherOwner(m) == \E k \in Members \ {m} : Owns(k)

\* What a request has checked so far no longer holds for sure.
Outdated ==
    [r \in Requests |-> IF req[r] = Idle THEN Idle ELSE [req[r] EXCEPT !.fresh = FALSE]]

\* contextFor: the back office, or an active member whose roles allow it; nobody
\* changes the status of his own membership.
MaySend(by, m, to) ==
    \/ by = Office /\ to.kind = "roles"
    \/ by \in Members /\ Manages(by) /\ (to.kind = "status" => m # by)

\* The routes: a manager asks for one to three roles, the back office for any.
Wanted(by) ==
    {SetStatus(s) : s \in {"ACTIVE", "SUSPENDED"} \cap Statuses}
    \cup {SetRoles(S) : S \in {T \in SUBSET Roles : by = Office \/ Cardinality(T) \in 1 .. 3}}

Send(r, by, m, to) ==
    /\ req[r] = Idle
    /\ MaySend(by, m, to)
    /\ req' = [req EXCEPT ![r] = Request("admitted", m, to, {})]
    /\ UNCHANGED <<status, roles>>

\* The request takes the ownership of its member away.
Unseats(m, to) ==
    /\ Owner \in roles[m]
    /\ to.kind = "status" => to.status = "SUSPENDED"
    /\ to.kind = "roles"  => Owner \notin to.roles

\* The reads of the transaction: the membership, its roles, and another owner
\* where the request needs one; the delete of a new set of roles begins here.
Check(r) ==
    LET q == req[r] IN
    /\ q.phase = "admitted"
    /\ status[q.member] # "none"
    /\ Unseats(q.member, q.to) => OtherOwner(q.member)
    /\ req' = [req EXCEPT ![r] = Request("checked", q.member, q.to, roles[q.member])]
    /\ UNCHANGED <<status, roles>>

SaveStatus(r) ==
    LET q == req[r] IN
    /\ q.phase = "checked" /\ q.to.kind = "status"
    /\ status' = [status EXCEPT ![q.member] = q.to.status]
    /\ req'    = [Outdated EXCEPT ![r] = Idle]
    /\ UNCHANGED roles

Missed_All(r) == roles[req[r].member]

\* The rows that concurrent requests have inserted since the check: the delete misses
\* those of them that are inserted after it.
Missed(r) == roles[req[r].member] \ req[r].seen

\* The rows that r inserts are new ones: nobody's delete has seen them.
Unseen(r) ==
    [p \in Requests |->
        IF req[p] = Idle \/ req[p].member # req[r].member THEN Outdated[p]
        ELSE [req[p] EXCEPT !.fresh = FALSE, !.seen = @ \ req[r].to.roles]]

\* deleteMany then createMany; the delete begins when the request is checked or
\* later.  An insert of a row that is there fails, and the transaction with it.
SaveRoles(r) ==
    LET q == req[r] IN
    /\ q.phase = "checked" /\ q.to.kind = "roles"
    /\ \E missed \in SUBSET Missed(r) :
          /\ missed \cap q.to.roles = {}
          /\ roles' = [roles EXCEPT ![q.member] = missed \cup q.to.roles]
    /\ req' = [Unseen(r) EXCEPT ![r] = Idle]
    /\ UNCHANGED status

\* A refusal, a unique violation or a storage error rolls the request back.
Refuse(r) ==
    /\ req[r] # Idle
    /\ req' = [req EXCEPT ![r] = Idle]
    /\ UNCHANGED <<status, roles>>

\* upsertMembership of the back office: any status, for anybody, at once.
Upsert(m, s) ==
    /\ status' = [status EXCEPT ![m] = s]
    /\ req'    = Outdated
    /\ UNCHANGED roles

-----------------------------------------------------------------------------
RequestStep(r) ==
    \/ \E by \in Members \cup {Office}, m \in Members :
          \E to \in Wanted(by) : Send(r, by, m, to)
    \/ Check(r) \/ SaveStatus(r) \/ SaveRoles(r) \/ Refuse(r)

OfficeStep == \E m \in Members, s \in Statuses : Upsert(m, s)

Next == (\E r \in Requests : RequestStep(r)) \/ OfficeStep

Spec == Init /\ [][Next]_vars

-----------------------------------------------------------------------------
(* Properties *)

Asks == {SetStatus(s) : s \in Statuses} \cup {SetRoles(S) : S \in SUBSET Roles}

TypeOK ==
    /\ status \in [Members -> Statuses \cup {"none"}]
    /\ roles \in [Members -> SUBSET Roles]
    /\ req \in [Requests -> {Idle} \cup
          [phase : {"admitted", "checked"}, member : Members, to : Asks,
           seen : SUBSET Roles, fresh : BOOLEAN]]


\* A request whose write is the next thing to happen to the roles of m.
Writes(r, m) ==
    /\ req[r] # Idle /\ req[r].phase = "checked" /\ req'[r] = Idle
    /\ req[r].to.kind = "roles" /\ req[r].member = m

\* A member never ends with a mixture of two sets of roles that different requests
\* asked for, unless rows of the member were inserted that the delete under way has
\* not seen (setMembershipRoles).
RolesAsAsked ==
    [][\A m \in Members : roles'[m] # roles[m] =>
          \E r \in Requests :
             /\ Writes(r, m)
             /\ roles'[m] = req[r].to.roles \/ roles[m] \ req[r].seen # {}]_vars
=============================================================================
