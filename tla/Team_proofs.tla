----------------------------- MODULE Team_proofs -----------------------------
(***************************************************************************)
(* Proofs about Team for any number of members, requests and roles.        *)
(***************************************************************************)
EXTENDS Team, TLAPS

Job == [phase : {"admitted", "checked"}, member : Members, to : Asks,
        seen : SUBSET Roles, fresh : BOOLEAN]

LEMMA IdleIsNoJob ==
    /\ Idle \notin Job
    /\ Idle.phase = "idle"
  <1>1. ASSUME Idle \in Job PROVE FALSE
    BY <1>1 DEF Job, Idle
  <1> QED BY <1>1 DEF Idle

\* What may be asked for is a status or a set of roles.
LEMMA AskParts ==
    ASSUME NEW to \in Asks
    PROVE  \/ to.kind = "status" /\ to.status \in Statuses
           \/ to.kind = "roles" /\ to.roles \in SUBSET Roles
  BY DEF Asks, SetStatus, SetRoles

LEMMA WantedIsAsk ==
    ASSUME NEW by, NEW to \in Wanted(by)
    PROVE  to \in Asks /\ (to.kind = "status" => to.status \in {"ACTIVE", "SUSPENDED"})
  <1>1. CASE \E s \in {"ACTIVE", "SUSPENDED"} \cap Statuses : to = SetStatus(s)
    BY <1>1 DEF Asks, SetStatus
  <1>2. CASE \E S \in SUBSET Roles : to = SetRoles(S)
    BY <1>2 DEF Asks, SetRoles
  <1> QED BY <1>1, <1>2 DEF Wanted

\* Why an owner remains while no request is overtaken: while nothing has overtaken a request,
\* what it found when it was checked is still so.
TeamInv ==
    /\ TypeOK
    /\ \A r \in Requests : req[r] # Idle /\ req[r].to.kind = "status" =>
          req[r].to.status \in {"ACTIVE", "SUSPENDED"}
    /\ \A r \in Requests : req[r].phase = "checked" /\ req[r].fresh =>
          /\ Unseats(req[r].member, req[r].to) => OtherOwner(req[r].member)
          /\ req[r].seen = roles[req[r].member]

LEMMA InitTeam == Init => TeamInv
  BY IdleIsNoJob DEF Init, TeamInv, TypeOK, Job

\* A request that is replaced by a fresh one, while the team stays as it is.
LEMMA ReplaceKeeps ==
    ASSUME TeamInv, NEW r \in Requests, NEW q \in Job \cup {Idle},
           req' = [req EXCEPT ![r] = q], UNCHANGED <<status, roles>>,
           q # Idle /\ q.to.kind = "status" => q.to.status \in {"ACTIVE", "SUSPENDED"},
           q.phase = "checked" => (Unseats(q.member, q.to) => OtherOwner(q.member))
                                  /\ q.seen = roles[q.member]
    PROVE  TeamInv'
  <1>1. req'[r] = q /\ \A p \in Requests \ {r} : req'[p] = req[p]
    BY DEF TeamInv, TypeOK
  <1> QED BY <1>1 DEF TeamInv, TypeOK, Job, Unseats, OtherOwner, Owns

LEMMA SendKeeps ==
    ASSUME TeamInv, NEW r \in Requests, NEW by, NEW m \in Members,
           NEW to \in Wanted(by), Send(r, by, m, to)
    PROVE  TeamInv'
  <1> DEFINE q == Request("admitted", m, to, {})
  <1>1. q \in Job /\ q.to = to /\ q.phase = "admitted"
    BY WantedIsAsk DEF Request, Job
  <1>2. req' = [req EXCEPT ![r] = q] /\ UNCHANGED <<status, roles>>
    BY DEF Send
  <1> HIDE DEF q
  <1> QED BY <1>1, <1>2, WantedIsAsk, ReplaceKeeps

LEMMA CheckKeeps ==
    ASSUME TeamInv, NEW r \in Requests, Check(r)
    PROVE  TeamInv'
  <1>1. req[r] \in Job /\ req[r] # Idle
    BY IdleIsNoJob DEF Check, TeamInv, TypeOK, Job
  <1> DEFINE m == req[r].member
             to == req[r].to
             q  == Request("checked", m, to, roles[m])
  <1>2. /\ m \in Members /\ to \in Asks
        /\ (Unseats(m, to) => OtherOwner(m))
        /\ req' = [req EXCEPT ![r] = q] /\ UNCHANGED <<status, roles>>
        /\ to.kind = "status" => to.status \in {"ACTIVE", "SUSPENDED"}
    BY <1>1 DEF Check, TeamInv, Job
  <1>3. q \in Job /\ q.to = to /\ q.member = m /\ q.seen = roles[m]
    BY <1>2 DEF Request, Job, TeamInv, TypeOK
  <1> HIDE DEF m, to, q
  <1> QED BY <1>2, <1>3, ReplaceKeeps

\* A request that others have overtaken stays what it was, but for what it knows.
LEMMA OutdatedJobs ==
    ASSUME TeamInv, NEW r \in Requests, NEW R \in SUBSET Roles
    PROVE  /\ req[r] = Idle => Outdated[r] = Idle
           /\ req[r] # Idle =>
                 /\ Outdated[r] \in Job /\ ~ Outdated[r].fresh
                 /\ Outdated[r].to = req[r].to
                 /\ [req[r] EXCEPT !.fresh = FALSE, !.seen = @ \ R] \in Job
                 /\ ~ [req[r] EXCEPT !.fresh = FALSE, !.seen = @ \ R].fresh
                 /\ [req[r] EXCEPT !.fresh = FALSE, !.seen = @ \ R].to = req[r].to
  <1>1. CASE req[r] = Idle
    BY <1>1 DEF Outdated
  <1>2. CASE req[r] # Idle
    <2>1. req[r] \in Job
      BY <1>2 DEF TeamInv, TypeOK, Job
    <2>2. Outdated[r] = [req[r] EXCEPT !.fresh = FALSE]
      BY <1>2 DEF Outdated
    <2>3. \A q \in Job :
             LET o == [q EXCEPT !.fresh = FALSE]
                 u == [q EXCEPT !.fresh = FALSE, !.seen = @ \ R]
             IN  /\ o \in Job /\ ~ o.fresh /\ o.to = q.to
                 /\ u \in Job /\ ~ u.fresh /\ u.to = q.to
      BY DEF Job
    <2> QED BY <1>2, <2>1, <2>2, <2>3
  <1> QED BY <1>1, <1>2

\* Once every request has been overtaken there is nothing left to keep.
LEMMA OvertakenKeeps ==
    ASSUME TeamInv, req' \in [Requests -> Job \cup {Idle}],
           status' \in [Members -> Statuses \cup {"none"}],
           roles' \in [Members -> SUBSET Roles],
           \A r \in Requests : req'[r] # Idle =>
              req[r] # Idle /\ ~ req'[r].fresh /\ req'[r].to = req[r].to
    PROVE  TeamInv'
  BY IdleIsNoJob DEF TeamInv, TypeOK, Job

LEMMA SaveStatusKeeps ==
    ASSUME TeamInv, NEW r \in Requests, SaveStatus(r)
    PROVE  TeamInv'
  <1>1. req[r] \in Job
    BY IdleIsNoJob DEF SaveStatus, TeamInv, TypeOK, Job
  <1>2. req[r].to.status \in Statuses
    BY <1>1, AskParts DEF SaveStatus, Job
  <1>3. /\ status' \in [Members -> Statuses \cup {"none"}]
        /\ roles' \in [Members -> SUBSET Roles]
    BY <1>1, <1>2 DEF SaveStatus, TeamInv, TypeOK, Job
  <1>4. req' = [Outdated EXCEPT ![r] = Idle]
    BY DEF SaveStatus
  <1>5. /\ req' \in [Requests -> Job \cup {Idle}]
        /\ \A p \in Requests : req'[p] # Idle => req'[p] = Outdated[p] /\ req[p] # Idle
    BY <1>4, OutdatedJobs DEF Outdated
  <1> QED BY <1>3, <1>5, OutdatedJobs, OvertakenKeeps

LEMMA SaveRolesKeeps ==
    ASSUME TeamInv, NEW r \in Requests, SaveRoles(r)
    PROVE  TeamInv'
  <1>1. req[r] \in Job
    BY IdleIsNoJob DEF SaveRoles, TeamInv, TypeOK, Job
  <1>2. req[r].to.roles \in SUBSET Roles /\ req[r].member \in Members
    BY <1>1, AskParts DEF SaveRoles, Job
  <1>3. Missed(r) \in SUBSET Roles
    BY <1>2 DEF Missed, TeamInv, TypeOK
  <1>4. /\ status' \in [Members -> Statuses \cup {"none"}]
        /\ roles' \in [Members -> SUBSET Roles]
    BY <1>1, <1>2, <1>3 DEF SaveRoles, TeamInv, TypeOK
  <1>5. req' = [Unseen(r) EXCEPT ![r] = Idle]
    BY DEF SaveRoles
  <1>6. \A p \in Requests : \/ Unseen(r)[p] = Outdated[p]
                            \/ /\ req[p] # Idle
                               /\ Unseen(r)[p] = [req[p] EXCEPT !.fresh = FALSE,
                                                    !.seen = @ \ req[r].to.roles]
    BY DEF Unseen
  <1>7. \A p \in Requests :
           /\ Unseen(r)[p] \in Job \cup {Idle}
           /\ Unseen(r)[p] # Idle =>
                 req[p] # Idle /\ ~ Unseen(r)[p].fresh /\ Unseen(r)[p].to = req[p].to
    BY <1>2, <1>6, OutdatedJobs
  <1>8. /\ req' \in [Requests -> Job \cup {Idle}]
        /\ \A p \in Requests : req'[p] # Idle => req'[p] = Unseen(r)[p]
    BY <1>5, <1>7 DEF Unseen
  <1> QED BY <1>4, <1>7, <1>8, OvertakenKeeps

LEMMA TeamStep == TeamInv /\ [Next]_vars => TeamInv'
  <1> SUFFICES ASSUME TeamInv, [Next]_vars PROVE TeamInv'
    OBVIOUS
  <1>1. ASSUME NEW r \in Requests, Refuse(r) PROVE TeamInv'
    BY <1>1, ReplaceKeeps, IdleIsNoJob DEF Refuse
  <1>2. ASSUME NEW m \in Members, NEW s \in Statuses, Upsert(m, s) PROVE TeamInv'
    <2>1. /\ status' \in [Members -> Statuses \cup {"none"}] /\ roles' = roles
          /\ req' = Outdated
      BY <1>2 DEF Upsert, TeamInv, TypeOK
    <2>2. /\ req' \in [Requests -> Job \cup {Idle}]
          /\ \A p \in Requests : req'[p] # Idle => req[p] # Idle
      BY <2>1, OutdatedJobs DEF Outdated
    <2>3. roles' \in [Members -> SUBSET Roles]
      BY <2>1 DEF TeamInv, TypeOK
    <2> QED BY <2>1, <2>2, <2>3, OutdatedJobs, OvertakenKeeps
  <1>3. CASE UNCHANGED vars
    BY <1>3 DEF vars, TeamInv, TypeOK, Unseats, OtherOwner, Owns
  <1> QED BY <1>1, <1>2, <1>3, SendKeeps, CheckKeeps, SaveStatusKeeps, SaveRolesKeeps
          DEF Next, RequestStep, OfficeStep

\* Statuses, roles and requests have their types.
THEOREM TypeCorrect == Spec => []TypeOK
  <1>1. TeamInv => TypeOK BY DEF TeamInv
  <1> QED BY <1>1, InitTeam, TeamStep, PTL DEF Spec

-----------------------------------------------------------------------------
\* A request that is written without having been overtaken leaves an owned
\* organization owned.
LEMMA FreshKeepsOwner ==
    ASSUME TeamInv, NEW r \in Requests, SaveStatus(r) \/ SaveRoles(r),
           req[r].fresh, Owned
    PROVE  Owned'
  <1>1. req[r] \in Job /\ req[r] # Idle /\ req[r].phase = "checked"
    BY IdleIsNoJob DEF SaveStatus, SaveRoles, TeamInv, TypeOK, Job
  <1> DEFINE m == req[r].member
             to == req[r].to
  <1>2. m \in Members /\ to \in Asks
        /\ (to.kind = "status" => to.status \in {"ACTIVE", "SUSPENDED"})
        /\ (Unseats(m, to) => OtherOwner(m))
    BY <1>1 DEF TeamInv, Job
  <1>3. \A k \in Members \ {m} : status'[k] = status[k] /\ roles'[k] = roles[k]
    BY <1>2 DEF SaveStatus, SaveRoles, TeamInv, TypeOK
  <1>4. PICK k \in Members : Owns(k)
    BY DEF Owned
  <1>5. CASE k # m
    BY <1>3, <1>4, <1>5 DEF Owned, Owns
  <1>6. CASE Unseats(m, to)
    BY <1>2, <1>3, <1>6 DEF OtherOwner, Owned, Owns
  <1>7. CASE k = m /\ ~ Unseats(m, to)
    <2>1. status[m] = "ACTIVE" /\ Owner \in roles[m]
      BY <1>4, <1>7 DEF Owns
    <2>2. CASE SaveStatus(r)
      <3>1. to.kind = "status" /\ to.status = "ACTIVE"
        BY <1>2, <1>7, <2>1, <2>2 DEF SaveStatus, Unseats
      <3>2. status'[m] = "ACTIVE" /\ roles'[m] = roles[m]
        BY <1>2, <2>2, <3>1 DEF SaveStatus, TeamInv, TypeOK
      <3> QED BY <1>2, <2>1, <3>2 DEF Owned, Owns
    <2>3. CASE SaveRoles(r)
      <3>1. to.kind = "roles" /\ Owner \in to.roles
        BY <1>7, <2>1, <2>3 DEF SaveRoles, Unseats
      <3>2. status'[m] = status[m] /\ to.roles \subseteq roles'[m]
        BY <1>2, <2>3 DEF SaveRoles, TeamInv, TypeOK
      <3> QED BY <1>2, <2>1, <3>1, <3>2 DEF Owned, Owns
    <2> QED BY <2>2, <2>3
  <1> QED BY <1>5, <1>6, <1>7

\* The request is done, and the team had changed between its check and its write.
Overtaken(r) == req[r] # Idle /\ ~req[r].fresh /\ req'[r] = Idle

\* What the code does keep of the promise that the last owner is protected: an owned
\* organization stays owned, but for the back office and for requests that were
\* overtaken between their look for another owner and their write.
THEOREM OwnersRemain ==
    Spec => [][Owned /\ ~Owned' => OfficeStep \/ \E r \in Requests : Overtaken(r)]_vars
  <1>1. ASSUME TeamInv, [Next]_vars, Owned, ~ Owned'
        PROVE  OfficeStep \/ \E r \in Requests : Overtaken(r)
    <2>1. CASE UNCHANGED <<status, roles>>
      BY <1>1, <2>1 DEF Owned, Owns
    <2>2. ASSUME NEW r \in Requests, SaveStatus(r) \/ SaveRoles(r) PROVE Overtaken(r)
      <3>1. req[r] # Idle /\ ~ req[r].fresh
        BY <1>1, <2>2, FreshKeepsOwner, IdleIsNoJob DEF SaveStatus, SaveRoles
      <3>2. req'[r] = Idle
        BY <2>2 DEF SaveStatus, SaveRoles, Outdated, Unseen
      <3> QED BY <3>1, <3>2 DEF Overtaken
    <2> QED BY <1>1, <2>1, <2>2 DEF Next, RequestStep, Send, Check, Refuse, vars
  <1>2. TeamInv /\ [Next]_vars
           => [Owned /\ ~Owned' => OfficeStep \/ \E r \in Requests : Overtaken(r)]_vars
    BY <1>1
  <1> QED BY <1>2, InitTeam, TeamStep, PTL DEF Spec

\* A member has the roles of one request, unless rows of the member were inserted that
\* the delete of that request has not seen.
THEOREM RolesAreOneRequests == Spec => RolesAsAsked
  <1> DEFINE Asked(m) == \E r \in Requests :
                            /\ Writes(r, m)
                            /\ roles'[m] = req[r].to.roles \/ roles[m] \ req[r].seen # {}
  <1>1. ASSUME TeamInv, [Next]_vars, NEW m \in Members, roles'[m] # roles[m]
        PROVE  Asked(m)
    <2>1. PICK r \in Requests : SaveRoles(r)
      BY <1>1 DEF Next, RequestStep, OfficeStep, Send, Check, SaveStatus, Refuse, Upsert, vars
    <2>2. /\ req[r] # Idle /\ req[r].phase = "checked" /\ req[r].to.kind = "roles"
          /\ req'[r] = Idle
      BY <2>1, IdleIsNoJob DEF SaveRoles, Unseen
    <2>3. PICK missed \in SUBSET Missed(r) :
             roles' = [roles EXCEPT ![req[r].member] = missed \cup req[r].to.roles]
      BY <2>1 DEF SaveRoles
    <2>4. req[r].member = m
      BY <1>1, <2>3 DEF TeamInv, TypeOK
    <2>5. roles'[m] = missed \cup req[r].to.roles
      BY <1>1, <2>3, <2>4 DEF TeamInv, TypeOK
    <2>6. Missed(r) = roles[m] \ req[r].seen
      BY <2>4 DEF Missed
    <2> QED BY <2>2, <2>3, <2>4, <2>5, <2>6 DEF Writes
  <1>2. TeamInv /\ [Next]_vars => [\A m \in Members : roles'[m] # roles[m] => Asked(m)]_vars
    BY <1>1
  <1> QED BY <1>2, InitTeam, TeamStep, PTL DEF Spec, RolesAsAsked
=============================================================================
