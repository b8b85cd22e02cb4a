-------------------------------- MODULE Office --------------------------------
(***************************************************************************)
(* The parts of the system around the orders side by side: Departures,     *)
(* Team, VisaCases, Login, Payouts, SupportDesk and Catalogue.             *)
(*                                                                         *)
(* The handlers of one server run them all on one database, but each part  *)
(* has rows of its own; all that one reads of another is whether the       *)
(* program of a departure is on sale, which Departures leaves free.  A     *)
(* step of the whole is then a step of one part and leaves the others be.  *)
(*                                                                         *)
(* Where a part has a module of proofs that one is taken, so that what it  *)
(* proves of the part can be cited for the whole.                          *)
(***************************************************************************)
EXTENDS Departures_proofs

CONSTANTS
    Members, Requests, Roles, Owner, Managing, MemberStatuses, BackOffice,  \* Team
    Customers, Officers, Data, MaxEntries,                                  \* VisaCases
    Challenges, Verifiers, Browsers, MaxAttempts,                           \* Login
    Clerks, References, NoReference,                                        \* Payouts
    Writing, MaxMessages,                                                   \* SupportDesk
    Merchants, Editors                                                      \* Catalogue

VARIABLES
    memberStatus, memberRoles, request,
    visa, visaDraft,
    otp, sms, arrived, ask, verifier, session, browser, tried, opened, raced,
    batch, work,
    ticket, ticketOwner, messages, task,
    publication, programStatus, texts, stocked, covers, job

T == INSTANCE Team_proofs WITH
        Statuses <- MemberStatuses, Office <- BackOffice,
        status <- memberStatus, roles <- memberRoles, req <- request

V == INSTANCE VisaCases_proofs WITH row <- visa, draft <- visaDraft

L == INSTANCE Login_proofs

P == INSTANCE Payouts

S == INSTANCE SupportDesk WITH Sessions <- Writing, status <- ticket, owner <- ticketOwner

C == INSTANCE Catalogue WITH Office <- Editors, status <- programStatus

teamVars      == <<memberStatus, memberRoles, request>>
visaVars      == <<visa, visaDraft>>
loginVars     == <<otp, sms, arrived, ask, verifier, session, browser, tried, opened, raced>>
payoutVars    == <<batch, work>>
supportVars   == <<ticket, ticketOwner, messages, task>>
catalogueVars == <<publication, programStatus, texts, stocked, covers, job>>

officeVars ==
    <<vars, teamVars, visaVars, loginVars, payoutVars, supportVars, catalogueVars>>

-----------------------------------------------------------------------------
OfficeInit == Init /\ T!Init /\ V!Init /\ L!Init /\ P!Init /\ S!Init /\ C!Init

\* All parts but one stay as they are.
Rest(part) ==
    /\ part # "departures" => UNCHANGED vars
    /\ part # "team"       => UNCHANGED teamVars
    /\ part # "visa"       => UNCHANGED visaVars
    /\ part # "login"      => UNCHANGED loginVars
    /\ part # "payouts"    => UNCHANGED payoutVars
    /\ part # "support"    => UNCHANGED supportVars
    /\ part # "catalogue"  => UNCHANGED catalogueVars

OfficeNext ==
    \/ Next   /\ Rest("departures")
    \/ T!Next /\ Rest("team")
    \/ V!Next /\ Rest("visa")
    \/ L!Next /\ Rest("login")
    \/ P!Next /\ Rest("payouts")
    \/ S!Next /\ Rest("support")
    \/ C!Next /\ Rest("catalogue")

OfficeSpec == OfficeInit /\ [][OfficeNext]_officeVars

-----------------------------------------------------------------------------
(* The properties of the parts, under the names they have in their modules *)

\* Every row and every request's data of every part has its type.
PartsTypeOK ==
    TypeOK /\ T!TypeOK /\ V!TypeOK /\ L!TypeOK /\ P!TypeOK /\ S!TypeOK /\ C!TypeOK

\* Team: a member has the roles of one request but for rows its delete has not seen.
RolesAsAsked == T!RolesAsAsked

\* VisaCases: the shown timeline is a legal history that ends in the status.
HistoryIsLegal == V!HistoryIsLegal

\* VisaCases: reference and date of submission are there when the status says so.
CaseIsComplete == V!CaseIsComplete

\* Login: no more codes are compared with a challenge than it allows tries.
TriesBounded == L!TriesBounded

\* Login: a challenge opens one session at most.
OneLogin == L!OneLogin

\* Login: two recent codes come from requests that looked at the same time.
ThrottleHolds == L!ThrottleHolds

\* Login: a message on record as sent has arrived.
SentIsTrue == L!SentIsTrue

\* Payouts: a paid batch was approved and carries its payment.
PaidIsBacked == P!PaidIsBacked

\* SupportDesk: a closed ticket gets only replies that were under way.
ClosedIsQuiet == S!ClosedIsQuiet

\* Catalogue: what goes on sale is complete, but for overtaken transitions.
PublishedComplete == C!PublishedComplete

\* Catalogue: a program never has two covers.
OneCover == C!OneCover
=============================================================================
