----------------------------- MODULE SupportDesk -----------------------------
(***************************************************************************)
(* One support ticket: its status, set by the back office, and the         *)
(* messages that customer, merchant and support add to it                  *)
(* (updateSupportStatus, addSupportReply, addSupportInternalNote and       *)
(* createMerchantSupport of repositories/platform.ts, createSupport and    *)
(* addSupportMessage of repositories/prisma-runtime.ts).                   *)
(*                                                                         *)
(* A reply looks at the status in one statement and is inserted in another *)
(* with no transaction around them; a new status is checked on one read    *)
(* and written by id.  What a message says does not matter, only who wrote *)
(* it and whether the ticket was closed to him.                            *)
(***************************************************************************)
EXTENDS Naturals

CONSTANTS
    Sessions,    \* requests in flight: of the customer, the merchant and the staff
    MaxMessages  \* bound: messages of a ticket

VARIABLES
    status,   \* SupportTicket.status
    owner,    \* the customer who wrote the ticket, or the merchant
    messages, \* how many messages of each author the ticket holds
    task      \* what a session has checked and is about to write

vars == <<status, owner, messages, task>>

Statuses == {"open", "pending", "resolved", "closed"}

\* "internal" are the notes of the staff that are not shown outside.
Authors == {"customer", "merchant", "support", "internal"}

Moves == [s \in Statuses |->
    CASE s = "open"     -> {"pending", "resolved", "closed"}
      [] s = "pending"  -> {"open", "resolved", "closed"}
      [] s = "resolved" -> {"open", "closed"}
      [] OTHER          -> {"open"}]

NoTask == [fresh |-> FALSE]

\* createSupport and createMerchantSupport: the ticket comes with a first message.
Init ==
    /\ status = "open"
    /\ owner \in {"customer", "merchant"}
    /\ messages = [a \in Authors |-> IF a = owner THEN 1 ELSE 0]
    /\ task = [s \in Sessions |-> NoTask]

-----------------------------------------------------------------------------
Total == messages["customer"] + messages["merchant"] + messages["support"] + messages["internal"]

Start(s, t) ==
    /\ task[s] = NoTask
    /\ task' = [task EXCEPT ![s] = [do |-> t, fresh |-> TRUE]]
    /\ UNCHANGED <<status, owner, messages>>

Answerable_Always(a) == TRUE

\* addSupportReply refuses a closed ticket; a customer's message and an internal
\* note are taken whatever the status is.
Answerable(a) == a \in {"merchant", "support"} => status # "closed"

\* The customer and the merchant write to their own tickets only.
MayWrite(a) == a \in {"customer", "merchant"} => a = owner

StartMessage(s, a) ==
    /\ MayWrite(a) /\ Answerable(a)
    /\ Start(s, [kind |-> "message", by |-> a])

StartStatus(s, to) ==
    /\ to = status \/ to \in Moves[status]
    /\ Start(s, [kind |-> "status", to |-> to])

SaveMessage(s) ==
    /\ task[s] # NoTask /\ task[s].do.kind = "message"
    /\ Total < MaxMessages
    /\ messages' = [messages EXCEPT ![task[s].do.by] = @ + 1]
    /\ task' = [task EXCEPT ![s] = NoTask]
    /\ UNCHANGED <<status, owner>>

\* Whoever has looked at the status has not seen the new one.
Outdated ==
    [s \in Sessions |-> IF task[s] = NoTask THEN NoTask ELSE [task[s] EXCEPT !.fresh = FALSE]]

SaveStatus(s) ==
    /\ task[s] # NoTask /\ task[s].do.kind = "status"
    /\ status' = task[s].do.to
    /\ task' = [Outdated EXCEPT ![s] = NoTask]
    /\ UNCHANGED <<owner, messages>>

Fail(s) ==
    /\ task[s] # NoTask
    /\ task' = [task EXCEPT ![s] = NoTask]
    /\ UNCHANGED <<status, owner, messages>>

Next ==
    \E s \in Sessions :
        \/ \E a \in Authors : StartMessage(s, a)
        \/ \E to \in Statuses : StartStatus(s, to)
        \/ SaveMessage(s) \/ SaveStatus(s) \/ Fail(s)

Spec == Init /\ [][Next]_vars

-----------------------------------------------------------------------------
(* Properties *)

Tasks == [kind : {"message"}, by : Authors] \cup [kind : {"status"}, to : Statuses]

TypeOK ==
    /\ status \in Statuses
    /\ owner \in {"customer", "merchant"}
    /\ messages \in [Authors -> Nat]
    /\ task \in [Sessions -> {NoTask} \cup [do : Tasks, fresh : BOOLEAN]]

\* A merchant or the support adds to a closed ticket only with a reply that looked
\* at the ticket before it was closed and is inserted after it (addSupportReply,
\* updateSupportStatus).
ClosedIsQuiet ==
    [][status = "closed" /\ (\E a \in {"merchant", "support"} : messages'[a] # messages[a])
          => \E s \in Sessions : task[s] # NoTask /\ ~task[s].fresh /\ task'[s] = NoTask]_vars
=============================================================================
