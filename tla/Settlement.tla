----------------------------- MODULE Settlement -----------------------------
(***************************************************************************)
(* What settlement promises, with requests, intents, callbacks and the     *)
(* gateway left out: a checkout is paid at most once, in one step that     *)
(* splits its price between the wallet and the gateway, and the wallet     *)
(* pays exactly its part out of what it holds.                             *)
(***************************************************************************)
EXTENDS Integers

CONSTANTS Checkouts, Total, InitialBalance

VARIABLES paid, balance

Unpaid == [wallet |-> 0, online |-> 0]

Init ==
    /\ paid = [c \in Checkouts |-> Unpaid]
    /\ balance = InitialBalance

Pay(c, w) ==
    /\ paid[c] = Unpaid
    /\ w <= balance
    /\ paid' = [paid EXCEPT ![c] = [wallet |-> w, online |-> Total[c] - w]]
    /\ balance' = balance - w

Next == \E c \in Checkouts : \E w \in 0 .. Total[c] : Pay(c, w)

Spec == Init /\ [][Next]_<<paid, balance>>
=============================================================================
