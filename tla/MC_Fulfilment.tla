--------------------------- MODULE MC_Fulfilment ---------------------------
(***************************************************************************)
(* Small instances of Fulfilment for TLC.                                  *)
(***************************************************************************)
EXTENDS Fulfilment, FiniteSets, TLC

CONSTANTS o1, o2, w1, w2, p1

WorkerSymmetry == Permutations({w1, w2})

\* Handlers race each other until an operator acts on an order; from then on one
\* handler at a time races the staff.
OneCrew ==
    \/ edited' = {} /\ \A p \in Operators : panel'[p] = NoEdit
    \/ Cardinality({w \in Workers : pc'[w] # "idle"}) <= 1
=============================================================================
