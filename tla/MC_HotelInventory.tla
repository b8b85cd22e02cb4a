-------------------------- MODULE MC_HotelInventory --------------------------
(***************************************************************************)
(* Small instances of HotelInventory for TLC: stays that overlap in one    *)
(* night.                                                                  *)
(***************************************************************************)
EXTENDS HotelInventory, TLC

CONSTANTS c1, c2, w1, w2, p1

Overlapping == [c \in Checkouts |-> IF c = c1 THEN {1, 2} ELSE {2}]
OneNight    == [c \in Checkouts |-> {1}]
OneRoom     == [c \in Checkouts |-> 1]
Uneven      == [c \in Checkouts |-> IF c = c1 THEN 1 ELSE 2]

WorkerSymmetry == Permutations({w1, w2})

\* Bound, named as an action constraint: handlers and operators race over the first
\* stay while it is the only one, the hotel stays on sale and its first night is not
\* closed by hand.  The second stay competes with the first for rooms while that one's
\* order is confirmed or refunded, or there is none.
AtWork == (\E w \in Workers : pc[w] # "idle") \/ (\E p \in Operators : panel[p] # NoEdit)

RaceOverOneStay ==
    /\ AtWork' => checkout'[c2] = "none" /\ onSale' /\ source' = "DIRECT" /\ ~day'[1].closed
    /\ checkout'[c2] # "none" => booking'[c1] \in {"none", "confirmed", "refunded"}
=============================================================================
