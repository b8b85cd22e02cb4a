---------------------------- MODULE MC_Payments ----------------------------
(***************************************************************************)
(* Small instances of Payments for TLC.                                    *)
(***************************************************************************)
EXTENDS Payments, TLC

CONSTANTS c1, c2, k1, k2, w1, w2, r1

\* Two checkouts of different prices share a wallet that covers only one.
Prices == c1 :> 2 @@ c2 :> 1
OnePrice == c1 :> 2

\* Requests are interchangeable, and so are keys; checkouts are not.
WorkerSymmetry == Permutations({w1, w2})
KeySymmetry    == WorkerSymmetry \cup Permutations({k1, k2})

\* Bound, named as an action constraint: requests race with each other, and a run
\* races with one request, which is past creating its intent.
OneBesideRun ==
    (\E r \in Reconcilers : pc'[r] # "idle")
        => /\ Cardinality({w \in Workers : pc'[w] # "idle"}) <= 1
           /\ \A w \in Workers : pc'[w] \notin {"split", "create", "store"}

\* Bound, named likewise: of the payments of a checkout no more than one at a time is
\* failed or cancelled at the gateway.
OneRefused ==
    \A c \in Checkouts :
        Cardinality({k \in Keys : gateway'[<<c, k>>].status \in {"failed", "cancelled"}}) <= 1
=============================================================================
