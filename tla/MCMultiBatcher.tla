--------------------------- MODULE MCMultiBatcher ---------------------------
(***************************************************************************)
(* Instances of MultiBatcher for TLC.                                      *)
(***************************************************************************)
EXTENDS MultiBatcher

CONSTANTS r1, r2, r3

SingleCounts == [r \in Requests |-> 1]

TwoKeys == (r1 :> 1) @@ (r2 :> 2) @@ (r3 :> 1)
ThreeKeys == (r1 :> 1) @@ (r2 :> 2) @@ (r3 :> 3)

NoneOversized == {}

\* r1 and r3 have the same key and size.
SameKey == Permutations({r1, r3})
=============================================================================
