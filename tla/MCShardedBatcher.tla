-------------------------- MODULE MCShardedBatcher --------------------------
(***************************************************************************)
(* Instances of ShardedBatcher for TLC.                                    *)
(***************************************************************************)
EXTENDS ShardedBatcher

CONSTANTS r1, r2, r3

\* A request above the maximum, a single item, and one of exactly the minimum.
MixedCounts == (r1 :> 5) @@ (r2 :> 1) @@ (r3 :> 2)
SmallCounts == (r1 :> 1) @@ (r2 :> 2) @@ (r3 :> 1)

NoneOversized == {}
OneOversized == {<<r1, 2>>, <<r2, 1>>}

OneShard == {0}
TwoShards == {0, 1}
=============================================================================
