--------------------------- MODULE MCMemoryQueue ---------------------------
(***************************************************************************)
(* Instances of MemoryQueue for TLC: three to five concurrent offers of    *)
(* mixed sizes against a capacity that holds only some of them.            *)
(***************************************************************************)
EXTENDS MemoryQueue, TLC

CONSTANTS o1, o2, o3, o4, o5

\* One element as large as the queue, one larger, and others of which two fit together.
MixedSizes == [o \in Offers |-> IF o = o3 THEN 2 ELSE IF o = o5 THEN 3 ELSE 1]

\* Sizes at and beyond the boundaries: empty, invalid, too large, exactly full.
EdgeSizes == (o1 :> 0) @@ (o2 :> 3) @@ (o3 :> 2) @@ (o4 :> -1) @@ (o5 :> 1)

\* With MixedSizes o1, o2 and o4 have the same size.
SameSize == Permutations({o1, o2, o4})

\* hasMoreSpace is a PermitCond also inside the queue.
HasMoreSpace == INSTANCE PermitCond WITH
  Goroutines <- Offers, waiters <- SpaceWaiters, permits <- ch + SpaceSenders

RefinesPermitCond == HasMoreSpace!Spec
=============================================================================
