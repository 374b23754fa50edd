------------------------- MODULE MCPersistentQueue -------------------------
(***************************************************************************)
(* Instances of PersistentQueue for TLC.                                   *)
(***************************************************************************)
EXTENDS PersistentQueue, TLC

CONSTANTS o1, o2, o3

\* One element as large as the queue of capacity 2.
MixedSizes == [o \in Offers |-> IF o = o3 THEN 2 ELSE 1]

NoLegacy == <<>>

\* Two elements in the legacy format, one of them dispatched.
TwoLegacy == <<o1, o2>>

OneLegacy == <<o1>>

\* With MixedSizes and OneLegacy all elements but o1 and o3 are alike.
Alike == Permutations(Offers \ {o1, o3})

(***************************************************************************)
(* Refinement, in a process that does not end.                             *)
(***************************************************************************)
HasMoreSpace == INSTANCE PermitCond WITH
  Goroutines <- Offers,
  waiters <- {o \in Offers : opc[o] \in {"select", "cancelled", "drain"}},
  permits <- ch + Cardinality({c \in Consumers : cpc[c] = "sending"})
                + Cardinality({i \in Indices : dpc[i] = "sending"})

\* Read and onDone use hasMoreSpace as a condition variable, also where their
\* Signal gives up the lock in the middle.
RefinesPermitCond == HasMoreSpace!Spec

Promise == INSTANCE BoundedQueue WITH
  Size <- [e \in Offers |-> ActiveSize(e)],
  queue <- {disk.items[i] : i \in md.r..(md.w - 1)},
  before <- {<<disk.items[p[1]], disk.items[p[2]]>> :
               p \in {q \in (md.r..(md.w - 1)) \X (md.r..(md.w - 1)) : q[1] < q[2]}},
  inflight <- {disk.items[i] : i \in Range(md.cdi)},
  used <- InternalSize,
  gone <- finished

\* Without storage failures the indices, the dispatched list and the stored items
\* are a bounded FIFO queue that hands out every element at most once.
RefinesBoundedQueue == Promise!Spec
=============================================================================
