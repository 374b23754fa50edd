----------------------------- MODULE PermitCond -----------------------------
(***************************************************************************)
(* What a context-aware condition variable promises its callers            *)
(* (exporter/exporterhelper/internal/queue/cond.go), with no channel, no   *)
(* lock and no program counters: a set of waiters, and a number of permits *)
(* to leave, never more than there are waiters to use them.                *)
(***************************************************************************)
EXTENDS Integers, FiniteSets

CONSTANT Goroutines

VARIABLES
  waiters,  \* goroutines inside Wait
  permits   \* wake-ups granted and not yet used

vars == <<waiters, permits>>

Init == waiters = {} /\ permits = 0

Enter(g) ==
  /\ g \notin waiters
  /\ waiters' = waiters \cup {g}
  /\ UNCHANGED permits

\* A signal grants one more permit; it is forgotten when every waiter has one.
Grant ==
  /\ permits < Cardinality(waiters)
  /\ permits' = permits + 1
  /\ UNCHANGED waiters

Wake(g) ==
  /\ g \in waiters
  /\ permits > 0
  /\ waiters' = waiters \ {g}
  /\ permits' = permits - 1

\* A cancelled waiter leaves and takes a permit away only if all waiters have one.
Cancel(g) ==
  /\ g \in waiters
  /\ waiters' = waiters \ {g}
  /\ permits' = IF permits = Cardinality(waiters) THEN permits - 1 ELSE permits

Next == Grant \/ \E g \in Goroutines : Enter(g) \/ Wake(g) \/ Cancel(g)

Spec == Init /\ [][Next]_vars
=============================================================================
