-------------------------- MODULE ComponentProofs --------------------------
(***************************************************************************)
(* Proofs about two components that stand alone: the condition variable    *)
(* under the queues, for every number of goroutines and every capacity of  *)
(* its channel; the batch processor's limit on its shards, for any number  *)
(* of producers, combinations of metadata and configurations.              *)
(***************************************************************************)
EXTENDS Cond, BatchProcessor, FiniteSetTheorems, TLAPS

\* The provers of a step, in this order, and their time in seconds.
USE SMTT(30), ZenonT(30), Z3T(30)

(***************************************************************************)
(* The condition variable.                                                 *)
(*                                                                         *)
(* WaitersAccounted alone is not inductive: a waiter that drains must not  *)
(* meet a new Wait between its test of c.waiting and its receive, which    *)
(* takes mutual exclusion and the fact that c.waiting is still zero.       *)
(***************************************************************************)
MutualExclusion ==
  \A g, h \in Goroutines :
    pc[g] \in {"in", "drain"} /\ pc[h] \in {"in", "drain"} => g = h

DrainAfterAllSignalled ==
  \A g \in Goroutines : pc[g] = "drain" => waiting = 0

CondInv ==
  /\ CondTypeOK
  /\ MutualExclusion
  /\ DrainAfterAllSignalled
  /\ WaitersAccounted

\* The sets counted by the invariant are finite, so their cardinalities are
\* natural numbers.
LEMMA FiniteCounts ==
  /\ IsFiniteSet(Waiters) /\ Cardinality(Waiters) \in Nat
  /\ IsFiniteSet(Senders) /\ Cardinality(Senders) \in Nat
  /\ IsFiniteSet(Waiters') /\ Cardinality(Waiters)' \in Nat
  /\ IsFiniteSet(Senders') /\ Cardinality(Senders)' \in Nat
<1>1. /\ Waiters \subseteq Goroutines /\ Senders \subseteq Goroutines
      /\ Waiters' \subseteq Goroutines /\ Senders' \subseteq Goroutines
  BY DEF Waiters, Senders
<1> QED
  BY <1>1, FS_Subset, FS_CardinalityType, GoroutinesAssumption

\* How a single move of a goroutine changes the two sets: it enters, leaves or
\* stays out of each of them, and no other goroutine does.
LEMMA MoveCounts ==
  ASSUME CondTypeOK, NEW g \in Goroutines, NEW l \in PCs, Goto(g, l)
  PROVE  /\ Cardinality(Waiters)' = Cardinality(Waiters)
              + (IF l \in {"select", "cancelled", "drain"} THEN 1 ELSE 0)
              - (IF pc[g] \in {"select", "cancelled", "drain"} THEN 1 ELSE 0)
         /\ Cardinality(Senders)' = Cardinality(Senders)
              + (IF l = "sending" THEN 1 ELSE 0)
              - (IF pc[g] = "sending" THEN 1 ELSE 0)
<1> DEFINE W == {"select", "cancelled", "drain"}
<1>1. /\ pc'[g] = l
      /\ \A h \in Goroutines : h # g => pc'[h] = pc[h]
  BY DEF CondTypeOK, Goto
<1>2. /\ Waiters' = IF l \in W THEN Waiters \cup {g} ELSE Waiters \ {g}
      /\ g \in Waiters <=> pc[g] \in W
  BY <1>1 DEF Waiters
<1>3. /\ Senders' = IF l = "sending" THEN Senders \cup {g} ELSE Senders \ {g}
      /\ g \in Senders <=> pc[g] = "sending"
  BY <1>1 DEF Senders
<1>4. ASSUME NEW S, IsFiniteSet(S)
      PROVE  /\ Cardinality(S \cup {g}) =
                  IF g \in S THEN Cardinality(S) ELSE Cardinality(S) + 1
             /\ Cardinality(S \ {g}) =
                  IF g \in S THEN Cardinality(S) - 1 ELSE Cardinality(S)
  BY ZenonT(30), <1>4, FS_AddElement, FS_RemoveElement
<1>5. Cardinality(Waiters') = Cardinality(Waiters)
        + (IF l \in W THEN 1 ELSE 0) - (IF pc[g] \in W THEN 1 ELSE 0)
  <2>1. CASE l \in W
    <3>1. Cardinality(Waiters') = IF g \in Waiters THEN Cardinality(Waiters)
                                    ELSE Cardinality(Waiters) + 1
      BY ZenonT(30), <1>2, <1>4, <2>1, FiniteCounts
    <3> QED BY <3>1, <1>2, <2>1, FiniteCounts
  <2>2. CASE l \notin W
    <3>1. Cardinality(Waiters') = IF g \in Waiters THEN Cardinality(Waiters) - 1
                                    ELSE Cardinality(Waiters)
      BY ZenonT(30), <1>2, <1>4, <2>2, FiniteCounts
    <3> QED BY <3>1, <1>2, <2>2, FiniteCounts
  <2> QED BY <2>1, <2>2
<1>6. Cardinality(Senders') = Cardinality(Senders)
        + (IF l = "sending" THEN 1 ELSE 0) - (IF pc[g] = "sending" THEN 1 ELSE 0)
  <2>1. CASE l = "sending"
    <3>1. Cardinality(Senders') = IF g \in Senders THEN Cardinality(Senders)
                                    ELSE Cardinality(Senders) + 1
      BY <1>3, <1>4, <2>1, FiniteCounts
    <3> QED BY <3>1, <1>3, <2>1, FiniteCounts
  <2>2. CASE l # "sending"
    <3>1. Cardinality(Senders') = IF g \in Senders THEN Cardinality(Senders) - 1
                                    ELSE Cardinality(Senders)
      BY ZenonT(30), <1>3, <1>4, <2>2, FiniteCounts
    <3> QED BY <3>1, <1>3, <2>2, FiniteCounts
  <2> QED BY <2>1, <2>2
<1> QED
  BY <1>5, <1>6

\* A step that moves nobody leaves the two counts alone.
LEMMA StayCounts ==
  ASSUME UNCHANGED pc
  PROVE  /\ Cardinality(Waiters)' = Cardinality(Waiters)
         /\ Cardinality(Senders)' = Cardinality(Senders)
  BY DEF Waiters, Senders

\* Before any call of Wait or Signal the invariant holds.
LEMMA InitInvariant == CondInit => CondInv
<1> SUFFICES ASSUME CondInit PROVE CondInv
  OBVIOUS
<1>1. CondTypeOK /\ MutualExclusion /\ DrainAfterAllSignalled
  BY SlotsAssumption DEF CondInit, CondTypeOK, PCs, MutualExclusion, DrainAfterAllSignalled
<1>2. Waiters = {} /\ Senders = {}
  BY DEF CondInit, Waiters, Senders
<1>3. WaitersAccounted
  BY <1>2, FS_EmptySet DEF CondInit, WaitersAccounted, Permits
<1> QED
  BY <1>1, <1>3 DEF CondInv

\* One step per action of Next: the type and lock parts follow from the action
\* alone, the count from the way the action moves its goroutine.
LEMMA NextInvariant == CondInv /\ [CondNext]_condVars => CondInv'
<1> SUFFICES ASSUME CondInv, [CondNext]_condVars
             PROVE  CondInv'
  OBVIOUS
<1> USE SlotsAssumption, FiniteCounts
<1>0. /\ CondTypeOK /\ MutualExclusion /\ DrainAfterAllSignalled
      /\ Cardinality(Waiters) = waiting + ch + Cardinality(Senders)
      /\ waiting \in Nat /\ ch \in Nat
  BY DEF CondInv, WaitersAccounted, Permits, CondTypeOK
<1>a. ASSUME CondTypeOK', MutualExclusion', DrainAfterAllSignalled',
             Cardinality(Waiters)' = waiting' + ch' + Cardinality(Senders)'
      PROVE  CondInv'
  BY <1>a DEF CondInv, WaitersAccounted, Permits, CondTypeOK
<1>1. ASSUME NEW g \in Goroutines, NEW from \in {"out", "relock", "woken"},
             Lock(g, from), UNCHANGED <<waiting, ch, done>>
      PROVE  CondInv'
  <2>1. CondTypeOK' /\ MutualExclusion' /\ DrainAfterAllSignalled'
    BY <1>0, <1>1 DEF CondTypeOK, PCs, MutualExclusion, DrainAfterAllSignalled, Lock, LockFree, Goto
  <2>2. Goto(g, "in") /\ pc[g] = from
    BY <1>1 DEF Lock
  <2>3. Cardinality(Waiters)' = Cardinality(Waiters) /\ Cardinality(Senders)' = Cardinality(Senders)
    BY <1>0, <2>2, MoveCounts DEF PCs
  <2> QED BY <1>0, <1>1, <1>a, <2>1, <2>3
<1>2. ASSUME NEW g \in Goroutines, Release(g)
      PROVE  CondInv'
  <2>1. CondTypeOK' /\ MutualExclusion' /\ DrainAfterAllSignalled'
    BY <1>0, <1>2 DEF CondTypeOK, PCs, MutualExclusion, DrainAfterAllSignalled, Release, Goto
  <2>2. Cardinality(Waiters)' = Cardinality(Waiters) /\ Cardinality(Senders)' = Cardinality(Senders)
    BY <1>0, <1>2, MoveCounts DEF Release, PCs
  <2> QED BY <1>0, <1>2, <1>a, <2>1, <2>2 DEF Release
<1>3. ASSUME NEW g \in Goroutines, CtxDone(g)
      PROVE  CondInv'
  <2>1. CondTypeOK' /\ MutualExclusion' /\ DrainAfterAllSignalled'
    BY <1>0, <1>3 DEF CondTypeOK, MutualExclusion, DrainAfterAllSignalled, CtxDone
  <2> QED BY <1>0, <1>3, <1>a, <2>1, StayCounts DEF CtxDone
<1>4. ASSUME NEW g \in Goroutines, Signal(g)
      PROVE  CondInv'
  <2>1. CASE waiting = 0 /\ UNCHANGED <<pc, waiting, ch>>
    <3>1. CondTypeOK' /\ MutualExclusion' /\ DrainAfterAllSignalled'
      BY <1>0, <1>4, <2>1 DEF CondTypeOK, MutualExclusion, DrainAfterAllSignalled, Signal
    <3> QED BY <1>0, <1>a, <2>1, <3>1, StayCounts
  <2>2. CASE waiting > 0 /\ waiting' = waiting - 1 /\ ch < Slots /\ ch' = ch + 1 /\ UNCHANGED pc
    <3>1. CondTypeOK' /\ MutualExclusion' /\ DrainAfterAllSignalled'
      BY <1>0, <1>4, <2>2 DEF CondTypeOK, MutualExclusion, DrainAfterAllSignalled, Signal
    <3> QED BY <1>0, <1>a, <2>2, <3>1, StayCounts
  <2>3. CASE waiting > 0 /\ waiting' = waiting - 1 /\ Goto(g, "sending") /\ UNCHANGED ch
    <3>1. CondTypeOK' /\ MutualExclusion' /\ DrainAfterAllSignalled'
      BY <1>0, <1>4, <2>3 DEF CondTypeOK, PCs, MutualExclusion, DrainAfterAllSignalled, Signal, Goto
    <3>2. Cardinality(Waiters)' = Cardinality(Waiters) /\ Cardinality(Senders)' = Cardinality(Senders) + 1
      BY <1>0, <1>4, <2>3, MoveCounts DEF Signal, PCs
    <3> QED BY <1>0, <1>a, <2>3, <3>1, <3>2
  <2> QED BY <1>4, <2>1, <2>2, <2>3 DEF Signal
<1>5. ASSUME NEW g \in Goroutines, SendBlocked(g)
      PROVE  CondInv'
  <2>1. CondTypeOK' /\ MutualExclusion' /\ DrainAfterAllSignalled'
    BY <1>0, <1>5 DEF CondTypeOK, PCs, MutualExclusion, DrainAfterAllSignalled, SendBlocked, Goto
  <2>2. Cardinality(Waiters)' = Cardinality(Waiters) /\ Cardinality(Senders)' = Cardinality(Senders) - 1
    BY <1>0, <1>5, MoveCounts DEF SendBlocked, PCs
  <2> QED BY <1>0, <1>5, <1>a, <2>1, <2>2 DEF SendBlocked
<1>6. ASSUME NEW g \in Goroutines, Wait(g)
      PROVE  CondInv'
  <2>1. CondTypeOK' /\ MutualExclusion' /\ DrainAfterAllSignalled'
    BY <1>0, <1>6 DEF CondTypeOK, PCs, MutualExclusion, DrainAfterAllSignalled, Wait, Goto
  <2>2. Cardinality(Waiters)' = Cardinality(Waiters) + 1 /\ Cardinality(Senders)' = Cardinality(Senders)
    BY <1>0, <1>6, MoveCounts DEF Wait, PCs
  <2> QED BY <1>0, <1>6, <1>a, <2>1, <2>2 DEF Wait
<1>7. ASSUME NEW g \in Goroutines, SelectDone(g)
      PROVE  CondInv'
  <2>1. CondTypeOK' /\ MutualExclusion' /\ DrainAfterAllSignalled'
    BY <1>0, <1>7 DEF CondTypeOK, PCs, MutualExclusion, DrainAfterAllSignalled, SelectDone, Goto
  <2>2. Cardinality(Waiters)' = Cardinality(Waiters) /\ Cardinality(Senders)' = Cardinality(Senders)
    BY <1>0, <1>7, MoveCounts DEF SelectDone, PCs
  <2> QED BY <1>0, <1>7, <1>a, <2>1, <2>2 DEF SelectDone
<1>8. ASSUME NEW g \in Goroutines, SelectToken(g)
      PROVE  CondInv'
  <2>1. CondTypeOK' /\ MutualExclusion' /\ DrainAfterAllSignalled'
    BY <1>0, <1>8 DEF CondTypeOK, PCs, MutualExclusion, DrainAfterAllSignalled, SelectToken, Goto
  <2>2. Cardinality(Waiters)' = Cardinality(Waiters) - 1 /\ Cardinality(Senders)' = Cardinality(Senders)
    BY <1>0, <1>8, MoveCounts DEF SelectToken, PCs
  <2> QED BY <1>0, <1>8, <1>a, <2>1, <2>2 DEF SelectToken
<1>9. ASSUME NEW g \in Goroutines, CancelLock(g)
      PROVE  CondInv'
  <2>1. CASE waiting = 0 /\ Goto(g, "drain") /\ UNCHANGED waiting
    <3>1. CondTypeOK' /\ MutualExclusion' /\ DrainAfterAllSignalled'
      BY <1>0, <1>9, <2>1 DEF CondTypeOK, PCs, MutualExclusion, DrainAfterAllSignalled, CancelLock, LockFree, Goto
    <3>2. Cardinality(Waiters)' = Cardinality(Waiters) /\ Cardinality(Senders)' = Cardinality(Senders)
      BY <1>0, <1>9, <2>1, MoveCounts DEF CancelLock, PCs
    <3> QED BY <1>0, <1>9, <1>a, <2>1, <3>1, <3>2 DEF CancelLock
  <2>2. CASE waiting > 0 /\ Goto(g, "in") /\ waiting' = waiting - 1
    <3>1. CondTypeOK' /\ MutualExclusion' /\ DrainAfterAllSignalled'
      BY <1>0, <1>9, <2>2 DEF CondTypeOK, PCs, MutualExclusion, DrainAfterAllSignalled, CancelLock, LockFree, Goto
    <3>2. Cardinality(Waiters)' = Cardinality(Waiters) - 1 /\ Cardinality(Senders)' = Cardinality(Senders)
      BY <1>0, <1>9, <2>2, MoveCounts DEF CancelLock, PCs
    <3> QED BY <1>0, <1>9, <1>a, <2>2, <3>1, <3>2 DEF CancelLock
  <2> QED BY <1>9, <2>1, <2>2 DEF CancelLock
<1>10. ASSUME NEW g \in Goroutines, CancelDrain(g)
      PROVE  CondInv'
  <2>1. CondTypeOK' /\ MutualExclusion' /\ DrainAfterAllSignalled'
    BY <1>0, <1>10 DEF CondTypeOK, PCs, MutualExclusion, DrainAfterAllSignalled, CancelDrain, Goto
  <2>2. Cardinality(Waiters)' = Cardinality(Waiters) - 1 /\ Cardinality(Senders)' = Cardinality(Senders)
    BY <1>0, <1>10, MoveCounts DEF CancelDrain, PCs
  <2> QED BY <1>0, <1>10, <1>a, <2>1, <2>2 DEF CancelDrain
<1>11. CASE UNCHANGED condVars
  <2>1. CondTypeOK' /\ MutualExclusion' /\ DrainAfterAllSignalled'
    BY <1>0, <1>11 DEF CondTypeOK, MutualExclusion, DrainAfterAllSignalled, condVars
  <2> QED BY <1>0, <1>11, <1>a, <2>1, StayCounts DEF condVars
<1> QED
  BY <1>1, <1>2, <1>3, <1>4, <1>5, <1>6, <1>7, <1>8, <1>9, <1>10, <1>11
     DEF CondNext, Acquire, SignalRelock, WokenLock

\* The inductive invariant holds in every reachable state.
THEOREM Invariance == CondSpec => []CondInv
  BY InitInvariant, NextInvariant, PTL DEF CondSpec

\* The variables of the condition variable keep their types: c.waiting never
\* becomes negative and c.ch never holds more than its capacity.
THEOREM TypeCorrect == CondSpec => []CondTypeOK
<1>1. CondInv => CondTypeOK
  BY DEF CondInv
<1> QED
  BY <1>1, Invariance, PTL

\* No wake-up is lost and none is left over (cond.go:28-66): in every reachable
\* state the goroutines inside Wait are those c.waiting counts and those a token
\* has been, or is being, sent for.
THEOREM NoLostWakeup == CondSpec => []WaitersAccounted
<1>1. CondInv => WaitersAccounted
  BY DEF CondInv
<1> QED
  BY <1>1, Invariance, PTL

\* The receive of a cancelled Wait under c.L (cond.go:56) never blocks for ever.
THEOREM DrainNeverStuck == CondSpec => []DrainHasToken
<1>1. ASSUME CondInv
      PROVE  DrainHasToken
  <2> SUFFICES ASSUME NEW g \in Goroutines, pc[g] = "drain", ch <= 0, Senders = {}
               PROVE  FALSE
    BY <1>1 DEF DrainHasToken, CondInv, CondTypeOK
  <2>1. Cardinality(Waiters) = 0
    BY <1>1, FS_EmptySet DEF CondInv, CondTypeOK, DrainAfterAllSignalled, WaitersAccounted, Permits
  <2>2. g \in Waiters
    BY DEF Waiters
  <2> QED
    BY <2>1, <2>2, FiniteCounts, FS_EmptySet
<1> QED
  BY <1>1, Invariance, PTL

\* Counting means the same in both modules.
LEMMA SameCardinality == \A S : Abstract!Cardinality(S) = Cardinality(S)
  BY DEF Abstract!Cardinality, Cardinality

\* A move of one goroutine changes the set of waiters by that goroutine at most.
LEMMA MoveWaiters ==
  ASSUME CondTypeOK, NEW g \in Goroutines, NEW l \in PCs, Goto(g, l)
  PROVE  /\ Waiters' = IF l \in {"select", "cancelled", "drain"}
                         THEN Waiters \cup {g} ELSE Waiters \ {g}
         /\ g \in Waiters <=> pc[g] \in {"select", "cancelled", "drain"}
  BY DEF CondTypeOK, Goto, Waiters

\* Every step of the channel-and-counter implementation is a step, or a stutter,
\* of the permit specification.
LEMMA StepRefines ==
  ASSUME CondInv, [CondNext]_condVars
  PROVE  [Abstract!Next]_(Abstract!vars)
<1> USE FiniteCounts, SameCardinality
<1>0. /\ CondTypeOK /\ MutualExclusion /\ DrainAfterAllSignalled
      /\ Cardinality(Waiters) = waiting + Permits
      /\ waiting \in Nat /\ ch \in Nat /\ Permits \in Nat
      /\ Permits = ch + Cardinality(Senders)
  BY SlotsAssumption DEF CondInv, WaitersAccounted, Permits, CondTypeOK
<1>p. Permits' = ch' + Cardinality(Senders)'
  BY DEF Permits
<1>s. ASSUME Waiters' = Waiters, Permits' = Permits
      PROVE  [Abstract!Next]_(Abstract!vars)
  BY <1>s DEF Abstract!vars
<1>1. ASSUME NEW g \in Goroutines, NEW from \in {"out", "relock", "woken"},
             Lock(g, from), UNCHANGED <<waiting, ch, done>>
      PROVE  [Abstract!Next]_(Abstract!vars)
  <2>1. Goto(g, "in") /\ pc[g] = from
    BY <1>1 DEF Lock
  <2> QED BY <1>0, <1>1, <1>p, <1>s, <2>1, MoveCounts, MoveWaiters DEF PCs
<1>2. ASSUME NEW g \in Goroutines, Release(g)
      PROVE  [Abstract!Next]_(Abstract!vars)
  BY <1>0, <1>2, <1>p, <1>s, MoveCounts, MoveWaiters DEF PCs, Release
<1>3. ASSUME UNCHANGED <<pc, waiting, ch>>
      PROVE  [Abstract!Next]_(Abstract!vars)
  BY <1>3, <1>s DEF Waiters, Senders, Permits
<1>4. ASSUME NEW g \in Goroutines, Signal(g)
      PROVE  [Abstract!Next]_(Abstract!vars)
  <2>1. CASE waiting > 0 /\ ch' = ch + 1 /\ UNCHANGED pc
    <3>1. Waiters' = Waiters /\ Permits' = Permits + 1
      BY <1>0, <1>p, <2>1, StayCounts DEF Waiters
    <3> QED BY <1>0, <2>1, <3>1 DEF Abstract!Next, Abstract!Grant
  <2>2. CASE waiting > 0 /\ Goto(g, "sending") /\ UNCHANGED ch
    <3>1. Permits' = Permits + 1
      BY <1>0, <1>4, <1>p, <2>2, MoveCounts DEF Signal, PCs
    <3>2. Waiters' = Waiters
      BY <1>0, <1>4, <2>2, MoveWaiters DEF Signal, PCs
    <3> QED BY <1>0, <2>2, <3>1, <3>2 DEF Abstract!Next, Abstract!Grant
  <2> QED BY <1>3, <1>4, <2>1, <2>2 DEF Signal
<1>5. ASSUME NEW g \in Goroutines, SendBlocked(g)
      PROVE  [Abstract!Next]_(Abstract!vars)
  <2>1. Permits' = Permits
    BY <1>0, <1>5, <1>p, MoveCounts DEF SendBlocked, PCs
  <2>2. Waiters' = Waiters
    BY ZenonT(30), <1>0, <1>5, MoveWaiters DEF SendBlocked, PCs
  <2> QED BY <1>s, <2>1, <2>2
<1>6. ASSUME NEW g \in Goroutines, Wait(g)
      PROVE  [Abstract!Next]_(Abstract!vars)
  <2>1. g \notin Waiters /\ Waiters' = Waiters \cup {g} /\ Permits' = Permits
    BY <1>0, <1>6, <1>p, MoveCounts, MoveWaiters DEF Wait, PCs
  <2> QED BY <2>1 DEF Abstract!Next, Abstract!Enter
<1>7. ASSUME NEW g \in Goroutines, SelectDone(g)
      PROVE  [Abstract!Next]_(Abstract!vars)
  BY <1>0, <1>7, <1>p, <1>s, MoveCounts, MoveWaiters DEF SelectDone, PCs
<1>8. ASSUME NEW g \in Goroutines, SelectToken(g)
      PROVE  [Abstract!Next]_(Abstract!vars)
  <2>1. /\ g \in Waiters /\ Waiters' = Waiters \ {g}
        /\ Permits > 0 /\ Permits' = Permits - 1
    BY <1>0, <1>8, <1>p, MoveCounts, MoveWaiters DEF SelectToken, PCs
  <2> QED BY <2>1 DEF Abstract!Next, Abstract!Wake
<1>9. ASSUME NEW g \in Goroutines, CancelLock(g)
      PROVE  [Abstract!Next]_(Abstract!vars)
  <2>1. CASE Goto(g, "drain")
    <3>1. Permits' = Permits
      BY <1>0, <1>9, <1>p, <2>1, MoveCounts DEF CancelLock, PCs
    <3>2. Waiters' = Waiters
      BY ZenonT(30), <1>0, <1>9, <2>1, MoveWaiters DEF CancelLock, PCs
    <3> QED BY <1>s, <3>1, <3>2
  <2>2. CASE waiting > 0 /\ Goto(g, "in")
    <3>1. g \in Waiters /\ Waiters' = Waiters \ {g} /\ Permits' = Permits
      BY <1>0, <1>9, <1>p, <2>2, MoveCounts, MoveWaiters DEF CancelLock, PCs
    <3>2. Permits # Cardinality(Waiters)
      BY <1>0, <2>2
    <3> QED BY <3>1, <3>2 DEF Abstract!Next, Abstract!Cancel
  <2> QED BY <1>9, <2>1, <2>2 DEF CancelLock
<1>10. ASSUME NEW g \in Goroutines, CancelDrain(g)
       PROVE  [Abstract!Next]_(Abstract!vars)
  <2>1. g \in Waiters /\ Waiters' = Waiters \ {g} /\ Permits' = Permits - 1
    BY <1>0, <1>10, <1>p, MoveCounts, MoveWaiters DEF CancelDrain, PCs
  <2>2. Permits = Cardinality(Waiters)
    BY <1>0, <1>10 DEF CancelDrain, DrainAfterAllSignalled
  <2> QED BY <2>1, <2>2 DEF Abstract!Next, Abstract!Cancel
<1> QED
  BY <1>1, <1>2, <1>3, <1>4, <1>5, <1>6, <1>7, <1>8, <1>9, <1>10
     DEF CondNext, Acquire, CtxDone, SignalRelock, WokenLock, condVars

\* The condition variable implements the permit specification: a wake-up is
\* granted only to somebody inside Wait, never more of them than waiters, and a
\* cancelled waiter takes one away only when every other waiter keeps its own.
THEOREM Refinement == CondSpec => RefinesPermitCond
<1>1. CondInit => Abstract!Init
  <2> SUFFICES ASSUME CondInit PROVE Waiters = {} /\ Permits = 0
    BY DEF Abstract!Init
  <2>1. Waiters = {} /\ Senders = {}
    BY DEF CondInit, Waiters, Senders
  <2> QED BY <2>1, FS_EmptySet DEF CondInit, Permits
<1>2. CondInv /\ [CondNext]_condVars => [Abstract!Next]_(Abstract!vars)
  BY StepRefines
<1> QED
  BY <1>1, <1>2, Invariance, PTL DEF CondSpec, RefinesPermitCond, Abstract!Spec

(***************************************************************************)
(* The batch processor.  The lookup of a shard and the section that stores *)
(* it are two steps, so several producers of one new combination reach the *)
(* section.  What makes the limit hold is that size counts the shards of   *)
(* the map exactly; that is inductive once the map is known to be finite   *)
(* and a goroutine to be running for exactly its shards (SendersRun: a     *)
(* shard without one never sends).                                         *)
(***************************************************************************)
LoopTypeOK == loop \in [Shard -> {"off", "select", "drain", "exited"}]

SendersRun ==
  /\ sending \in [Shard -> {"no", "size", "timeout", "final"}]
  /\ \A s \in Shard : sending[s] # "no" => loop[s] # "off"

ShardsInv ==
  /\ cfg \in Configs
  /\ batchers \subseteq Shard /\ IsFiniteSet(batchers)
  /\ LoopTypeOK
  /\ size \in Nat
  /\ ~started => batchers = {} /\ \A p \in Producer : ppc[p] = "idle"
  /\ SendersRun
  /\ ShardsWithinLimit

\* A shard that is new to the map.
LEMMA NewShard ==
  ASSUME ShardsInv, NEW s \in Shard, s \notin batchers, StartShard(s), UNCHANGED <<cfg, sending>>,
         started',
         cfg.keys => size' = size + 1 /\ ~AtLimit,
         size' \in Nat
  PROVE  ShardsInv'
<1> USE DEF ShardsInv
<1>1. /\ batchers' = batchers \cup {s} /\ loop' = [loop EXCEPT ![s] = "select"]
  BY DEF StartShard
<1>2. IsFiniteSet(batchers') /\ Cardinality(batchers') = Cardinality(batchers) + 1
  BY <1>1, FS_AddElement
<1>3. LoopTypeOK' /\ \A x \in Shard : loop'[x] = IF x = s THEN "select" ELSE loop[x]
  BY <1>1 DEF LoopTypeOK
<1>4. \A x \in Shard : (loop'[x] # "off") <=> (x \in batchers')
  BY <1>1, <1>3 DEF ShardsWithinLimit
<1>5. cfg.keys => size' = Cardinality(batchers')
  BY <1>2 DEF ShardsWithinLimit
<1>6. cfg.keys /\ cfg.limit # 0 => Cardinality(batchers') <= cfg.limit
  <2>1. cfg.limit \in Nat
    BY ConfigAssumption
  <2> QED
    BY <1>5, <2>1 DEF AtLimit
<1>7. SendersRun'
  BY <1>3 DEF SendersRun
<1> QED
  BY <1>1, <1>2, <1>3, <1>4, <1>5, <1>6, <1>7 DEF ShardsWithinLimit

\* A step that leaves the map as it is and lets no goroutine appear.
LEMMA SameShards ==
  ASSUME ShardsInv, UNCHANGED <<cfg, batchers, size>>, started => started', started' \/ UNCHANGED ppc,
         LoopTypeOK', SendersRun',
         \A s \in Shard : loop'[s] = "off" <=> loop[s] = "off"
  PROVE  ShardsInv'
BY DEF ShardsInv, ShardsWithinLimit

\* The goroutine of a shard moves on.
LEMMA LoopStep ==
  ASSUME ShardsInv, NEW s \in Shard,
         \/ TakeItem(s) \/ TimerFires(s) \/ OnTimer(s) \/ SendItems(s) \/ SeeShutdown(s) \/ Drain(s)
  PROVE  ShardsInv'
<1>1. UNCHANGED <<cfg, started, ppc, batchers, size>>
  BY DEF TakeItem, TimerFires, OnTimer, SendItems, SeeShutdown, Drain
<1>2. /\ loop \in [Shard -> {"off", "select", "drain", "exited"}]
      /\ sending \in [Shard -> {"no", "size", "timeout", "final"}]
      /\ sending[s] # "no" => loop[s] # "off"
  BY DEF ShardsInv, LoopTypeOK, SendersRun
<1>3. CASE TimerFires(s)
  <2>1. UNCHANGED <<loop, sending>>
    BY ZenonT(30), <1>3 DEF TimerFires
  <2>2. LoopTypeOK' /\ SendersRun'
    BY ZenonT(30), <2>1 DEF ShardsInv, LoopTypeOK, SendersRun
  <2> QED
    BY ZenonT(30), <1>1, <2>1, <2>2, SameShards
<1>4. CASE ~TimerFires(s)
  <2> DEFINE Moves ==
        /\ loop[s] # "off"
        /\ loop' = loop \/ \E l \in {"drain", "exited"} : loop' = [loop EXCEPT ![s] = l]
        /\ \/ sending' = sending
           \/ \E x \in {"no", "size", "timeout", "final"} : sending' = [sending EXCEPT ![s] = x]
  <2>1. TakeItem(s) => Moves
    BY ZenonT(30) DEF TakeItem, ProcessItem
  <2>2. OnTimer(s) => Moves
    BY ZenonT(30) DEF OnTimer
  <2>3. SendItems(s) => Moves
    BY ZenonT(30), <1>2 DEF SendItems
  <2>4. SeeShutdown(s) => Moves
    BY ZenonT(30) DEF SeeShutdown
  <2>5. Drain(s) => Moves
    BY ZenonT(30) DEF Drain, ProcessItem, LastRequest
  <2>6. Moves
    BY ZenonT(30), <1>4, <2>1, <2>2, <2>3, <2>4, <2>5
  <2>7. LoopTypeOK' /\ \A x \in Shard : loop'[x] = "off" <=> loop[x] = "off"
    BY <1>2, <2>6 DEF LoopTypeOK
  <2>8. SendersRun'
    BY <1>2, <2>6, <2>7 DEF SendersRun, ShardsInv
  <2> QED
    BY ZenonT(30), <1>1, <2>7, <2>8, SameShards
<1> QED
  BY <1>3, <1>4

\* A producer looks its shard up, stores it or is refused, sends its data.
LEMMA ProducerStep ==
  ASSUME ShardsInv, NEW p \in Producer, Consume(p) \/ AddShard(p) \/ Send(p)
  PROVE  ShardsInv'
<1>1. started /\ UNCHANGED <<cfg, started, sending>>
  BY DEF Consume, AddShard, Send, ShardsInv
<1>2. CASE UNCHANGED <<batchers, loop, size>>
  BY ZenonT(30), <1>1, <1>2, SameShards DEF ShardsInv, LoopTypeOK, SendersRun
<1>3. CASE ~UNCHANGED <<batchers, loop, size>>
  <2>1. ~AtLimit /\ ShardOf(p) \notin batchers /\ StartShard(ShardOf(p)) /\ size' = size + 1
    BY <1>3 DEF Consume, AddShard, Send
  <2>2. ShardOf(p) \in Shard
    BY DEF ShardOf, Shard
  <2>3. size' \in Nat
    BY <2>1 DEF ShardsInv
  <2> QED
    BY <1>1, <2>1, <2>2, <2>3, NewShard
<1> QED
  BY <1>2, <1>3

\* Start, Shutdown and the end.
LEMMA ProcessorStep ==
  ASSUME ShardsInv, Start \/ Shutdown \/ WaitGoroutines \/ Idle \/ UNCHANGED vars
  PROVE  ShardsInv'
<1>1. CASE Start /\ ~cfg.keys
  <2>1. /\ StartShard(Single) /\ started' /\ size' = size /\ UNCHANGED <<cfg, sending>>
        /\ Single \notin batchers
    BY <1>1 DEF Start, ShardsInv
  <2>2. Single \in Shard /\ size' \in Nat
    BY <2>1 DEF Shard, ShardsInv
  <2> QED
    BY <1>1, <2>1, <2>2, NewShard
<1>2. CASE Start /\ cfg.keys
  <2>1. started' /\ UNCHANGED <<cfg, batchers, loop, size, sending>>
    BY <1>2 DEF Start
  <2> QED
    BY ZenonT(30), <2>1, SameShards DEF ShardsInv, LoopTypeOK, SendersRun
<1>3. CASE Shutdown \/ WaitGoroutines \/ Idle \/ UNCHANGED vars
  <2>1. UNCHANGED <<cfg, started, ppc, batchers, loop, size, sending>>
    BY <1>3 DEF Shutdown, WaitGoroutines, Idle, vars
  <2> QED
    BY ZenonT(30), <2>1, SameShards DEF ShardsInv, LoopTypeOK, SendersRun
<1> QED
  BY <1>1, <1>2, <1>3

\* A processor that was not started has no shards.
LEMMA InitShards == Init => ShardsInv
<1> SUFFICES ASSUME Init PROVE ShardsInv
  OBVIOUS
<1>1. batchers = {} /\ IsFiniteSet(batchers) /\ Cardinality(batchers) = 0
  BY FS_EmptySet DEF Init
<1>2. cfg \in Configs /\ cfg.limit \in Nat
  BY ConfigAssumption DEF Init
<1>3. LoopTypeOK /\ SendersRun
  BY DEF Init, LoopTypeOK, SendersRun
<1>4. ShardsWithinLimit
  BY <1>1, <1>2 DEF Init, ShardsWithinLimit
<1> QED
  BY <1>1, <1>2, <1>3, <1>4 DEF Init, ShardsInv

\* However many producers bring a new combination of metadata values at once,
\* one shard is started for it, size counts the shards, and they are never more
\* than metadata_cardinality_limit (batch_processor.go:323-364).
THEOREM LimitHolds == Spec => []ShardsWithinLimit
<1>1. ShardsInv /\ [Next]_vars => ShardsInv'
  <2> SUFFICES ASSUME ShardsInv, [Next]_vars PROVE ShardsInv'
    OBVIOUS
  <2> QED
    BY LoopStep, ProducerStep, ProcessorStep DEF Next
<1>2. ShardsInv => ShardsWithinLimit
  BY DEF ShardsInv
<1> QED
  BY <1>1, <1>2, InitShards, PTL DEF Spec
=============================================================================
