-------------------------------- MODULE Cond --------------------------------
(***************************************************************************)
(* The context-aware condition variable of the sending queues              *)
(* (exporter/exporterhelper/internal/queue/cond.go).                       *)
(*                                                                         *)
(* Goroutines call Signal and Wait while they hold c.L.  Both may release  *)
(* the lock in the middle: Wait while it sleeps, Signal when every slot of *)
(* the channel is taken.  A goroutine's program counter:                   *)
(*   "out"        outside any call, without c.L                            *)
(*   "in"         holds c.L: the caller's own critical section             *)
(*   "select"     in Wait, without c.L, at the select on ctx.Done and c.ch *)
(*   "woken"      in Wait, took a token, about to lock c.L                 *)
(*   "cancelled"  in Wait, saw ctx.Done, about to lock c.L                 *)
(*   "drain"      in Wait, holds c.L, at the receive `<-c.ch'              *)
(*   "sending"    in Signal, without c.L, at the blocking send             *)
(*   "relock"     in Signal, sent, about to lock c.L again                 *)
(***************************************************************************)
EXTENDS Integers, FiniteSets

CONSTANTS
  Goroutines,  \* the callers of Wait and Signal
  Slots        \* capacity of c.ch: runtime.NumCPU()

ASSUME SlotsAssumption == Slots \in Nat \ {0}

ASSUME GoroutinesAssumption == IsFiniteSet(Goroutines)

VARIABLES
  pc,       \* where each goroutine is
  waiting,  \* c.waiting
  ch,       \* number of tokens buffered in c.ch
  done      \* goroutines whose current context is done

condVars == <<pc, waiting, ch, done>>

PCs == {"out", "in", "select", "woken", "cancelled", "drain", "sending", "relock"}

CondTypeOK ==
  /\ pc \in [Goroutines -> PCs]
  /\ waiting \in Nat
  /\ ch \in 0..Slots
  /\ done \subseteq Goroutines

CondInit ==
  /\ pc = [g \in Goroutines |-> "out"]
  /\ waiting = 0
  /\ ch = 0
  /\ done = {}

Goto(g, l) == pc' = [pc EXCEPT ![g] = l]

LockKeptWhileSending == \A g \in Goroutines : pc[g] \notin {"in", "drain", "sending"}

\* The mutex c.L is free: no goroutine is at a place where it holds it.
LockFree == \A g \in Goroutines : pc[g] \notin {"in", "drain"}

Lock(g, from) ==
  /\ pc[g] = from
  /\ LockFree
  /\ Goto(g, "in")

(***************************************************************************)
(* The caller.                                                             *)
(***************************************************************************)
Acquire(g) == Lock(g, "out") /\ UNCHANGED <<waiting, ch, done>>

\* The caller unlocks and is through with this context.
Release(g) ==
  /\ pc[g] = "in"
  /\ Goto(g, "out")
  /\ done' = done \ {g}
  /\ UNCHANGED <<waiting, ch>>

\* The context of a running call is cancelled or times out.
CtxDone(g) ==
  /\ pc[g] # "out"
  /\ g \notin done
  /\ done' = done \cup {g}
  /\ UNCHANGED <<pc, waiting, ch>>

(***************************************************************************)
(* Signal.                                                                 *)
(***************************************************************************)
\* Nobody waits: return.  Otherwise one waiter fewer, and a token for it: into
\* a free slot, or, when all are taken, sent after c.L has been released.
Signal(g) ==
  /\ pc[g] = "in"
  /\ \/ waiting = 0 /\ UNCHANGED <<pc, waiting, ch>>
     \/ /\ waiting > 0
        /\ waiting' = waiting - 1
        /\ \/ ch < Slots /\ ch' = ch + 1 /\ UNCHANGED pc
           \/ ch = Slots /\ Goto(g, "sending") /\ UNCHANGED ch
  /\ UNCHANGED done

SendBlocked(g) ==
  /\ pc[g] = "sending"
  /\ ch < Slots
  /\ ch' = ch + 1
  /\ Goto(g, "relock")
  /\ UNCHANGED <<waiting, done>>

SignalRelock(g) == Lock(g, "relock") /\ UNCHANGED <<waiting, ch, done>>

(***************************************************************************)
(* Wait.                                                                   *)
(***************************************************************************)
Wait(g) ==
  /\ pc[g] = "in"
  /\ waiting' = waiting + 1
  /\ Goto(g, "select")
  /\ UNCHANGED <<ch, done>>

SelectDone(g) ==
  /\ pc[g] = "select"
  /\ g \in done
  /\ Goto(g, "cancelled")
  /\ UNCHANGED <<waiting, ch, done>>

SelectToken(g) ==
  /\ pc[g] = "select"
  /\ ch > 0
  /\ ch' = ch - 1
  /\ Goto(g, "woken")
  /\ UNCHANGED <<waiting, done>>

WokenLock(g) == Lock(g, "woken") /\ UNCHANGED <<waiting, ch, done>>

CancelNeverDrains(g) ==
  /\ pc[g] = "cancelled"
  /\ LockFree
  /\ waiting' = IF waiting = 0 THEN 0 ELSE waiting - 1
  /\ Goto(g, "in")
  /\ UNCHANGED <<ch, done>>

\* A cancelled waiter, holding c.L again: when a signal has been sent for every
\* waiter it takes one back, otherwise it only stops being counted.
CancelLock(g) ==
  /\ pc[g] = "cancelled"
  /\ LockFree
  /\ \/ waiting = 0 /\ Goto(g, "drain") /\ UNCHANGED waiting
     \/ waiting > 0 /\ Goto(g, "in") /\ waiting' = waiting - 1
  /\ UNCHANGED <<ch, done>>

CancelDrain(g) ==
  /\ pc[g] = "drain"
  /\ ch > 0
  /\ ch' = ch - 1
  /\ Goto(g, "in")
  /\ UNCHANGED <<waiting, done>>

CondNext ==
  \E g \in Goroutines :
    \/ Acquire(g) \/ Release(g) \/ CtxDone(g)
    \/ Signal(g) \/ SendBlocked(g) \/ SignalRelock(g)
    \/ Wait(g) \/ SelectDone(g) \/ SelectToken(g) \/ WokenLock(g)
    \/ CancelLock(g) \/ CancelDrain(g)

CondSpec == CondInit /\ [][CondNext]_condVars

(***************************************************************************)
(* Fairness.  A runnable goroutine is eventually scheduled (WF); a Go      *)
(* mutex hands itself over to a goroutine that has waited too long (SF on  *)
(* taking it); a caller leaves its critical section, by unlocking or by    *)
(* Wait.  Nothing makes a caller call, and nothing cancels a context.      *)
(***************************************************************************)
CondFairness ==
  \A g \in Goroutines :
    /\ WF_condVars(SelectDone(g) \/ SelectToken(g))
    /\ WF_condVars(SendBlocked(g))
    /\ WF_condVars(CancelDrain(g))
    /\ SF_condVars(SignalRelock(g))
    /\ SF_condVars(WokenLock(g))
    /\ SF_condVars(CancelLock(g))
    /\ SF_condVars(Release(g) \/ Wait(g))

FairSpec == CondSpec /\ CondFairness

(***************************************************************************)
(* Properties.                                                             *)
(***************************************************************************)
\* Goroutines that Signal may still have to wake, or that have still to take
\* themselves out of the count.
Waiters == {g \in Goroutines : pc[g] \in {"select", "cancelled", "drain"}}

Senders == {g \in Goroutines : pc[g] = "sending"}

Permits == ch + Cardinality(Senders)

\* Every goroutine inside Wait is either still counted by c.waiting or has a
\* token on its way, in the channel or in a Signal blocked on it: no token is
\* lost, none is left over for a Wait that nobody signalled.
WaitersAccounted == Cardinality(Waiters) = waiting + Permits

\* The receive that a cancelled Wait does while it holds c.L always has a token
\* to take, buffered or about to be sent by a goroutine that needs no lock to
\* send it: the queue's mutex is never held for ever (cond.go:56).
DrainHasToken ==
  \A g \in Goroutines : pc[g] = "drain" => ch > 0 \/ Senders # {}

\* A call that needs nothing more from anybody returns: a blocked Signal, a
\* Wait that took a token, a Wait whose context is done.
CallsReturn ==
  \A g \in Goroutines :
    \/ pc[g] \in {"sending", "relock", "woken", "cancelled", "drain"}
    \/ pc[g] = "select" /\ g \in done
      ~> pc[g] = "in"

\* "Signal wakes one goroutine waiting on c, if there is any" (cond.go:26): when
\* the one goroutine that waits has been signalled, it wakes up.
SignalWakesTheWaiter ==
  \A g \in Goroutines :
    pc[g] = "select" /\ Waiters = {g} /\ ch > 0 ~> pc[g] # "select"

(***************************************************************************)
(* What the condition variable promises, in the words of PermitCond.       *)
(***************************************************************************)
Abstract == INSTANCE PermitCond WITH waiters <- Waiters, permits <- Permits

RefinesPermitCond == Abstract!Spec
=============================================================================
