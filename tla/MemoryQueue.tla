---------------------------- MODULE MemoryQueue ----------------------------
(***************************************************************************)
(* The in-memory sending queue and the consumers that drain it             *)
(* (exporter/exporterhelper/internal/queue/memory_queue.go, async_queue.go *)
(* and the use they make of cond.go).                                      *)
(*                                                                         *)
(* Every call of Offer is a goroutine of its own, named after the element  *)
(* it offers; the completion of an element (OnDone) runs on whatever       *)
(* goroutine the batcher calls it from.  An action is what a goroutine     *)
(* does between taking mq.mu and giving it back.  Where Offer stands:      *)
(*   "new"        not called yet                                           *)
(*   "select" "woken" "cancelled" "drain"   in hasMoreSpace.Wait, see Cond *)
(*   "await"      at the select on done.ch and ctx.Done                    *)
(*   "abandon"    saw ctx.Done, about to lock in abandon                   *)
(*   "sending" "relock"   abandon blocked in hasMoreSpace.Signal, see Cond *)
(*   "must"       at the last `<-done.ch': a consumer has the element      *)
(*   "returned"   Offer has returned result[o]                             *)
(* Where an element stands:                                                *)
(*   "none"       not in the queue (yet)                                   *)
(*   "queued" "abandoned"   in the linked list                             *)
(*   "dropped"    abandoned and thrown away by Read                        *)
(*   "inflight"   handed to consumeFunc                                    *)
(*   "sending" "relock"   OnDone blocked in hasMoreSpace.Signal, see Cond  *)
(*   "done"       OnDone has returned                                      *)
(***************************************************************************)
EXTENDS Integers, Sequences, FiniteSets

CONSTANTS
  Offers,            \* calls of Offer, and the elements they offer
  Consumers,         \* the goroutines of asyncQueue.Start
  Size,              \* mq.sizer.Sizeof of each element
  Cap,               \* mq.cap
  Slots,             \* capacity of hasMoreSpace.ch
  WaitForResult,     \* mq.waitForResult
  BlockOnOverflow,   \* mq.blockOnOverflow
  Batching,          \* consumeFunc may return before the element is done
  UpstreamStopsFirst \* no Offer runs during or after Shutdown

ASSUME SizeAssumption == Size \in [Offers -> Int]

ASSUME CapAssumption == Cap \in Nat /\ Slots \in Nat \ {0}

ASSUME FiniteAssumption == IsFiniteSet(Offers) /\ IsFiniteSet(Consumers)

ASSUME ConfigAssumption ==
  {WaitForResult, BlockOnOverflow, Batching, UpstreamStopsFirst} \subseteq BOOLEAN

VARIABLES
  opc,      \* where each Offer is
  result,   \* what it returned
  got,      \* the elements whose outcome it received from done.ch
  est,      \* where each element is
  items,    \* mq.items
  size,     \* mq.size
  stopped,  \* mq.stopped
  waiting,  \* mq.hasMoreSpace.waiting
  ch,       \* tokens in mq.hasMoreSpace.ch
  cpc,      \* where each consumer is
  held,     \* the element its consumeFunc works on
  doneOf,   \* the blockingDone of each element
  doneCh,   \* blockingDone.ch: the elements whose outcome it holds
  pool,     \* mq.donePool
  refs      \* references the queue holds through mq.refCounter

condVars == <<waiting, ch>>
consVars == <<cpc, held>>
doneVars == <<doneOf, doneCh, pool>>
vars == <<opc, result, got, est, items, size, stopped, condVars, consVars, doneVars, refs>>

OfferPCs == {"new", "select", "woken", "cancelled", "drain", "await", "abandon",
             "sending", "relock", "must", "returned"}
Results == {"none", "nil", "invalid", "toolarge", "full", "ctx", "outcome"}
ElementStates == {"none", "queued", "abandoned", "dropped", "inflight",
                  "sending", "relock", "done"}

TypeOK ==
  /\ opc \in [Offers -> OfferPCs]
  /\ result \in [Offers -> Results]
  /\ got \in [Offers -> SUBSET Offers]
  /\ est \in [Offers -> ElementStates]
  /\ items \in Seq(Offers)
  /\ size \in 0..Cap
  /\ stopped \in BOOLEAN
  /\ waiting \in Nat
  /\ ch \in 0..Slots
  /\ cpc \in [Consumers -> {"read", "asleep", "busy", "exited"}]
  /\ held \in [Consumers -> SUBSET Offers]
  /\ doneOf \in [Offers -> Offers]
  /\ doneCh \in [Offers -> SUBSET Offers]
  /\ pool \subseteq Offers
  /\ refs \in [Offers -> Int]

Init ==
  /\ opc = [o \in Offers |-> "new"]
  /\ result = [o \in Offers |-> "none"]
  /\ got = [o \in Offers |-> {}]
  /\ est = [o \in Offers |-> "none"]
  /\ items = <<>>
  /\ size = 0
  /\ stopped = FALSE
  /\ waiting = 0
  /\ ch = 0
  /\ cpc = [c \in Consumers |-> "read"]
  /\ held = [c \in Consumers |-> {}]
  /\ doneOf = [o \in Offers |-> o]
  /\ doneCh = [o \in Offers |-> {}]
  /\ pool = {}
  /\ refs = [o \in Offers |-> 0]

\* mq.mu is free.  Only the receive of a cancelled Wait holds it over a step.
LockFree == \A o \in Offers : opc[o] # "drain"

Goto(o, l) == opc' = [opc EXCEPT ![o] = l]

Return(o, r) ==
  /\ Goto(o, "returned")
  /\ result' = [result EXCEPT ![o] = r]

Ref(o) == refs' = IF WaitForResult THEN refs ELSE [refs EXCEPT ![o] = @ + 1]

Unref(o) == refs' = IF WaitForResult THEN refs ELSE [refs EXCEPT ![o] = @ - 1]

\* hasMoreSpace.Signal: nobody waits, a token goes into a free slot, or the call
\* gives up mq.mu to send it (`returns' and `blocks' say what the caller does).
SignalSpace(returns, blocks) ==
  \/ waiting = 0 /\ returns /\ UNCHANGED condVars
  \/ /\ waiting > 0
     /\ waiting' = waiting - 1
     /\ \/ ch < Slots /\ ch' = ch + 1 /\ returns
        \/ ch = Slots /\ blocks /\ UNCHANGED ch

WakeNobody == UNCHANGED cpc

\* sync.Cond.Signal on hasMoreElements.
WakeOneConsumer ==
  LET asleep == {c \in Consumers : cpc[c] = "asleep"} IN
  IF asleep = {} THEN UNCHANGED cpc
  ELSE \E c \in asleep : cpc' = [cpc EXCEPT ![c] = "read"]

(***************************************************************************)
(* Offer.                                                                  *)
(***************************************************************************)
MayCall == UpstreamStopsFirst => ~stopped

\* Offer returns before it touches the queue.
OfferUnqueued(o) ==
  /\ opc[o] = "new"
  /\ MayCall
  /\ \/ Size[o] = 0 /\ Return(o, "nil")
     \/ Size[o] < 0 /\ Return(o, "invalid")
     \/ Size[o] > Cap /\ Return(o, "toolarge")
  /\ UNCHANGED <<got, est, items, size, stopped, condVars, consVars, doneVars, refs>>

Fits(o) == size + Size[o] <= Cap

\* The end of add, and Offer as far as it goes without waiting.  The
\* blockingDone comes from the pool or is a new one (named after the element).
Push(o) ==
  /\ size' = size + Size[o]
  /\ \E d \in pool \cup {o} : doneOf' = [doneOf EXCEPT ![o] = d] /\ pool' = pool \ {d}
  /\ items' = Append(items, o)
  /\ est' = [est EXCEPT ![o] = "queued"]
  /\ WakeOneConsumer
  /\ IF WaitForResult THEN Goto(o, "await") /\ UNCHANGED result ELSE Return(o, "nil")
  /\ UNCHANGED <<got, stopped, condVars, held, doneCh>>

\* hasMoreSpace.Wait up to its select.
WaitForSpace(o) ==
  /\ waiting' = waiting + 1
  /\ Goto(o, "select")
  /\ UNCHANGED <<result, got, est, items, size, stopped, ch, consVars, doneVars>>

Offer(o) ==
  /\ opc[o] = "new"
  /\ MayCall
  /\ Size[o] \in 1..Cap
  /\ LockFree
  /\ \/ Fits(o) /\ Push(o) /\ Ref(o)
     \/ ~Fits(o) /\ BlockOnOverflow /\ WaitForSpace(o) /\ Ref(o)
     \/ /\ ~Fits(o) /\ ~BlockOnOverflow
        /\ Return(o, "full")  \* Ref, then Unref
        /\ UNCHANGED <<got, est, items, size, stopped, condVars, consVars, doneVars, refs>>

AddWokenUnchecked(o) ==
  /\ opc[o] = "woken"
  /\ LockFree
  /\ Push(o)
  /\ UNCHANGED refs

\* add goes round its loop again after a wake-up.
AddWoken(o) ==
  /\ opc[o] = "woken"
  /\ LockFree
  /\ \/ Fits(o) /\ Push(o)
     \/ ~Fits(o) /\ WaitForSpace(o)
  /\ UNCHANGED refs

\* The context may be done at any time.
SpaceSelectDone(o) ==
  /\ opc[o] = "select"
  /\ Goto(o, "cancelled")
  /\ UNCHANGED <<result, got, est, items, size, stopped, condVars, consVars, doneVars, refs>>

SpaceSelectToken(o) ==
  /\ opc[o] = "select"
  /\ ch > 0
  /\ ch' = ch - 1
  /\ Goto(o, "woken")
  /\ UNCHANGED <<result, got, est, items, size, stopped, waiting, consVars, doneVars, refs>>

SpaceCancel(o) ==
  /\ opc[o] = "cancelled"
  /\ LockFree
  /\ \/ /\ waiting = 0
        /\ Goto(o, "drain")
        /\ UNCHANGED <<result, waiting, refs>>
     \/ /\ waiting > 0
        /\ waiting' = waiting - 1
        /\ Return(o, "ctx")
        /\ Unref(o)
  /\ UNCHANGED <<got, est, items, size, stopped, ch, consVars, doneVars>>

SpaceDrain(o) ==
  /\ opc[o] = "drain"
  /\ ch > 0
  /\ ch' = ch - 1
  /\ Return(o, "ctx")
  /\ Unref(o)
  /\ UNCHANGED <<got, est, items, size, stopped, waiting, consVars, doneVars>>

(***************************************************************************)
(* Offer with WaitForResult: the select on done.ch and ctx.Done, abandon.  *)
(***************************************************************************)
Receive(o) ==
  /\ doneCh[doneOf[o]] # {}
  /\ got' = [got EXCEPT ![o] = doneCh[doneOf[o]]]
  /\ doneCh' = [doneCh EXCEPT ![doneOf[o]] = {}]
  /\ Return(o, "outcome")
  /\ UNCHANGED <<est, items, size, stopped, condVars, consVars, doneOf, refs>>

AwaitOutcome(o) ==
  /\ opc[o] = "await"
  /\ Receive(o)
  /\ pool' = pool \cup {doneOf[o]}

AwaitDonePoolsBlockingDone(o) ==
  /\ opc[o] = "await"
  /\ Goto(o, "abandon")
  /\ pool' = pool \cup {doneOf[o]}
  /\ UNCHANGED <<result, got, est, items, size, stopped, condVars, consVars, doneOf, doneCh, refs>>

AwaitDone(o) ==
  /\ opc[o] = "await"
  /\ Goto(o, "abandon")
  /\ UNCHANGED <<result, got, est, items, size, stopped, condVars, consVars, doneVars, refs>>

AbandonKeepsCapacity(o) ==
  /\ opc[o] = "abandon"
  /\ LockFree
  /\ \/ /\ est[o] # "queued"
        /\ Goto(o, "must")
        /\ UNCHANGED <<result, est, size, condVars>>
     \/ /\ est[o] = "queued"
        /\ est' = [est EXCEPT ![o] = "abandoned"]
        /\ Return(o, "ctx")
        /\ UNCHANGED <<size, condVars>>
  /\ UNCHANGED <<got, items, stopped, consVars, doneVars, refs>>

\* abandon: too late once a consumer has the element; otherwise mark the node
\* and give its capacity back.
Abandon(o) ==
  /\ opc[o] = "abandon"
  /\ LockFree
  /\ \/ /\ est[o] # "queued"
        /\ Goto(o, "must")
        /\ UNCHANGED <<result, est, size, condVars>>
     \/ /\ est[o] = "queued"
        /\ est' = [est EXCEPT ![o] = "abandoned"]
        /\ size' = size - Size[o]
        /\ SignalSpace(Return(o, "ctx"), Goto(o, "sending") /\ UNCHANGED result)
  /\ UNCHANGED <<got, items, stopped, consVars, doneVars, refs>>

AbandonSend(o) ==
  /\ opc[o] = "sending"
  /\ ch < Slots
  /\ ch' = ch + 1
  /\ Goto(o, "relock")
  /\ UNCHANGED <<result, got, est, items, size, stopped, waiting, consVars, doneVars, refs>>

AbandonRelock(o) ==
  /\ opc[o] = "relock"
  /\ LockFree
  /\ Return(o, "ctx")
  /\ UNCHANGED <<got, est, items, size, stopped, condVars, consVars, doneVars, refs>>

MustAwaitOutcome(o) ==
  /\ opc[o] = "must"
  /\ Receive(o)
  /\ UNCHANGED pool

(***************************************************************************)
(* The consumers: Read, consumeFunc, OnDone.                               *)
(***************************************************************************)
Abandoned(e) == WaitForResult /\ est[e] = "abandoned"

ReadDeliversAbandoned(c) ==
  /\ cpc[c] = "read"
  /\ LockFree
  /\ items # <<>>
  /\ items' = Tail(items)
  /\ est' = [est EXCEPT ![Head(items)] = "inflight"]
  /\ cpc' = [cpc EXCEPT ![c] = "busy"]
  /\ held' = [held EXCEPT ![c] = {Head(items)}]
  /\ UNCHANGED <<opc, result, got, size, stopped, condVars, doneVars, refs>>

\* Read drops the abandoned elements at the head, then hands out the next one;
\* without one it exits when stopped and sleeps on hasMoreElements otherwise.
Read(c) ==
  /\ cpc[c] = "read"
  /\ LockFree
  /\ \E k \in 0..Len(items) :
       LET dropped == {items[i] : i \in 1..k}
           leave(e, s) == IF e \in dropped THEN "dropped" ELSE s
       IN
       /\ \A i \in 1..k : Abandoned(items[i])
       /\ \/ /\ k = Len(items)
             /\ cpc' = [cpc EXCEPT ![c] = IF stopped THEN "exited" ELSE "asleep"]
             /\ est' = [e \in Offers |-> leave(e, est[e])]
             /\ items' = <<>>
             /\ UNCHANGED held
          \/ /\ k < Len(items)
             /\ ~Abandoned(items[k + 1])
             /\ cpc' = [cpc EXCEPT ![c] = "busy"]
             /\ held' = [held EXCEPT ![c] = {items[k + 1]}]
             /\ est' = [e \in Offers |-> IF e = items[k + 1] THEN "inflight" ELSE leave(e, est[e])]
             /\ items' = SubSeq(items, k + 2, Len(items))
  /\ UNCHANGED <<opc, result, got, size, stopped, condVars, doneVars, refs>>

\* consumeFunc returns: with a batcher possibly before the element is done.
ConsumeReturns(c) ==
  /\ cpc[c] = "busy"
  /\ Batching \/ \A e \in held[c] : est[e] = "done"
  /\ cpc' = [cpc EXCEPT ![c] = "read"]
  /\ held' = [held EXCEPT ![c] = {}]
  /\ UNCHANGED <<opc, result, got, est, items, size, stopped, condVars, doneVars, refs>>

\* The end of onDone: the outcome for the waiting Offer, or the blockingDone
\* back into the pool.
Report(e) ==
  /\ est' = [est EXCEPT ![e] = "done"]
  /\ IF WaitForResult
     THEN /\ doneCh[doneOf[e]] = {}
          /\ doneCh' = [doneCh EXCEPT ![doneOf[e]] = {e}]
          /\ UNCHANGED pool
     ELSE /\ pool' = pool \cup {doneOf[e]}
          /\ UNCHANGED doneCh

OnDoneWithoutSignal(e) ==
  /\ est[e] = "inflight"
  /\ LockFree
  /\ Unref(e)
  /\ size' = size - Size[e]
  /\ Report(e)
  /\ UNCHANGED <<opc, result, got, items, stopped, condVars, consVars, doneOf>>

OnDone(e) ==
  /\ est[e] = "inflight"
  /\ LockFree
  /\ Unref(e)
  /\ size' = size - Size[e]
  /\ SignalSpace(Report(e), est' = [est EXCEPT ![e] = "sending"] /\ UNCHANGED <<doneCh, pool>>)
  /\ UNCHANGED <<opc, result, got, items, stopped, consVars, doneOf>>

OnDoneSend(e) ==
  /\ est[e] = "sending"
  /\ ch < Slots
  /\ ch' = ch + 1
  /\ est' = [est EXCEPT ![e] = "relock"]
  /\ UNCHANGED <<opc, result, got, items, size, stopped, waiting, consVars, doneVars, refs>>

OnDoneRelock(e) ==
  /\ est[e] = "relock"
  /\ LockFree
  /\ Report(e)
  /\ UNCHANGED <<opc, result, got, items, size, stopped, condVars, consVars, doneOf, refs>>

(***************************************************************************)
(* Shutdown of the queue; asyncQueue.Shutdown then waits until every       *)
(* consumer has exited.                                                    *)
(***************************************************************************)
Shutdown ==
  /\ ~stopped
  /\ LockFree
  /\ UpstreamStopsFirst => \A o \in Offers : opc[o] \in {"new", "returned"}
  /\ stopped' = TRUE
  /\ cpc' = [c \in Consumers |-> IF cpc[c] = "asleep" THEN "read" ELSE cpc[c]]
  /\ UNCHANGED <<opc, result, got, est, items, size, condVars, held, doneVars, refs>>

ShutdownReturned == stopped /\ \A c \in Consumers : cpc[c] = "exited"

\* Nothing is left to do: not a deadlock.
Terminated ==
  /\ ShutdownReturned
  /\ \A o \in Offers : /\ opc[o] \in {"new", "returned"}
                        /\ est[o] \notin {"inflight", "sending", "relock"}
  /\ UNCHANGED vars

OfferStep(o) ==
  \/ AddWoken(o) \/ SpaceSelectToken(o) \/ SpaceCancel(o) \/ SpaceDrain(o)
  \/ AwaitOutcome(o) \/ Abandon(o) \/ AbandonSend(o) \/ AbandonRelock(o)
  \/ MustAwaitOutcome(o)

DoneStep(e) == OnDone(e) \/ OnDoneSend(e) \/ OnDoneRelock(e)

ConsumerStep(c) == Read(c) \/ ConsumeReturns(c)

Next ==
  \/ \E o \in Offers :
       \/ OfferUnqueued(o) \/ Offer(o) \/ SpaceSelectDone(o) \/ AwaitDone(o)
       \/ OfferStep(o)
       \/ DoneStep(o)
  \/ \E c \in Consumers : ConsumerStep(c)
  \/ Shutdown
  \/ Terminated

Spec == Init /\ [][Next]_vars

(***************************************************************************)
(* Fairness: a goroutine that can run does, and exporting an element ends. *)
(* Offers are not obliged to be made, contexts are not obliged to end,     *)
(* nobody is obliged to shut down.                                         *)
(***************************************************************************)
Fairness ==
  /\ \A o \in Offers : WF_vars(OfferStep(o)) /\ WF_vars(DoneStep(o))
  /\ \A c \in Consumers : WF_vars(ConsumerStep(c))

FairSpec == Spec /\ Fairness

(***************************************************************************)
(* Properties.                                                             *)
(***************************************************************************)
\* Elements that count against the capacity.
Live == {e \in Offers : est[e] \in {"queued", "inflight"}}

\* An element of size s takes s units of the queue.
Units(E) == {u \in E \X (1..Cap) : u[2] <= Size[u[1]]}

\* mq.size is exactly the space of the elements queued or being exported, however
\* acceptance, completion, cancellation and abandonment interleave: no space
\* leaks, none is given back twice, and the total stays within the capacity
\* (memory_queue.go:127, 145).
SizeAccounted == size = Cardinality(Units(Live)) /\ size <= Cap

SpaceWaiters == {o \in Offers : opc[o] \in {"select", "cancelled", "drain"}}

SpaceSenders ==
  Cardinality({o \in Offers : opc[o] = "sending"}) + Cardinality({e \in Offers : est[e] = "sending"})

\* A producer sleeps unsignalled in hasMoreSpace.Wait only while something holds
\* space that its completion will signal, or a wake-up is already under way: the
\* single Signal of freeCapacity never strands a blocked producer.
NoStrandedProducer ==
  waiting > 0 => \/ size > 0
                 \/ ch + SpaceSenders > 0
                 \/ \E o \in Offers : opc[o] = "woken"

\* While the list has an element, some consumer is on its way to read it: the
\* single hasMoreElements.Signal of add never leaves all of them asleep.
NoStrandedElement ==
  items # <<>> /\ Consumers # {} /\ ~stopped => \E c \in Consumers : cpc[c] # "asleep"

\* An Offer that reports an error because it gave up, or was refused, was not
\* and will not be delivered; one that reports an outcome reports that of its own
\* element, and only after it was exported (memory_queue.go:94-105).
ResultIsTruthful ==
  \A o \in Offers :
    /\ result[o] \in {"full", "ctx", "toolarge", "invalid"}
         => est[o] \in {"none", "abandoned", "dropped"}
    /\ result[o] = "outcome" => est[o] = "done" /\ got[o] = {o}

\* A blockingDone that comes from the pool belongs to one element at a time and
\* its channel is empty: onDone never blocks on bd.ch with mq.mu held, and no
\* caller can read the outcome of another's element (memory_queue.go:91-96, 202).
BlockingDoneExclusive ==
  \A e \in Offers :
    est[e] \in {"queued", "inflight", "sending", "relock"} =>
      /\ doneOf[e] \notin pool
      /\ doneCh[doneOf[e]] = {}
      /\ \A f \in Offers \ {e} :
           est[f] \in {"queued", "inflight", "sending", "relock"} => doneOf[f] # doneOf[e]

\* The queue holds its reference to an element for as long as it may still read
\* or export it, and no longer: Ref and Unref balance on every path of Offer.
ReferencesBalanced ==
  \A o \in Offers :
    refs[o] = IF ~WaitForResult /\ (est[o] \in {"queued", "inflight"}
                                    \/ opc[o] \in {"select", "woken", "cancelled", "drain"})
              THEN 1 ELSE 0

\* When asyncQueue.Shutdown returns, every element accepted before it has been
\* handed to a consumer, and exported if the consumer itself exports it: the
\* queue is drained.
DrainedAtShutdown ==
  ShutdownReturned /\ UpstreamStopsFirst =>
    \A e \in Offers :
      /\ est[e] # "queued"
      /\ ~Batching => est[e] # "inflight"

\* Every Offer returns: blocked on overflow, waiting for the outcome, or giving up
\* at the very moment a consumer takes the element.
OfferReturns ==
  \A o \in Offers : opc[o] \notin {"new", "returned"} ~> opc[o] = "returned"

\* Once stopped, all consumers exit.
ShutdownReturns == stopped ~> ShutdownReturned

(***************************************************************************)
(* Refinement.                                                             *)
(***************************************************************************)
Queued == {e \in Offers : est[e] = "queued"}

\* e is before f in the list.
Precedes(e, f) == \E i, j \in 1..Len(items) : i < j /\ items[i] = e /\ items[j] = f

Promise == INSTANCE BoundedQueue WITH
  queue <- Queued,
  before <- {p \in Queued \X Queued : Precedes(p[1], p[2])},
  inflight <- {e \in Offers : est[e] = "inflight"},
  used <- size,
  gone <- {e \in Offers : est[e] \in {"sending", "relock", "done", "abandoned", "dropped"}}

\* The linked list with its abandoned nodes, done pool and two condition
\* variables is a bounded FIFO queue that hands out every element at most once.
RefinesBoundedQueue == Promise!Spec
=============================================================================
