------------------------- MODULE QueuePromiseProofs -------------------------
(***************************************************************************)
(* What the memory queue promises its users, proved for every set of       *)
(* producers and consumers, all sizes and every capacity: a producer that  *)
(* waits for space is served, a caller that waits for the outcome gets its *)
(* own, and the queue as a whole is a BoundedQueue.  The invariant of      *)
(* MemoryQueueProofs is used throughout; each promise adds its own.        *)
(***************************************************************************)
EXTENDS MemoryQueueProofs

\* The provers of a step, in this order, and their time in seconds.
USE SMTT(30), ZenonT(30), Z3T(30)

(***************************************************************************)
(* What Read does to the list and to the elements.                         *)
(***************************************************************************)
\* Read, as far as the list and the elements go: it either drops all of it, or
\* hands out the element behind those it drops.
LEMMA ReadEffect ==
  ASSUME IInv, NEW c \in Consumers, Read(c)
  PROVE  \/ /\ items' = <<>>
            /\ \A e \in Offers : \/ est'[e] = est[e] /\ ~InList(e)
                                 \/ est[e] = "abandoned" /\ est'[e] = "dropped"
         \/ \E k \in 1..Len(items) :
              /\ est[items[k]] = "queued" /\ est'[items[k]] = "inflight"
              /\ \A i \in 1..(k - 1) : est[items[i]] = "abandoned" /\ est'[items[i]] = "dropped"
              /\ \A e \in Offers : e \notin {items[i] : i \in 1..k} => est'[e] = est[e]
              /\ items' = SubSeq(items, k + 1, Len(items))
<1>1. PICK k \in 0..Len(items) :
        LET dropped == {items[i] : i \in 1..k}
            leave(x, s) == IF x \in dropped THEN "dropped" ELSE s
        IN
        /\ \A i \in 1..k : Abandoned(items[i])
        /\ \/ /\ k = Len(items)
              /\ est' = [x \in Offers |-> leave(x, est[x])]
              /\ items' = <<>>
           \/ /\ k < Len(items)
              /\ ~Abandoned(items[k + 1])
              /\ est' = [x \in Offers |->
                           IF x = items[k + 1] THEN "inflight" ELSE leave(x, est[x])]
              /\ items' = SubSeq(items, k + 2, Len(items))
  BY DEF Read
<1>2. Len(items) \in Nat /\ \A i \in 1..Len(items) : items[i] \in Offers
  BY DEF IInv, TypeOK
<1>3. CASE k = Len(items)
  <2>1. \A i \in 1..Len(items) : est[items[i]] = "abandoned"
    BY <1>1, <1>3 DEF Abandoned
  <2>2. est' = [x \in Offers |-> IF x \in {items[i] : i \in 1..k} THEN "dropped" ELSE est[x]]
    BY <1>1, <1>3
  <2>3. items' = <<>>
    BY <1>1, <1>3
  <2>4. ASSUME NEW e \in Offers, InList(e) PROVE est[e] = "abandoned" /\ est'[e] = "dropped"
    BY <1>3, <2>1, <2>2, <2>4 DEF InList
  <2>5. ASSUME NEW e \in Offers, ~InList(e) PROVE est'[e] = est[e]
    BY <1>3, <2>2, <2>5 DEF InList
  <2> QED
    BY <2>3, <2>4, <2>5
<1>4. CASE k < Len(items)
  <2> DEFINE h == k + 1
             dropped == {items[i] : i \in 1..k}
  <2>1. h \in 1..Len(items) /\ items[h] \in Offers /\ ~Abandoned(items[h]) /\ h - 1 = k /\ h + 1 = k + 2
    BY <1>1, <1>2, <1>4
  <2>2. /\ est' = [x \in Offers |-> IF x = items[h] THEN "inflight"
                                    ELSE IF x \in dropped THEN "dropped" ELSE est[x]]
        /\ items' = SubSeq(items, k + 2, Len(items))
        /\ \A i \in 1..k : est[items[i]] = "abandoned"
    BY <1>1, <1>4 DEF Abandoned
  <2>3. est[items[h]] = "queued" /\ est'[items[h]] = "inflight"
    BY <2>1, <2>2 DEF Abandoned, IInv, ListHoldsWaiting, OnlyWaitersAbandon
  <2>4. \A i \in 1..k : items[i] # items[h] /\ items[i] \in Offers
    BY <1>2, <2>1, <2>2, <2>3
  <2>5. \A i \in 1..k : est'[items[i]] = "dropped"
    BY <2>2, <2>4
  <2>6. \A e \in Offers : e \notin {items[i] : i \in 1..h} => est'[e] = est[e]
    BY <2>1, <2>2
  <2> HIDE DEF h
  <2> QED
    BY ZenonT(30), <2>1, <2>2, <2>3, <2>5, <2>6
<1>5. k = Len(items) \/ k < Len(items)
  BY <1>2
<1> QED
  BY Zenon, <1>3, <1>4, <1>5

\* So an element that Read moves was abandoned and is dropped, or was queued and is
\* handed out.
LEMMA ReadMoves ==
  ASSUME IInv, NEW c \in Consumers, Read(c), NEW e \in Offers
  PROVE  \/ est'[e] = est[e]
         \/ est[e] = "abandoned" /\ est'[e] = "dropped"
         \/ est[e] = "queued" /\ est'[e] = "inflight"
<1>1. CASE \A x \in Offers : \/ est'[x] = est[x] /\ ~InList(x)
                             \/ est[x] = "abandoned" /\ est'[x] = "dropped"
  BY <1>1
<1>2. ASSUME NEW k \in 1..Len(items),
             est[items[k]] = "queued", est'[items[k]] = "inflight",
             \A i \in 1..(k - 1) : est[items[i]] = "abandoned" /\ est'[items[i]] = "dropped",
             \A x \in Offers : x \notin {items[i] : i \in 1..k} => est'[x] = est[x]
      PROVE  \/ est'[e] = est[e]
             \/ est[e] = "abandoned" /\ est'[e] = "dropped"
             \/ est[e] = "queued" /\ est'[e] = "inflight"
  <2>1. Len(items) \in Nat
    BY DEF IInv, TypeOK
  <2>2. CASE e \in {items[i] : i \in 1..k}
    <3>1. PICK i \in 1..k : e = items[i]
      BY <2>2
    <3>2. i = k \/ i \in 1..(k - 1)
      BY <2>1
    <3> QED
      BY <1>2, <3>1, <3>2
  <2> QED
    BY <1>2, <2>2
<1> QED
  BY Zenon, <1>1, <1>2, ReadEffect

-----------------------------------------------------------------------------
(***************************************************************************)
(* No producer is stranded.                                                *)
(***************************************************************************)
\* A cancelled Wait that found no waiter left holds mq.mu, so nobody can begin to
\* wait beside it.
DrainAlone == waiting > 0 => LockFree

\* NoStrandedProducer, with the senders counted by it spelt out.
ProducerServed ==
  waiting > 0 => \/ size > 0
                 \/ ch > 0
                 \/ \E o \in Offers : opc[o] \in {"sending", "woken"} \/ est[o] = "sending"

WakeInv == DrainAlone /\ ProducerServed

\* A set of goroutines has a positive size when somebody is in it.
LEMMA Somebody ==
  ASSUME NEW S \in SUBSET Offers
  PROVE  Cardinality(S) \in Nat /\ (Cardinality(S) > 0 <=> S # {})
<1>1. IsFiniteSet(S) /\ Cardinality(S) \in Nat
  BY FiniteAssumption, FS_Subset, FS_CardinalityType
<1>2. Cardinality(S) = 0 <=> S = {}
  BY <1>1, FS_EmptySet
<1> QED
  BY <1>1, <1>2

\* The two forms say the same.
LEMMA SendersSpelt == IInv => (ProducerServed => NoStrandedProducer)
<1> SUFFICES ASSUME IInv, ProducerServed PROVE NoStrandedProducer
  OBVIOUS
<1> DEFINE S == {o \in Offers : opc[o] = "sending"}
           T == {e \in Offers : est[e] = "sending"}
<1>1. /\ Cardinality(S) \in Nat /\ (Cardinality(S) > 0 <=> S # {})
      /\ Cardinality(T) \in Nat /\ (Cardinality(T) > 0 <=> T # {})
  BY Somebody
<1>2. ch \in Nat /\ SpaceSenders = Cardinality(S) + Cardinality(T)
  BY CapAssumption DEF SpaceSenders, IInv, TypeOK
<1>3. ch > 0 \/ S # {} \/ T # {} => ch + SpaceSenders > 0
  BY <1>1, <1>2
<1> QED
  BY <1>3 DEF ProducerServed, NoStrandedProducer

\* The calls of add: whoever begins to wait does so because the queue holds something.
LEMMA AddServes ==
  ASSUME IInv, WakeInv, NEW o \in Offers, Offer(o) \/ AddWoken(o)
  PROVE  WakeInv'
<1>1. Size[o] \in 1..Cap /\ size \in 0..Cap
  BY DEF Offer, AddWoken, IInv, ProperSizes, TypeOK
<1>2. LockFree /\ opc[o] \in {"new", "woken"}
  BY DEF Offer, AddWoken
<1>3. CASE Push(o)
  <2>1. size' > 0 /\ waiting' = waiting
    BY <1>1, <1>3, CapAssumption DEF Push, condVars
  <2>2. LockFree'
    BY <1>2, <1>3 DEF Push, LockFree, Goto, Return, IInv, TypeOK
  <2> QED
    BY <2>1, <2>2 DEF WakeInv, DrainAlone, ProducerServed
<1>4. CASE ~Fits(o) /\ WaitForSpace(o)
  <2>1. size' > 0
    BY <1>1, <1>4, CapAssumption DEF Fits, WaitForSpace
  <2>2. LockFree'
    BY <1>2, <1>4 DEF WaitForSpace, LockFree, Goto, IInv, TypeOK
  <2> QED
    BY <2>1, <2>2 DEF WakeInv, DrainAlone, ProducerServed
<1>5. CASE /\ opc[o] = "new" /\ Return(o, "full")
           /\ UNCHANGED <<got, est, items, size, stopped, condVars, consVars, doneVars, refs>>
  BY <1>5 DEF Return, Goto, condVars, WakeInv, DrainAlone, ProducerServed, LockFree, IInv, TypeOK
<1> QED
  BY <1>3, <1>4, <1>5 DEF Offer, AddWoken

\* The steps inside Wait.
LEMMA SpaceServes ==
  ASSUME IInv, WakeInv, NEW o \in Offers,
         SpaceSelectDone(o) \/ SpaceSelectToken(o) \/ SpaceCancel(o) \/ SpaceDrain(o)
  PROVE  WakeInv'
<1>0. opc \in [Offers -> OfferPCs] /\ waiting \in Nat
  BY DEF IInv, TypeOK
<1>1. CASE SpaceSelectDone(o)
  BY <1>0, <1>1 DEF SpaceSelectDone, Goto, condVars, WakeInv, DrainAlone, ProducerServed, LockFree
<1>2. CASE SpaceSelectToken(o)
  BY <1>0, <1>2 DEF SpaceSelectToken, Goto, condVars, WakeInv, DrainAlone, ProducerServed, LockFree
<1>3. CASE SpaceCancel(o)
  <2>1. CASE waiting = 0
    <3>1. waiting' = 0
      BY <1>0, <1>3, <2>1 DEF SpaceCancel
    <3> QED
      BY <3>1 DEF WakeInv, DrainAlone, ProducerServed
  <2>2. CASE waiting > 0
    BY <1>0, <1>3, <2>2 DEF SpaceCancel, Return, Goto, WakeInv, DrainAlone, ProducerServed, LockFree
  <2> QED
    BY <1>0, <2>1, <2>2
<1>4. CASE SpaceDrain(o)
  <2>1. ~LockFree
    BY <1>4 DEF SpaceDrain, LockFree
  <2>2. waiting' = 0
    BY <1>0, <1>4, <2>1 DEF SpaceDrain, WakeInv, DrainAlone
  <2> QED
    BY <2>2 DEF WakeInv, DrainAlone, ProducerServed
<1> QED
  BY <1>1, <1>2, <1>3, <1>4

\* The select on done.ch, abandon and what follows it.
LEMMA AwaitServes ==
  ASSUME IInv, WakeInv, NEW o \in Offers,
         \/ OfferUnqueued(o) \/ AwaitDone(o) \/ AwaitOutcome(o) \/ MustAwaitOutcome(o)
         \/ Abandon(o) \/ AbandonSend(o) \/ AbandonRelock(o)
  PROVE  WakeInv'
<1>0. opc \in [Offers -> OfferPCs] /\ waiting \in Nat /\ est \in [Offers -> ElementStates]
      /\ ch \in Nat
  BY CapAssumption DEF IInv, TypeOK
<1>1. CASE OfferUnqueued(o) \/ AwaitDone(o) \/ AwaitOutcome(o) \/ MustAwaitOutcome(o) \/ AbandonRelock(o)
  <2>1. /\ opc[o] \in {"new", "await", "must", "relock"}
        /\ opc' = [opc EXCEPT ![o] = "returned"] \/ opc' = [opc EXCEPT ![o] = "abandon"]
        /\ UNCHANGED <<est, size, waiting, ch>>
    <3>1. CASE OfferUnqueued(o) \/ AwaitDone(o) \/ AbandonRelock(o)
      BY <3>1 DEF OfferUnqueued, AwaitDone, AbandonRelock, Return, Goto, condVars
    <3>2. CASE AwaitOutcome(o) \/ MustAwaitOutcome(o)
      BY <3>2 DEF AwaitOutcome, MustAwaitOutcome, Receive, Return, Goto, condVars
    <3> QED
      BY <1>1, <3>1, <3>2
  <2> QED
    BY <1>0, <2>1 DEF WakeInv, DrainAlone, ProducerServed, LockFree
<1>2. CASE Abandon(o)
  <2>1. LockFree /\ LockFree'
    <3>1. \E l \in {"must", "returned", "sending"} : opc' = [opc EXCEPT ![o] = l]
      BY <1>2 DEF Abandon, SignalSpace, Return, Goto
    <3> QED
      BY <1>0, <1>2, <3>1 DEF Abandon, LockFree
  <2>2. CASE est[o] # "queued"
    BY <1>0, <1>2, <2>1, <2>2 DEF Abandon, Goto, condVars, WakeInv, DrainAlone, ProducerServed
  <2>3. CASE est[o] = "queued"
    <3>1. \/ waiting' = 0
          \/ ch' > 0
          \/ opc' = [opc EXCEPT ![o] = "sending"]
      BY <1>0, <1>2, <2>3 DEF Abandon, SignalSpace, condVars, Goto
    <3> QED
      BY <1>0, <2>1, <3>1 DEF WakeInv, DrainAlone, ProducerServed
  <2> QED
    BY <2>2, <2>3
<1>3. CASE AbandonSend(o)
  <2>1. ch' > 0 /\ waiting' = waiting /\ opc' = [opc EXCEPT ![o] = "relock"]
    BY <1>0, <1>3 DEF AbandonSend, Goto
  <2> QED
    BY <1>0, <2>1 DEF WakeInv, DrainAlone, ProducerServed, LockFree
<1> QED
  BY <1>1, <1>2, <1>3

\* The completion of an element.
LEMMA DoneServes ==
  ASSUME IInv, WakeInv, NEW e \in Offers, DoneStep(e)
  PROVE  WakeInv'
<1>0. opc \in [Offers -> OfferPCs] /\ waiting \in Nat /\ est \in [Offers -> ElementStates]
      /\ ch \in Nat
  BY CapAssumption DEF IInv, TypeOK
<1>1. CASE OnDone(e)
  <2>1. LockFree /\ opc' = opc
    BY <1>1 DEF OnDone
  <2>2. \/ waiting' = 0
        \/ ch' > 0
        \/ est' = [est EXCEPT ![e] = "sending"]
    BY <1>0, <1>1 DEF OnDone, SignalSpace, condVars
  <2> QED
    BY <1>0, <2>1, <2>2 DEF WakeInv, DrainAlone, ProducerServed, LockFree
<1>2. CASE OnDoneSend(e)
  BY <1>0, <1>2 DEF OnDoneSend, WakeInv, DrainAlone, ProducerServed, LockFree
<1>3. CASE OnDoneRelock(e)
  BY <1>0, <1>3 DEF OnDoneRelock, Report, condVars, WakeInv, DrainAlone, ProducerServed, LockFree
<1> QED
  BY <1>1, <1>2, <1>3 DEF DoneStep

\* Read takes only elements that nobody signals for.
LEMMA ReadServes ==
  ASSUME IInv, WakeInv, NEW c \in Consumers, Read(c)
  PROVE  WakeInv'
<1>1. UNCHANGED <<opc, size, waiting, ch>>
  BY DEF Read, condVars
<1>2. \A e \in Offers : est[e] = "sending" => est'[e] = "sending"
  BY ReadMoves
<1> QED
  BY <1>1, <1>2 DEF WakeInv, DrainAlone, ProducerServed, LockFree

\* Every step of the queue keeps the promise to whoever waits for space.
LEMMA WakePreserved == IInv /\ WakeInv /\ [Next]_vars => WakeInv'
<1> SUFFICES ASSUME IInv, WakeInv, [Next]_vars PROVE WakeInv'
  OBVIOUS
<1>1. ASSUME NEW o \in Offers,
             OfferUnqueued(o) \/ Offer(o) \/ SpaceSelectDone(o) \/ AwaitDone(o)
      PROVE  WakeInv'
  BY <1>1, AddServes, SpaceServes, AwaitServes
<1>2. ASSUME NEW o \in Offers, OfferStep(o)
      PROVE  WakeInv'
  BY <1>2, AddServes, SpaceServes, AwaitServes DEF OfferStep
<1>3. ASSUME NEW c \in Consumers, ConsumerStep(c)
      PROVE  WakeInv'
  <2>1. CASE ConsumeReturns(c)
    BY <2>1 DEF ConsumeReturns, condVars, WakeInv, DrainAlone, ProducerServed, LockFree
  <2> QED
    BY <1>3, <2>1, ReadServes DEF ConsumerStep
<1>4. CASE Shutdown
  BY <1>4 DEF Shutdown, condVars, WakeInv, DrainAlone, ProducerServed, LockFree
<1>5. CASE Terminated \/ UNCHANGED vars
  BY <1>5 DEF Terminated, vars, condVars, WakeInv, DrainAlone, ProducerServed, LockFree
<1> QED
  BY <1>1, <1>2, <1>3, <1>4, <1>5, DoneServes DEF Next

\* A producer never sleeps unsignalled beside an empty queue, for any number of
\* producers, any sizes, any capacity and any capacity of the channel: space that
\* comes back is always signalled to somebody who waits for it.
THEOREM ProducersServed == Spec => []NoStrandedProducer
<1>1. Init => WakeInv
  BY DEF Init, WakeInv, DrainAlone, ProducerServed
<1>2. WakeInv => ProducerServed
  BY DEF WakeInv
<1> QED
  BY <1>1, <1>2, Invariance, WakePreserved, SendersSpelt, PTL DEF Spec

-----------------------------------------------------------------------------
(***************************************************************************)
(* The outcome reaches its own caller.                                     *)
(***************************************************************************)
Awaiting == {"await", "abandon", "must"}

Active == {"queued", "inflight", "sending", "relock"}

\* Where an Offer is agrees with where its element is.
PlacesAgree ==
  \A o \in Offers :
    /\ opc[o] \in {"await", "abandon"} => est[o] \in Active \cup {"done"}
    /\ opc[o] = "must" => WaitForResult /\ est[o] \in {"inflight", "sending", "relock", "done"}
    /\ opc[o] \in {"sending", "relock"} => est[o] \in {"abandoned", "dropped"}
    /\ est[o] \in Active /\ WaitForResult => opc[o] \in Awaiting
    /\ result[o] # "none" => opc[o] = "returned"

\* The element still has its blockingDone: until it is reported and, if somebody
\* waits for the outcome, until that one has received it.
Holds(e) ==
  \/ est[e] \in Active
  \/ est[e] = "done" /\ WaitForResult /\ opc[e] \in Awaiting

\* Who holds a blockingDone holds it alone; one that is free is empty.
DoneChannels ==
  /\ \A e \in Offers : Holds(e) =>
       /\ doneOf[e] \notin pool
       /\ est[doneOf[e]] # "none"
       /\ doneCh[doneOf[e]] = IF est[e] = "done" THEN {e} ELSE {}
  /\ \A e, f \in Offers : Holds(e) /\ Holds(f) /\ doneOf[e] = doneOf[f] => e = f
  /\ \A d \in pool : doneCh[d] = {} /\ est[d] # "none"
  /\ \A d \in Offers : est[d] = "none" => doneCh[d] = {}

DoneInv == PlacesAgree /\ ResultIsTruthful /\ DoneChannels

\* A step that touches no blockingDone and takes up none.
LEMMA DoneQuiet ==
  ASSUME IInv, DoneChannels, UNCHANGED <<doneOf, doneCh, pool>>,
         \A e \in Offers : Holds(e)' => Holds(e) /\ (est'[e] = "done" <=> est[e] = "done"),
         \A e \in Offers : est[e] # "none" => est'[e] # "none"
  PROVE  DoneChannels'
<1>1. doneOf \in [Offers -> Offers] /\ pool \subseteq Offers
  BY DEF IInv, TypeOK
<1> QED
  BY <1>1 DEF DoneChannels

\* The blockingDone that add takes is free and empty.
LEMMA PushDone ==
  ASSUME IInv, DoneInv, NEW o \in Offers, opc[o] \in Entering, Push(o)
  PROVE  DoneInv'
<1>1. est[o] = "none"
  BY DEF IInv, NotYetQueued
<1>2. PICK d \in pool \cup {o} : doneOf' = [doneOf EXCEPT ![o] = d] /\ pool' = pool \ {d}
  BY ZenonT(30) DEF Push
<1>3. /\ est' = [est EXCEPT ![o] = "queued"] /\ doneCh' = doneCh /\ got' = got
      /\ \/ WaitForResult /\ opc' = [opc EXCEPT ![o] = "await"] /\ result' = result
         \/ /\ ~WaitForResult /\ opc' = [opc EXCEPT ![o] = "returned"]
            /\ result' = [result EXCEPT ![o] = "nil"]
  BY DEF Push, Goto, Return
<1>4. /\ doneOf \in [Offers -> Offers] /\ pool \subseteq Offers /\ est \in [Offers -> ElementStates]
      /\ opc \in [Offers -> OfferPCs] /\ doneCh \in [Offers -> SUBSET Offers]
      /\ result \in [Offers -> Results]
  BY DEF IInv, TypeOK
<1>5. doneCh[d] = {} /\ d \in Offers /\ est'[d] # "none"
  BY <1>1, <1>2, <1>3, <1>4 DEF DoneInv, DoneChannels
<1>6. \A e \in Offers : Holds(e) => doneOf[e] # d
  BY ZenonT(30), <1>1, <1>2 DEF DoneInv, DoneChannels
<1>7. /\ \A e \in Offers \ {o} : /\ est'[e] = est[e] /\ opc'[e] = opc[e] /\ doneOf'[e] = doneOf[e]
                                 /\ Holds(e)' <=> Holds(e)
      /\ Holds(o)' /\ doneOf'[o] = d /\ est'[o] = "queued"
  BY <1>2, <1>3, <1>4 DEF Holds, Active
<1>8. DoneChannels'
  <2>1. \A e \in Offers : Holds(e)' =>
          /\ doneOf'[e] \notin pool' /\ est'[doneOf'[e]] # "none"
          /\ doneCh'[doneOf'[e]] = IF est'[e] = "done" THEN {e} ELSE {}
    <3>1. ASSUME NEW e \in Offers \ {o}, Holds(e)'
          PROVE  /\ doneOf'[e] \notin pool' /\ est'[doneOf'[e]] # "none"
                 /\ doneCh'[doneOf'[e]] = IF est'[e] = "done" THEN {e} ELSE {}
      <4>1. /\ doneOf'[e] = doneOf[e] /\ doneOf[e] \in Offers /\ est'[e] = est[e]
            /\ doneOf[e] \notin pool /\ est[doneOf[e]] # "none"
            /\ doneCh[doneOf[e]] = IF est[e] = "done" THEN {e} ELSE {}
        BY ZenonT(30), <1>4, <1>7, <3>1 DEF DoneInv, DoneChannels
      <4> QED
        BY <1>1, <1>2, <1>3, <1>7, <4>1
    <3>2. /\ doneOf'[o] \notin pool' /\ est'[doneOf'[o]] # "none"
          /\ doneCh'[doneOf'[o]] = {} /\ est'[o] # "done"
      <4>1. doneOf'[o] = d /\ pool' = pool \ {d} /\ doneCh' = doneCh /\ est'[o] = "queued"
        BY <1>2, <1>3, <1>7
      <4> QED
        BY <1>5, <4>1
    <3> QED
      BY <3>1, <3>2
  <2>2. \A e, f \in Offers : Holds(e)' /\ Holds(f)' /\ doneOf'[e] = doneOf'[f] => e = f
    <3>1. \A e, f \in Offers \ {o} : Holds(e)' /\ Holds(f)' /\ doneOf'[e] = doneOf'[f] => e = f
      BY <1>7 DEF DoneInv, DoneChannels
    <3>2. \A e \in Offers \ {o} : Holds(e)' => doneOf'[e] # doneOf'[o]
      BY <1>6, <1>7
    <3> QED
      BY <3>1, <3>2
  <2>3. \A p \in pool' : doneCh'[p] = {} /\ est'[p] # "none"
    BY <1>2, <1>3, <1>4, <1>7 DEF DoneInv, DoneChannels
  <2>4. \A p \in Offers : est'[p] = "none" => doneCh'[p] = {}
    BY <1>3, <1>7 DEF DoneInv, DoneChannels
  <2> QED
    BY <2>1, <2>2, <2>3, <2>4 DEF DoneChannels
<1>9. PlacesAgree'
  BY <1>3, <1>4 DEF DoneInv, PlacesAgree, Active, Awaiting, Entering
<1>10. ResultIsTruthful'
  BY <1>1, <1>3, <1>4 DEF DoneInv, PlacesAgree, ResultIsTruthful, Entering
<1> QED
  BY <1>8, <1>9, <1>10 DEF DoneInv

\* An Offer whose element is not in the queue moves among the places before its
\* push, or returns without having pushed.
LEMMA UnqueuedDone ==
  ASSUME IInv, DoneInv, NEW o \in Offers, opc[o] \in Entering, UNCHANGED <<est, doneVars, got>>,
         \/ \E l \in Entering : opc' = [opc EXCEPT ![o] = l] /\ result' = result
         \/ \E r \in Results \ {"outcome"} :
              opc' = [opc EXCEPT ![o] = "returned"] /\ result' = [result EXCEPT ![o] = r]
  PROVE  DoneInv'
<1>1. est[o] = "none"
  BY DEF IInv, NotYetQueued
<1>2. /\ opc \in [Offers -> OfferPCs] /\ result \in [Offers -> Results]
  BY DEF IInv, TypeOK
<1>3. \A e \in Offers : Holds(e)' <=> Holds(e)
  BY <1>1, <1>2 DEF Holds, Active
<1>4. DoneChannels'
  BY <1>3, DoneQuiet DEF DoneInv, doneVars
<1>5. PlacesAgree'
  BY <1>1, <1>2 DEF DoneInv, PlacesAgree, Active, Awaiting, Entering
<1>6. ResultIsTruthful'
  BY <1>1, <1>2 DEF DoneInv, ResultIsTruthful
<1> QED
  BY <1>4, <1>5, <1>6 DEF DoneInv

\* The calls of Offer and the steps inside Wait.
LEMMA EnterDone ==
  ASSUME IInv, DoneInv, NEW o \in Offers,
         \/ OfferUnqueued(o) \/ Offer(o) \/ AddWoken(o)
         \/ SpaceSelectDone(o) \/ SpaceSelectToken(o) \/ SpaceCancel(o) \/ SpaceDrain(o)
  PROVE  DoneInv'
<1>1. opc[o] \in Entering
  BY ZenonT(30) DEF Entering, OfferUnqueued, Offer, AddWoken, SpaceSelectDone, SpaceSelectToken, SpaceCancel, SpaceDrain
<1>2. CASE OfferUnqueued(o)
  BY <1>1, <1>2, UnqueuedDone DEF OfferUnqueued, Return, Goto, Results
<1>3. CASE Offer(o) \/ AddWoken(o)
  <2>1. CASE Push(o)
    BY <1>1, <2>1, PushDone
  <2>2. CASE WaitForSpace(o)
    BY ZenonT(30), <1>1, <2>2, UnqueuedDone DEF WaitForSpace, Goto, Entering
  <2>3. CASE /\ Return(o, "full")
             /\ UNCHANGED <<got, est, items, size, stopped, condVars, consVars, doneVars, refs>>
    BY ZenonT(30), <1>1, <2>3, UnqueuedDone DEF Return, Goto, Results
  <2> QED
    BY <1>3, <2>1, <2>2, <2>3, ZenonT(30) DEF Offer, AddWoken
<1>4. CASE SpaceSelectDone(o) \/ SpaceSelectToken(o)
  BY <1>1, <1>4, UnqueuedDone DEF SpaceSelectDone, SpaceSelectToken, Goto, Entering
<1>5. CASE SpaceCancel(o) \/ SpaceDrain(o)
  BY <1>1, <1>5, UnqueuedDone DEF SpaceCancel, SpaceDrain, Return, Goto, Entering, Results
<1> QED
  BY ZenonT(30), <1>2, <1>3, <1>4, <1>5

\* Receiving from done.ch: what is there is the outcome of the caller's element.
LEMMA ReceiveDone ==
  ASSUME IInv, DoneInv, NEW o \in Offers, AwaitOutcome(o) \/ MustAwaitOutcome(o)
  PROVE  DoneInv'
<1>1. /\ opc[o] \in {"await", "must"} /\ doneCh[doneOf[o]] # {}
      /\ got' = [got EXCEPT ![o] = doneCh[doneOf[o]]]
      /\ doneCh' = [doneCh EXCEPT ![doneOf[o]] = {}]
      /\ opc' = [opc EXCEPT ![o] = "returned"] /\ result' = [result EXCEPT ![o] = "outcome"]
      /\ UNCHANGED <<est, doneOf>>
      /\ pool' = pool \/ pool' = pool \cup {doneOf[o]}
  BY DEF AwaitOutcome, MustAwaitOutcome, Receive, Return, Goto
<1>2. /\ doneOf \in [Offers -> Offers] /\ pool \subseteq Offers /\ est \in [Offers -> ElementStates]
      /\ opc \in [Offers -> OfferPCs] /\ doneCh \in [Offers -> SUBSET Offers]
      /\ result \in [Offers -> Results] /\ got \in [Offers -> SUBSET Offers]
  BY DEF IInv, TypeOK
<1>3. WaitForResult
  BY ZenonT(30), <1>1 DEF IInv, OnlyWaitersAbandon, DoneInv, PlacesAgree
<1>4. Holds(o)
  BY <1>1, <1>3 DEF DoneInv, PlacesAgree, Holds, Active, Awaiting
<1>5. est[o] = "done" /\ doneCh[doneOf[o]] = {o} /\ est[doneOf[o]] # "none" /\ doneOf[o] \notin pool
  BY ZenonT(30), <1>1, <1>4 DEF DoneInv, DoneChannels
<1>6. ~Holds(o)' /\ \A e \in Offers \ {o} : Holds(e)' <=> Holds(e)
  BY <1>1, <1>2, <1>5 DEF Holds, Active, Awaiting
<1>7. \A e \in Offers \ {o} : Holds(e) => doneOf[e] # doneOf[o]
  BY <1>4 DEF DoneInv, DoneChannels
<1>8. DoneChannels'
  <2>1. \A e \in Offers : Holds(e)' =>
          /\ doneOf'[e] \notin pool' /\ est'[doneOf'[e]] # "none"
          /\ doneCh'[doneOf'[e]] = IF est'[e] = "done" THEN {e} ELSE {}
    BY ZenonT(30), <1>1, <1>2, <1>6, <1>7 DEF DoneInv, DoneChannels
  <2>2. \A e, f \in Offers : Holds(e)' /\ Holds(f)' /\ doneOf'[e] = doneOf'[f] => e = f
    BY <1>1, <1>6 DEF DoneInv, DoneChannels
  <2>3. \A p \in pool' : doneCh'[p] = {} /\ est'[p] # "none"
    BY <1>1, <1>2, <1>5 DEF DoneInv, DoneChannels
  <2>4. \A p \in Offers : est'[p] = "none" => doneCh'[p] = {}
    BY <1>1, <1>2 DEF DoneInv, DoneChannels
  <2> QED
    BY <2>1, <2>2, <2>3, <2>4 DEF DoneChannels
<1>9. PlacesAgree'
  BY <1>1, <1>2, <1>5 DEF DoneInv, PlacesAgree, Active, Awaiting
<1>10. ResultIsTruthful'
  BY <1>1, <1>2, <1>5 DEF DoneInv, ResultIsTruthful
<1> QED
  BY ZenonT(30), <1>8, <1>9, <1>10 DEF DoneInv

\* Giving up: the select, abandon and what follows it.
LEMMA AbandonDone ==
  ASSUME IInv, DoneInv, NEW o \in Offers,
         AwaitDone(o) \/ Abandon(o) \/ AbandonSend(o) \/ AbandonRelock(o)
  PROVE  DoneInv'
<1>1. /\ est \in [Offers -> ElementStates] /\ opc \in [Offers -> OfferPCs]
      /\ result \in [Offers -> Results]
  BY DEF IInv, TypeOK
<1>2. UNCHANGED <<doneOf, doneCh, pool, got>>
  BY DEF AwaitDone, Abandon, AbandonSend, AbandonRelock, doneVars
<1>3. CASE AwaitDone(o)
  <2>1. opc[o] = "await" /\ opc' = [opc EXCEPT ![o] = "abandon"] /\ est' = est /\ result' = result
    BY <1>3 DEF AwaitDone, Goto
  <2>2. \A e \in Offers : Holds(e)' <=> Holds(e)
    BY <1>1, <2>1 DEF Holds, Awaiting
  <2>3. PlacesAgree' /\ ResultIsTruthful'
    BY <1>1, <1>2, <2>1 DEF DoneInv, PlacesAgree, ResultIsTruthful, Awaiting
  <2> QED
    BY <1>2, <2>1, <2>2, <2>3, DoneQuiet DEF DoneInv
<1>4. CASE Abandon(o) /\ est[o] # "queued"
  <2>1. opc[o] = "abandon" /\ opc' = [opc EXCEPT ![o] = "must"] /\ est' = est /\ result' = result
    BY <1>4 DEF Abandon, Goto
  <2>2. \A e \in Offers : Holds(e)' <=> Holds(e)
    BY <1>1, <2>1 DEF Holds, Awaiting
  <2>3. WaitForResult
    BY <2>1 DEF IInv, OnlyWaitersAbandon
  <2>4. PlacesAgree' /\ ResultIsTruthful'
    BY <1>1, <1>2, <1>4, <2>1, <2>3 DEF DoneInv, PlacesAgree, ResultIsTruthful, Awaiting, Active
  <2> QED
    BY <1>2, <2>1, <2>2, <2>4, DoneQuiet DEF DoneInv
<1>5. CASE Abandon(o) /\ est[o] = "queued"
  <2>1. /\ opc[o] = "abandon" /\ est' = [est EXCEPT ![o] = "abandoned"]
        /\ \/ opc' = [opc EXCEPT ![o] = "sending"] /\ result' = result
           \/ opc' = [opc EXCEPT ![o] = "returned"] /\ result' = [result EXCEPT ![o] = "ctx"]
    BY <1>5 DEF Abandon, SignalSpace, Return, Goto
  <2>2. \A e \in Offers : Holds(e)' => Holds(e) /\ est'[e] = est[e]
    BY <1>1, <2>1 DEF Holds, Awaiting, Active
  <2>3. PlacesAgree' /\ ResultIsTruthful'
    BY <1>1, <1>2, <1>5, <2>1 DEF DoneInv, PlacesAgree, ResultIsTruthful, Awaiting, Active
  <2>4. \A e \in Offers : est[e] # "none" => est'[e] # "none"
    BY <1>1, <2>1
  <2> QED
    BY <1>2, <2>1, <2>2, <2>3, <2>4, DoneQuiet DEF DoneInv
<1>6. CASE AbandonSend(o) \/ AbandonRelock(o)
  <2>1. /\ opc[o] \in {"sending", "relock"} /\ est' = est
        /\ \/ opc' = [opc EXCEPT ![o] = "relock"] /\ result' = result
           \/ opc' = [opc EXCEPT ![o] = "returned"] /\ result' = [result EXCEPT ![o] = "ctx"]
    BY <1>6 DEF AbandonSend, AbandonRelock, Return, Goto
  <2>2. \A e \in Offers : Holds(e)' <=> Holds(e)
    BY <1>1, <2>1 DEF Holds, Awaiting
  <2>3. PlacesAgree' /\ ResultIsTruthful'
    BY <1>1, <1>2, <2>1 DEF DoneInv, PlacesAgree, ResultIsTruthful, Awaiting, Active
  <2> QED
    BY <1>2, <2>1, <2>2, <2>3, DoneQuiet DEF DoneInv
<1> QED
  BY <1>3, <1>4, <1>5, <1>6

\* The consumers move elements only from the list to the exporter.
LEMMA ReadDone ==
  ASSUME IInv, DoneInv, NEW c \in Consumers, Read(c)
  PROVE  DoneInv'
<1>1. UNCHANGED <<opc, result, got, doneOf, doneCh, pool>>
  BY ZenonT(30) DEF Read, doneVars
<1>2. \A e \in Offers : \/ est'[e] = est[e]
                        \/ est[e] = "abandoned" /\ est'[e] = "dropped"
                        \/ est[e] = "queued" /\ est'[e] = "inflight"
  BY ReadMoves
<1>3. \A e \in Offers : Holds(e)' => Holds(e) /\ (est'[e] = "done" <=> est[e] = "done")
  BY ZenonT(30), <1>1, <1>2 DEF Holds, Active
<1>4. DoneChannels'
  BY <1>1, <1>2, <1>3, DoneQuiet DEF DoneInv
<1>5. PlacesAgree' /\ ResultIsTruthful'
  <2>1. ASSUME NEW o \in Offers, result[o] \in {"full", "ctx", "toolarge", "invalid"}
        PROVE  est'[o] \in {"none", "abandoned", "dropped"}
    BY <1>2, <2>1 DEF DoneInv, ResultIsTruthful
  <2>2. ASSUME NEW o \in Offers, result[o] = "outcome"
        PROVE  est'[o] = "done" /\ got[o] = {o}
    BY <1>2, <2>2 DEF DoneInv, ResultIsTruthful
  <2>3. ResultIsTruthful'
    BY <1>1, <2>1, <2>2 DEF ResultIsTruthful
  <2>4. PlacesAgree'
    BY <1>1, <1>2 DEF DoneInv, PlacesAgree, Active, Awaiting
  <2> QED
    BY <2>3, <2>4
<1> QED
  BY <1>4, <1>5 DEF DoneInv

\* onDone puts the outcome into the channel of the element's own blockingDone, or
\* the blockingDone back into the pool.
LEMMA ReportDone ==
  ASSUME IInv, DoneInv, NEW e \in Offers, est[e] \in {"inflight", "relock"}, Report(e),
         UNCHANGED <<opc, result, got, doneOf>>
  PROVE  DoneInv'
<1>1. est' = [est EXCEPT ![e] = "done"]
  BY DEF Report
<1>2. /\ doneOf \in [Offers -> Offers] /\ pool \subseteq Offers /\ est \in [Offers -> ElementStates]
      /\ doneCh \in [Offers -> SUBSET Offers]
  BY DEF IInv, TypeOK
<1>3. Holds(e) /\ doneOf[e] \notin pool /\ est[doneOf[e]] # "none" /\ doneCh[doneOf[e]] = {}
  BY ZenonT(30) DEF Holds, Active, DoneInv, DoneChannels
<1>4. \A f \in Offers \ {e} : /\ Holds(f)' <=> Holds(f)
                              /\ Holds(f) => doneOf[f] # doneOf[e]
                              /\ est'[f] = est[f]
  BY <1>1, <1>2, <1>3 DEF Holds, DoneInv, DoneChannels
<1>5. DoneChannels'
  <2>1. CASE WaitForResult
    <3>1. doneCh' = [doneCh EXCEPT ![doneOf[e]] = {e}] /\ pool' = pool
      BY <2>1 DEF Report
    <3>2. doneCh'[doneOf[e]] = {e} /\ est'[e] = "done"
      BY <1>1, <1>2, <3>1
    <3>3. \A f \in Offers : Holds(f)' => 
            /\ doneOf'[f] \notin pool' /\ est'[doneOf'[f]] # "none"
            /\ doneCh'[doneOf'[f]] = IF est'[f] = "done" THEN {f} ELSE {}
      BY ZenonT(30), <1>1, <1>2, <1>3, <1>4, <3>1, <3>2 DEF DoneInv, DoneChannels
    <3>4. \A f, g \in Offers : Holds(f)' /\ Holds(g)' /\ doneOf'[f] = doneOf'[g] => f = g
      BY <1>3, <1>4 DEF DoneInv, DoneChannels
    <3>5. \A p \in pool' : doneCh'[p] = {} /\ est'[p] # "none"
      BY <1>1, <1>2, <1>3, <3>1 DEF DoneInv, DoneChannels
    <3>6. \A p \in Offers : est'[p] = "none" => doneCh'[p] = {}
      BY <1>1, <1>2, <1>3, <3>1 DEF DoneInv, DoneChannels
    <3> QED
      BY <3>3, <3>4, <3>5, <3>6 DEF DoneChannels
  <2>2. CASE ~WaitForResult
    <3>1. doneCh' = doneCh /\ pool' = pool \cup {doneOf[e]} /\ ~Holds(e)'
      BY <1>1, <1>2, <2>2 DEF Report, Holds, Active
    <3>2. \A f \in Offers : Holds(f)' => 
            /\ doneOf'[f] \notin pool' /\ est'[doneOf'[f]] # "none"
            /\ doneCh'[doneOf'[f]] = IF est'[f] = "done" THEN {f} ELSE {}
      BY <1>1, <1>2, <1>3, <1>4, <3>1 DEF DoneInv, DoneChannels
    <3>3. \A f, g \in Offers : Holds(f)' /\ Holds(g)' /\ doneOf'[f] = doneOf'[g] => f = g
      BY <1>3, <1>4, <3>1 DEF DoneInv, DoneChannels
    <3>4. \A p \in pool' : doneCh'[p] = {} /\ est'[p] # "none"
      BY <1>1, <1>2, <1>3, <3>1 DEF DoneInv, DoneChannels
    <3>5. \A p \in Offers : est'[p] = "none" => doneCh'[p] = {}
      BY <1>1, <1>2, <1>3, <3>1 DEF DoneInv, DoneChannels
    <3> QED
      BY <3>2, <3>3, <3>4, <3>5 DEF DoneChannels
  <2> QED
    BY <2>1, <2>2
<1>6. PlacesAgree'
  BY <1>1, <1>2 DEF DoneInv, PlacesAgree, Active, Awaiting
<1>7. ResultIsTruthful'
  BY <1>1, <1>2 DEF DoneInv, ResultIsTruthful
<1> QED
  BY <1>5, <1>6, <1>7 DEF DoneInv

\* The completion of an element.
LEMMA DoneStepDone ==
  ASSUME IInv, DoneInv, NEW e \in Offers, DoneStep(e)
  PROVE  DoneInv'
<1>1. CASE OnDoneRelock(e)
  BY <1>1, ReportDone DEF OnDoneRelock
<1>2. CASE OnDone(e) /\ Report(e)
  BY <1>2, ReportDone DEF OnDone
<1>3. CASE \/ OnDoneSend(e)
           \/ OnDone(e) /\ est' = [est EXCEPT ![e] = "sending"] /\ UNCHANGED <<doneCh, pool>>
  <2>1. /\ est[e] \in {"inflight", "sending"}
        /\ est' = [est EXCEPT ![e] = "sending"] \/ est' = [est EXCEPT ![e] = "relock"]
        /\ UNCHANGED <<opc, result, got, doneOf, doneCh, pool>>
    BY <1>3 DEF OnDoneSend, OnDone, doneVars
  <2>2. est \in [Offers -> ElementStates]
    BY DEF IInv, TypeOK
  <2>3. \A f \in Offers : Holds(f)' => Holds(f) /\ (est'[f] = "done" <=> est[f] = "done")
    BY <2>1, <2>2 DEF Holds, Active
  <2>4. \A f \in Offers : est[f] # "none" => est'[f] # "none"
    BY <2>1, <2>2
  <2>5. DoneChannels'
    BY <2>1, <2>3, <2>4, DoneQuiet DEF DoneInv
  <2>6. PlacesAgree' /\ ResultIsTruthful'
    BY <2>1, <2>2 DEF DoneInv, PlacesAgree, ResultIsTruthful, Active, Awaiting
  <2> QED
    BY <2>5, <2>6 DEF DoneInv
<1> QED
  BY <1>1, <1>2, <1>3, ZenonT(30) DEF DoneStep, OnDone, SignalSpace

\* Every step of the queue keeps the bookkeeping of the done channels.
LEMMA DonePreserved == IInv /\ DoneInv /\ [Next]_vars => DoneInv'
<1> SUFFICES ASSUME IInv, DoneInv, [Next]_vars PROVE DoneInv'
  OBVIOUS
<1>1. ASSUME NEW o \in Offers,
             OfferUnqueued(o) \/ Offer(o) \/ SpaceSelectDone(o) \/ AwaitDone(o)
      PROVE  DoneInv'
  BY <1>1, EnterDone, AbandonDone
<1>2. ASSUME NEW o \in Offers, OfferStep(o)
      PROVE  DoneInv'
  BY <1>2, EnterDone, AbandonDone, ReceiveDone DEF OfferStep
<1>3. CASE \/ (\E c \in Consumers : ConsumeReturns(c)) \/ Shutdown
           \/ Terminated \/ UNCHANGED vars
  <2>1. UNCHANGED <<opc, result, got, est, doneOf, doneCh, pool>>
    BY <1>3 DEF ConsumeReturns, Shutdown, Terminated, vars, doneVars
  <2>2. \A e \in Offers : Holds(e)' <=> Holds(e)
    BY <2>1 DEF Holds
  <2>3. DoneChannels'
    BY <2>1, <2>2, DoneQuiet DEF DoneInv
  <2> QED
    BY <2>1, <2>3 DEF DoneInv, PlacesAgree, ResultIsTruthful
<1> QED
  BY <1>1, <1>2, <1>3, DoneStepDone, ReadDone DEF Next, ConsumerStep

\* At first all channels are empty and in the pool.
LEMMA DoneInit == Init => DoneInv
<1> SUFFICES ASSUME Init PROVE DoneInv
  OBVIOUS
<1>1. PlacesAgree
  BY DEF Init, PlacesAgree, Active, Awaiting
<1>2. ResultIsTruthful
  BY DEF Init, ResultIsTruthful
<1>3. DoneChannels
  BY DEF Init, DoneChannels, Holds, Active, Awaiting
<1> QED
  BY <1>1, <1>2, <1>3 DEF DoneInv

\* The bookkeeping of the done channels holds throughout.
THEOREM DoneInvariance == Spec => []DoneInv
<1> QED
  BY Invariance, DoneInit, DonePreserved, PTL DEF Spec

\* An Offer that waits for its result returns the outcome of its own element and of
\* no other, and one that gave up was not delivered, although the channels are
\* pooled and callers give up while their element is taken (memory_queue.go:94-105).
THEOREM OutcomeIsOwn == Spec => []ResultIsTruthful
<1>1. DoneInv => ResultIsTruthful
  BY DEF DoneInv
<1> QED
  BY <1>1, DoneInvariance, PTL

\* A blockingDone belongs to one element at a time and is empty until its outcome is
\* put there: onDone never blocks on it (memory_queue.go:91-96, 202).
THEOREM DoneExclusive == Spec => []BlockingDoneExclusive
<1>1. DoneInv => BlockingDoneExclusive
  BY ZenonT(30) DEF DoneInv, DoneChannels, Holds, Active, BlockingDoneExclusive
<1> QED
  BY <1>1, DoneInvariance, PTL

-----------------------------------------------------------------------------
(***************************************************************************)
(* The refinement.                                                         *)
(***************************************************************************)
\* Every queued element is in the list.
QueuedInList == \A e \in Offers : est[e] = "queued" => InList(e)

Order == {p \in Queued \X Queued : Precedes(p[1], p[2])}

InFlight == {e \in Offers : est[e] = "inflight"}

Gone == {e \in Offers : est[e] \in {"sending", "relock", "done", "abandoned", "dropped"}}

\* The tail of the list behind its k-th element.
LEMMA ListTail ==
  ASSUME IInv, NEW k \in 1..Len(items), items' = SubSeq(items, k + 1, Len(items))
  PROVE  /\ Len(items') = Len(items) - k
         /\ \A i \in 1..Len(items') : i + k \in 1..Len(items) /\ items'[i] = items[i + k]
<1>1. items \in Seq(Offers) /\ Len(items) \in Nat /\ k + 1 \in 1..(Len(items) + 1)
  BY DEF IInv, TypeOK
<1>2. Len(SubSeq(items, k + 1, Len(items))) = Len(items) - k
  BY <1>1
<1>3. \A i \in 1..(Len(items) - k) : SubSeq(items, k + 1, Len(items))[i] = items[i + k]
  BY <1>1
<1> QED
  BY <1>1, <1>2, <1>3

\* A step that leaves the list alone and queues nothing.
LEMMA NothingQueued ==
  ASSUME QueuedInList, items' = items, Queued' \subseteq Queued
  PROVE  QueuedInList'
  BY DEF QueuedInList, InList, Queued

\* Read takes out of the list only what it takes out of the queue.
LEMMA ReadKeepsList ==
  ASSUME IInv, QueuedInList, NEW c \in Consumers, Read(c)
  PROVE  QueuedInList'
<1>1. SUFFICES ASSUME NEW e \in Offers, est'[e] = "queued" PROVE InList(e)'
  BY DEF QueuedInList
<1>2. CASE /\ items' = <<>>
           /\ \A x \in Offers : \/ est'[x] = est[x] /\ ~InList(x)
                                \/ est[x] = "abandoned" /\ est'[x] = "dropped"
  BY <1>1, <1>2 DEF QueuedInList
<1>3. ASSUME NEW k \in 1..Len(items),
             est'[items[k]] = "inflight",
             \A i \in 1..(k - 1) : est'[items[i]] = "dropped",
             \A x \in Offers : x \notin {items[i] : i \in 1..k} => est'[x] = est[x],
             items' = SubSeq(items, k + 1, Len(items))
      PROVE  InList(e)'
  <2>1. Len(items) \in Nat
    BY DEF IInv, TypeOK
  <2>2. e \notin {items[i] : i \in 1..k}
    <3>1. SUFFICES ASSUME NEW i \in 1..k, e = items[i] PROVE FALSE
      BY ZenonT(30)
    <3>2. i \in 1..(k - 1) \/ i = k
      BY <2>1
    <3> QED
      BY ZenonT(30), <1>1, <1>3, <3>1, <3>2
  <2>3. est[e] = "queued"
    BY <1>1, <1>3, <2>2
  <2>4. PICK j \in 1..Len(items) : items[j] = e
    BY <2>3, ZenonT(30) DEF QueuedInList, InList
  <2>5. j > k
    <3>1. j \notin 1..k
      BY ZenonT(30), <2>2, <2>4
    <3> QED
      BY <2>1, <3>1
  <2>6. /\ Len(items') = Len(items) - k
        /\ \A i \in 1..Len(items') : i + k \in 1..Len(items) /\ items'[i] = items[i + k]
    BY <1>3, ListTail
  <2>7. j - k \in 1..Len(items') /\ items'[j - k] = e
    BY <2>1, <2>4, <2>5, <2>6
  <2> QED
    BY <2>7 DEF InList
<1> QED
  BY Zenon, <1>2, <1>3, ReadEffect

\* add puts the element behind all others.
LEMMA PushAccepts ==
  ASSUME IInv, QueuedInList, NEW o \in Offers, opc[o] \in Entering, Fits(o), Push(o)
  PROVE  QueuedInList' /\ Promise!Accept(o)
<1>1. est[o] = "none" /\ est \in [Offers -> ElementStates] /\ items \in Seq(Offers)
      /\ Len(items) \in Nat
  BY DEF IInv, NotYetQueued, TypeOK
<1>2. est' = [est EXCEPT ![o] = "queued"] /\ items' = Append(items, o) /\ size' = size + Size[o]
  BY DEF Push
<1>3. /\ Len(items') = Len(items) + 1 /\ items'[Len(items) + 1] = o
      /\ \A i \in 1..Len(items) : items'[i] = items[i]
  BY <1>1, <1>2
<1>4. Queued' = Queued \cup {o} /\ o \notin Queued /\ InFlight' = InFlight /\ Gone' = Gone
      /\ o \notin InFlight /\ o \notin Gone
  BY <1>1, <1>2 DEF Queued, InFlight, Gone
<1>5. \A i \in 1..Len(items') : i \in 1..Len(items) \/ i = Len(items) + 1
  BY <1>1, <1>3
<1>6. \A e \in Offers : InList(e) => InList(e)'
  BY <1>1, <1>3 DEF InList
<1>7. InList(o)' /\ ~InList(o)
  BY <1>1, <1>3 DEF InList, IInv, ListHoldsWaiting
<1>8. QueuedInList'
  BY <1>1, <1>2, <1>6, <1>7 DEF QueuedInList
<1>9. Order' = Order \cup (Queued \X {o})
  <2>1. ASSUME NEW e \in Queued, NEW f \in Queued PROVE Precedes(e, f)' <=> Precedes(e, f)
    <3>1. e # o /\ f # o
      BY <1>4
    <3>2. Precedes(e, f) => Precedes(e, f)'
      BY <1>1, <1>3 DEF Precedes
    <3>3. Precedes(e, f)' => Precedes(e, f)
      BY <1>1, <1>3, <1>5, <3>1 DEF Precedes
    <3> QED
      BY <3>2, <3>3
  <2>2. ASSUME NEW e \in Queued PROVE Precedes(e, o)'
    <3>1. PICK i \in 1..Len(items) : items[i] = e
      BY DEF QueuedInList, Queued, InList
    <3> QED
      BY <1>1, <1>3, <3>1 DEF Precedes
  <2>3. ASSUME NEW e \in Offers PROVE ~Precedes(o, e)'
    <3>1. SUFFICES ASSUME NEW i \in 1..Len(items'), NEW j \in 1..Len(items'), i < j,
                          items'[i] = o
                   PROVE  FALSE
      BY DEF Precedes
    <3>2. i # Len(items) + 1
      BY <1>1, <1>3, <3>1
    <3>3. i \in 1..Len(items) /\ items[i] = o
      BY ZenonT(30), <1>3, <1>5, <3>1, <3>2
    <3> QED
      BY ZenonT(30), <1>7, <3>3 DEF InList
  <2>4. \A p \in Order' : p \in Order \cup (Queued \X {o})
    BY <1>4, <2>1, <2>3 DEF Order, Queued
  <2>5. \A p \in Order \cup (Queued \X {o}) : p \in Order'
    BY ZenonT(30), <1>4, <2>1, <2>2 DEF Order
  <2> QED
    BY <2>4, <2>5
<1>10. Promise!Accept(o)
  BY <1>2, <1>4, <1>9 DEF Promise!Accept, Order, InFlight, Gone, Fits
<1> QED
  BY <1>8, <1>10

\* An element leaves the queue while the list keeps the order of the others.
LEMMA OrderLeaves ==
  ASSUME NEW o \in Queued, Queued' = Queued \ {o},
         \A e, f \in Queued' : Precedes(e, f)' <=> Precedes(e, f)
  PROVE  Order' = {p \in Order : p[1] # o /\ p[2] # o}
  BY DEF Order

\* abandon withdraws the element.
LEMMA AbandonWithdraws ==
  ASSUME IInv, QueuedInList, NEW o \in Offers, Abandon(o), est[o] = "queued"
  PROVE  QueuedInList' /\ Promise!Withdraw(o)
<1>1. est' = [est EXCEPT ![o] = "abandoned"] /\ items' = items /\ size' = size - Size[o]
  BY ZenonT(30) DEF Abandon
<1>2. est \in [Offers -> ElementStates]
  BY DEF IInv, TypeOK
<1>3. Queued' = Queued \ {o} /\ o \in Queued /\ InFlight' = InFlight /\ Gone' = Gone \cup {o}
  BY <1>1, <1>2 DEF Queued, InFlight, Gone
<1>4. \A e, f \in Queued' : Precedes(e, f)' <=> Precedes(e, f)
  BY <1>1 DEF Precedes
<1>5. Order' = {p \in Order : p[1] # o /\ p[2] # o}
  BY <1>3, <1>4, OrderLeaves
<1>6. QueuedInList'
  BY ZenonT(30), <1>1, <1>3, NothingQueued
<1> QED
  BY <1>1, <1>3, <1>5, <1>6 DEF Promise!Withdraw, Promise!LeaveQueue, Order, InFlight, Gone

\* onDone finishes the element.
LEMMA OnDoneFinishes ==
  ASSUME IInv, QueuedInList, NEW e \in Offers, OnDone(e)
  PROVE  QueuedInList' /\ Promise!Finish(e)
<1>1. /\ est[e] = "inflight" /\ items' = items /\ size' = size - Size[e]
      /\ est' = [est EXCEPT ![e] = "done"] \/ est' = [est EXCEPT ![e] = "sending"]
  BY ZenonT(30) DEF OnDone, SignalSpace, Report
<1>2. est \in [Offers -> ElementStates]
  BY DEF IInv, TypeOK
<1>3. Queued' = Queued /\ e \in InFlight /\ InFlight' = InFlight \ {e} /\ Gone' = Gone \cup {e}
  BY <1>1, <1>2 DEF Queued, InFlight, Gone
<1>4. Order' = Order
  BY <1>1, <1>3 DEF Order, Precedes
<1>5. QueuedInList'
  BY <1>1, <1>3, NothingQueued
<1> QED
  BY <1>1, <1>3, <1>4, <1>5 DEF Promise!Finish, Order, InFlight, Gone

\* Read takes the oldest element, or nothing.
LEMMA ReadTakes ==
  ASSUME IInv, QueuedInList, NEW c \in Consumers, Read(c)
  PROVE  (\E e \in Offers : Promise!Take(e)) \/ UNCHANGED Promise!vars
<1>0. size' = size
  BY DEF Read
<1>1. CASE /\ items' = <<>>
           /\ \A x \in Offers : \/ est'[x] = est[x] /\ ~InList(x)
                                \/ est[x] = "abandoned" /\ est'[x] = "dropped"
  <2>1. Queued = {} /\ Queued' = {} /\ InFlight' = InFlight /\ Gone' = Gone
    BY <1>1 DEF Queued, InFlight, Gone, QueuedInList
  <2>2. Order' = Order
    BY <2>1 DEF Order
  <2> QED
    BY <1>0, <2>1, <2>2 DEF Promise!vars, Order, InFlight, Gone
<1>2. ASSUME NEW k \in 1..Len(items),
             est[items[k]] = "queued", est'[items[k]] = "inflight",
             \A i \in 1..(k - 1) : est[items[i]] = "abandoned" /\ est'[items[i]] = "dropped",
             \A e \in Offers : e \notin {items[i] : i \in 1..k} => est'[e] = est[e],
             items' = SubSeq(items, k + 1, Len(items))
      PROVE  \E e \in Offers : Promise!Take(e)
  <2>1. Len(items) \in Nat /\ \A i \in 1..Len(items) : items[i] \in Offers
    BY DEF IInv, TypeOK
  <2>0. PICK o \in Offers : o = items[k]
    BY <2>1
  <2>2. \A e \in Offers : \/ e = o
                          \/ est'[e] = est[e]
                          \/ est[e] = "abandoned" /\ est'[e] = "dropped"
    BY <1>2, <2>0, <2>1
  <2>3. /\ o \in Queued /\ Queued' = Queued \ {o}
        /\ InFlight' = InFlight \cup {o} /\ Gone' = Gone
    BY <1>2, <2>0, <2>1, <2>2 DEF Queued, InFlight, Gone
  <2>4. /\ Len(items') = Len(items) - k
        /\ \A i \in 1..Len(items') : i + k \in 1..Len(items) /\ items'[i] = items[i + k]
    BY <1>2, ListTail
  <2>5. \A f \in Queued : ~Precedes(f, o)
    <3>1. SUFFICES ASSUME NEW i \in 1..Len(items), NEW j \in 1..Len(items), i < j,
                          items[j] = o, est[items[i]] = "queued"
                   PROVE  FALSE
      BY DEF Precedes, Queued
    <3>2. j = k
      BY <2>0, <3>1 DEF IInv, ListHoldsWaiting
    <3>3. i \in 1..(k - 1)
      BY <2>1, <3>1, <3>2
    <3> QED
      BY <1>2, <3>1, <3>3
  <2>6. ASSUME NEW e \in Queued', NEW f \in Queued'
        PROVE  Precedes(e, f)' <=> Precedes(e, f)
    <3>1. \A i \in 1..Len(items) : items[i] \in {e, f} => i > k
      <4>1. SUFFICES ASSUME NEW i \in 1..Len(items), items[i] \in {e, f}, i <= k PROVE FALSE
        BY <2>1
      <4>2. i \in 1..(k - 1) \/ i = k
        BY <2>1, <4>1
      <4> QED
        BY <1>2, <2>0, <2>3, <4>1, <4>2 DEF Queued
    <3>2. Precedes(e, f)' => Precedes(e, f)
      BY <2>1, <2>4 DEF Precedes
    <3>3. ASSUME Precedes(e, f) PROVE Precedes(e, f)'
      <4>1. PICK i, j \in 1..Len(items) : i < j /\ items[i] = e /\ items[j] = f
        BY <3>3 DEF Precedes
      <4>2. i > k /\ j > k
        BY <3>1, <4>1
      <4>3. i - k \in 1..Len(items') /\ j - k \in 1..Len(items') /\ i - k < j - k
        BY <2>1, <2>4, <4>1, <4>2
      <4>4. items'[i - k] = e /\ items'[j - k] = f
        BY <2>1, <2>4, <4>1, <4>3
      <4> QED
        BY <4>3, <4>4 DEF Precedes
    <3> QED
      BY <3>2, <3>3
  <2>7. Order' = {p \in Order : p[1] # o /\ p[2] # o}
    BY <2>3, <2>6, OrderLeaves
  <2>8. \A f \in Queued : <<f, o>> \notin Order
    BY <2>5 DEF Order
  <2>9. Promise!LeaveQueue(o)
    BY <2>3, <2>7 DEF Promise!LeaveQueue, Order
  <2>10. Promise!Take(o)
    BY ZenonT(30), <1>0, <2>3, <2>8, <2>9 DEF Promise!Take, Order, InFlight, Gone
  <2> QED
    BY <2>10
<1> QED
  BY Zenon, <1>1, <1>2, ReadEffect

\* Any other step is invisible from outside.
LEMMA Invisible ==
  ASSUME QueuedInList, items' = items, size' = size,
         \A e \in Offers : est'[e] = est[e] \/ (est[e] \in {"sending", "relock"}
                                               /\ est'[e] \in {"relock", "done"})
  PROVE  QueuedInList' /\ UNCHANGED Promise!vars
<1>1. Queued' = Queued /\ InFlight' = InFlight /\ Gone' = Gone
  BY ZenonT(30) DEF Queued, InFlight, Gone
<1>2. Order' = Order
  BY ZenonT(30), <1>1 DEF Order, Precedes
<1>3. QueuedInList'
  BY <1>1, NothingQueued
<1> QED
  BY <1>1, <1>2, <1>3 DEF Promise!vars, Order, InFlight, Gone

\* The calls of Offer: accepted, or invisible.
LEMMA OfferImplements ==
  ASSUME IInv, QueuedInList, NEW o \in Offers, Offer(o) \/ AddWoken(o)
  PROVE  QueuedInList' /\ (Promise!Accept(o) \/ UNCHANGED Promise!vars)
<1>1. opc[o] \in Entering
  BY ZenonT(30) DEF Offer, AddWoken, Entering
<1>2. CASE Fits(o) /\ Push(o)
  BY <1>1, <1>2, PushAccepts
<1>3. CASE UNCHANGED <<est, items, size>>
  BY <1>3, Invisible
<1> QED
  BY ZenonT(30), <1>2, <1>3 DEF Offer, AddWoken, WaitForSpace

\* The steps of Offer that leave the elements, the list and the size alone.
LEMMA OfferInvisible ==
  ASSUME NEW o \in Offers,
         \/ OfferUnqueued(o) \/ SpaceSelectDone(o) \/ SpaceSelectToken(o) \/ SpaceCancel(o)
         \/ SpaceDrain(o) \/ AwaitDone(o) \/ AwaitOutcome(o) \/ MustAwaitOutcome(o)
         \/ (Abandon(o) /\ est[o] # "queued") \/ AbandonSend(o) \/ AbandonRelock(o)
  PROVE  UNCHANGED <<est, items, size>>
<1>1. CASE OfferUnqueued(o) \/ SpaceSelectDone(o) \/ SpaceSelectToken(o)
  BY ZenonT(30), <1>1 DEF OfferUnqueued, SpaceSelectDone, SpaceSelectToken
<1>2. CASE SpaceCancel(o) \/ SpaceDrain(o) \/ AwaitDone(o)
  BY ZenonT(30), <1>2 DEF SpaceCancel, SpaceDrain, AwaitDone
<1>3. CASE AwaitOutcome(o) \/ MustAwaitOutcome(o)
  BY ZenonT(30), <1>3 DEF AwaitOutcome, MustAwaitOutcome, Receive
<1>4. CASE (Abandon(o) /\ est[o] # "queued") \/ AbandonSend(o) \/ AbandonRelock(o)
  BY ZenonT(30), <1>4 DEF Abandon, AbandonSend, AbandonRelock
<1> QED
  BY <1>1, <1>2, <1>3, <1>4

\* Every step of the memory queue is a step of a bounded queue, or invisible.
LEMMA StepImplements ==
  IInv /\ QueuedInList /\ [Next]_vars => QueuedInList' /\ [Promise!Next]_(Promise!vars)
<1> SUFFICES ASSUME IInv, QueuedInList, [Next]_vars
             PROVE  QueuedInList' /\ (Promise!Next \/ UNCHANGED Promise!vars)
  OBVIOUS
<1>1. ASSUME NEW o \in Offers, Offer(o) \/ AddWoken(o)
      PROVE  QueuedInList' /\ (Promise!Next \/ UNCHANGED Promise!vars)
  BY <1>1, OfferImplements DEF Promise!Next
<1>2. ASSUME NEW o \in Offers, Abandon(o), est[o] = "queued"
      PROVE  QueuedInList' /\ Promise!Next
  BY <1>2, AbandonWithdraws DEF Promise!Next
<1>3. ASSUME NEW o \in Offers,
             \/ OfferUnqueued(o) \/ SpaceSelectDone(o) \/ SpaceSelectToken(o) \/ SpaceCancel(o)
             \/ SpaceDrain(o) \/ AwaitDone(o) \/ AwaitOutcome(o) \/ MustAwaitOutcome(o)
             \/ (Abandon(o) /\ est[o] # "queued") \/ AbandonSend(o) \/ AbandonRelock(o)
      PROVE  QueuedInList' /\ UNCHANGED Promise!vars
  BY <1>3, OfferInvisible, Invisible
<1>4. ASSUME NEW e \in Offers, OnDone(e)
      PROVE  QueuedInList' /\ Promise!Next
  BY <1>4, OnDoneFinishes DEF Promise!Next
<1>5. ASSUME NEW e \in Offers, OnDoneSend(e) \/ OnDoneRelock(e)
      PROVE  QueuedInList' /\ UNCHANGED Promise!vars
  <2>1. /\ est[e] \in {"sending", "relock"} /\ UNCHANGED <<items, size>>
        /\ est' = [est EXCEPT ![e] = "relock"] \/ est' = [est EXCEPT ![e] = "done"]
    BY <1>5 DEF OnDoneSend, OnDoneRelock, Report
  <2>2. \A f \in Offers : est'[f] = est[f] \/ (est[f] \in {"sending", "relock"}
                                               /\ est'[f] \in {"relock", "done"})
    BY <2>1 DEF IInv, TypeOK
  <2> QED
    BY <2>1, <2>2, Invisible
<1>6. ASSUME NEW c \in Consumers, Read(c)
      PROVE  QueuedInList' /\ (Promise!Next \/ UNCHANGED Promise!vars)
  BY <1>6, ReadTakes, ReadKeepsList DEF Promise!Next
<1>7. CASE \/ (\E c \in Consumers : ConsumeReturns(c)) \/ Shutdown
           \/ Terminated \/ UNCHANGED vars
  <2>1. UNCHANGED <<est, items, size>>
    BY <1>7, ZenonT(30) DEF ConsumeReturns, Shutdown, Terminated, vars
  <2> QED
    BY <2>1, Invisible
<1>8. ASSUME NEW o \in Offers,
             \/ OfferUnqueued(o) \/ Offer(o) \/ SpaceSelectDone(o) \/ AwaitDone(o)
             \/ OfferStep(o) \/ DoneStep(o)
      PROVE  QueuedInList' /\ (Promise!Next \/ UNCHANGED Promise!vars)
  BY <1>1, <1>2, <1>3, <1>4, <1>5, <1>8 DEF OfferStep, DoneStep
<1> QED
  BY <1>6, <1>7, <1>8 DEF Next, ConsumerStep

\* The empty queue.
LEMMA InitImplements == Init => QueuedInList /\ Promise!Init
<1> SUFFICES ASSUME Init PROVE QueuedInList /\ Promise!Init
  OBVIOUS
<1>1. Queued = {} /\ InFlight = {} /\ Gone = {} /\ size = 0
  BY DEF Init, Queued, InFlight, Gone
<1>2. QueuedInList
  BY <1>1 DEF QueuedInList, Queued
<1> QED
  BY <1>1, <1>2 DEF Promise!Init, InFlight, Gone

\* The linked list, with its abandoned nodes, its done pool and its two condition
\* variables, is a bounded queue: whatever it is configured with and whoever uses
\* it, elements are accepted only while they fit, handed out in the order they were
\* accepted, each at most once, and their space comes back exactly once.
THEOREM Refinement == Spec => RefinesBoundedQueue
<1>1. Spec => []QueuedInList
  BY Invariance, InitImplements, StepImplements, PTL DEF Spec
<1> QED
  BY <1>1, Invariance, InitImplements, StepImplements, PTL DEF Spec, RefinesBoundedQueue, Promise!Spec
=============================================================================
