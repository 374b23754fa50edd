------------------------- MODULE MemoryQueueProofs -------------------------
(***************************************************************************)
(* Proofs about the memory queue of MemoryQueue, for every set of          *)
(* producers and consumers, all sizes and every capacity.                  *)
(***************************************************************************)
EXTENDS Exporter, FiniteSetTheorems, TLAPS

\* The provers of a step, in this order, and their time in seconds.
USE SMTT(30), ZenonT(30), Z3T(30)


(***************************************************************************)
(* SizeAccounted is not inductive by itself.  Capacity is taken once for   *)
(* an element because an Offer that has yet to push it has nothing in the  *)
(* queue (NotYetQueued), is never taken for one without a proper size      *)
(* (ProperSizes), and is not touched by Read because the list holds        *)
(* exactly elements that still wait there, each once (ListHoldsWaiting),   *)
(* and drops only those whose capacity abandon has given back              *)
(* (OnlyWaitersAbandon).                                                   *)
(***************************************************************************)
Entering == {"new", "select", "woken", "cancelled", "drain"}

NotYetQueued == \A o \in Offers : opc[o] \in Entering => est[o] = "none"

ProperSizes ==
  \A o \in Offers :
    est[o] # "none" \/ opc[o] \in {"select", "woken", "cancelled", "drain"}
      => Size[o] \in 1..Cap

ListHoldsWaiting ==
  /\ \A i \in 1..Len(items) : est[items[i]] \in {"queued", "abandoned"}
  /\ \A i, j \in 1..Len(items) : items[i] = items[j] => i = j

OnlyWaitersAbandon ==
  \A o \in Offers : est[o] = "abandoned" \/ opc[o] \in {"await", "abandon"} => WaitForResult

IInv ==
  /\ TypeOK
  /\ NotYetQueued
  /\ ProperSizes
  /\ ListHoldsWaiting
  /\ OnlyWaitersAbandon
  /\ SizeAccounted

-----------------------------------------------------------------------------
\* The units of any set of elements are finitely many.
LEMMA UnitsFinite ==
  ASSUME NEW E \in SUBSET Offers
  PROVE  IsFiniteSet(Units(E)) /\ Cardinality(Units(E)) \in Nat
<1>0. IsFiniteSet(Offers) /\ IsFiniteSet(1..Cap)
  BY FS_Interval, FiniteAssumption, CapAssumption
<1>1. IsFiniteSet(Offers \X (1..Cap))
  BY ZenonT(30), <1>0, FS_Product
<1>2. Units(E) \in SUBSET (Offers \X (1..Cap))
  BY DEF Units
<1> QED
  BY <1>1, <1>2, FS_Subset, FS_CardinalityType

\* A single element of proper size takes as many units as its size says.
LEMMA UnitsOfOne ==
  ASSUME NEW e \in Offers, Size[e] \in 1..Cap
  PROVE  Cardinality(Units({e})) = Size[e]
<1>1. Units({e}) = {e} \X (1..Size[e])
  BY CapAssumption DEF Units
<1>2. IsFiniteSet({e}) /\ Cardinality({e}) = 1
  BY FS_Singleton
<1>3. IsFiniteSet(1..Size[e]) /\ Cardinality(1..Size[e]) = Size[e]
  BY FS_Interval, CapAssumption
<1>4. Cardinality({e} \X (1..Size[e])) = Cardinality({e}) * Cardinality(1..Size[e])
  BY <1>2, <1>3, FS_Product
<1>5. Size[e] \in Nat /\ Cardinality({e}) * Cardinality(1..Size[e]) = Size[e]
  BY <1>2, <1>3, CapAssumption
<1> QED
  BY ZenonT(30), <1>1, <1>4, <1>5

\* An element that joins adds its size, one that leaves takes it away.
LEMMA UnitsAdd ==
  ASSUME NEW E \in SUBSET Offers, NEW e \in Offers, e \notin E, Size[e] \in 1..Cap
  PROVE  Cardinality(Units(E \cup {e})) = Cardinality(Units(E)) + Size[e]
<1>1. Units(E \cup {e}) = Units(E) \cup Units({e}) /\ Units(E) \cap Units({e}) = {}
  BY DEF Units
<1>2. IsFiniteSet(Units(E)) /\ IsFiniteSet(Units({e})) /\ Cardinality(Units(E)) \in Nat
  BY UnitsFinite
<1>3. Cardinality(Units(E) \cup Units({e}))
        = Cardinality(Units(E)) + Cardinality(Units({e})) - Cardinality({})
  BY <1>1, <1>2, FS_Union
<1>4. Cardinality(Units({e})) = Size[e] /\ Cardinality({}) = 0 /\ Size[e] \in Nat
  BY UnitsOfOne, FS_EmptySet, CapAssumption
<1>5. Cardinality(Units(E \cup {e})) = Cardinality(Units(E) \cup Units({e}))
  BY <1>1
<1> QED
  BY <1>2, <1>3, <1>4, <1>5

\* Taking an element out frees exactly its space.
LEMMA UnitsRemove ==
  ASSUME NEW E \in SUBSET Offers, NEW e \in E, Size[e] \in 1..Cap
  PROVE  Cardinality(Units(E \ {e})) = Cardinality(Units(E)) - Size[e]
<1>1. (E \ {e}) \cup {e} = E
  OBVIOUS
<1>2. Cardinality(Units((E \ {e}) \cup {e})) = Cardinality(Units(E \ {e})) + Size[e]
  BY UnitsAdd
<1> QED
  BY <1>1, <1>2, UnitsFinite, CapAssumption
-----------------------------------------------------------------------------
(***************************************************************************)
(* What happens to mq.size as elements join and leave.                     *)
(***************************************************************************)
LEMMA Joins ==
  ASSUME IInv, NEW o \in Offers, o \notin Live, Live' = Live \cup {o},
         Size[o] \in 1..Cap, Fits(o), size' = size + Size[o]
  PROVE  SizeAccounted' /\ size' \in 0..Cap
<1>1. Live \in SUBSET Offers /\ size \in Nat /\ size = Cardinality(Units(Live))
  BY DEF Live, IInv, SizeAccounted, TypeOK
<1>2. Cardinality(Units(Live')) = size + Size[o]
  BY <1>1, UnitsAdd
<1>3. size' \in 0..Cap
  BY <1>1, CapAssumption DEF Fits
<1> QED
  BY <1>2, <1>3, CapAssumption DEF SizeAccounted

\* An element that stops counting gives its space back to mq.size.
LEMMA Leaves ==
  ASSUME IInv, NEW o \in Live, Live' = Live \ {o}, size' = size - Size[o]
  PROVE  SizeAccounted' /\ size' \in 0..Cap
<1>1. Live \in SUBSET Offers /\ size \in 0..Cap /\ size = Cardinality(Units(Live))
  BY DEF Live, IInv, SizeAccounted, TypeOK
<1>2. Size[o] \in 1..Cap
  BY DEF Live, IInv, ProperSizes
<1>3. Cardinality(Units(Live')) = size - Size[o]
  BY <1>1, <1>2, UnitsRemove
<1>4. Cardinality(Units(Live')) \in Nat
  BY <1>1, UnitsFinite
<1> QED
  BY <1>1, <1>2, <1>3, <1>4, CapAssumption DEF SizeAccounted

\* No Offer goes back to a place before its push, and only one that waits for the
\* outcome goes on to abandon it.
Forward ==
  \A o \in Offers :
    /\ opc'[o] \in Entering =>
         opc[o] = opc'[o] \/ (opc[o] \in Entering /\ Size[o] \in 1..Cap)
    /\ opc'[o] \in {"await", "abandon"} => opc[o] \in {"await", "abandon"}

\* A step that leaves the elements, the list and the size alone.
LEMMA Quiet ==
  ASSUME IInv, TypeOK', UNCHANGED <<est, items, size>>, Forward
  PROVE  IInv'
<1>1. Live' = Live
  BY DEF Live
<1>2. SizeAccounted'
  BY <1>1 DEF IInv, SizeAccounted
<1> QED
  BY <1>2 DEF Forward, IInv, NotYetQueued, ProperSizes, ListHoldsWaiting, OnlyWaitersAbandon,
              Entering

\* The end of add, from any place before it.
LEMMA PushStep ==
  ASSUME IInv, NEW o \in Offers, opc[o] \in Entering, Size[o] \in 1..Cap, Fits(o), Push(o),
         refs' \in [Offers -> Int]
  PROVE  IInv'
<1>1. est[o] = "none" /\ o \notin Live
  BY DEF IInv, NotYetQueued, Live
<1>2. /\ est' = [est EXCEPT ![o] = "queued"] /\ items' = Append(items, o)
      /\ size' = size + Size[o]
  BY DEF Push
<1>3. Live' = Live \cup {o}
  BY <1>2 DEF Live, IInv, TypeOK
<1>4. SizeAccounted' /\ size' \in 0..Cap
  BY <1>1, <1>2, <1>3, Joins
<1>5. \/ opc' = [opc EXCEPT ![o] = "await"] /\ result' = result /\ WaitForResult
      \/ opc' = [opc EXCEPT ![o] = "returned"] /\ result' = [result EXCEPT ![o] = "nil"]
  BY DEF Push, Goto, Return
<1>6. cpc' \in [Consumers -> {"read", "asleep", "busy", "exited"}]
  <2>1. WakeOneConsumer /\ cpc \in [Consumers -> {"read", "asleep", "busy", "exited"}]
    BY DEF Push, IInv, TypeOK
  <2> QED
    BY <2>1 DEF WakeOneConsumer
<1>7. TypeOK'
  <2>1. opc' \in [Offers -> OfferPCs] /\ result' \in [Offers -> Results]
    <3>1. opc \in [Offers -> OfferPCs] /\ result \in [Offers -> Results]
      BY DEF IInv, TypeOK
    <3> QED
      BY <1>5, <3>1 DEF OfferPCs, Results
  <2>2. est' \in [Offers -> ElementStates] /\ items' \in Seq(Offers)
    BY <1>2 DEF IInv, TypeOK, ElementStates
  <2>3. doneOf' \in [Offers -> Offers] /\ pool' \subseteq Offers
    BY DEF Push, IInv, TypeOK
  <2> QED
    BY <1>4, <1>6, <2>1, <2>2, <2>3 DEF Push, condVars, IInv, TypeOK
<1>8. NotYetQueued' /\ ProperSizes' /\ OnlyWaitersAbandon'
  BY <1>2, <1>5 DEF IInv, TypeOK, NotYetQueued, ProperSizes, OnlyWaitersAbandon, Entering
<1>9. ListHoldsWaiting'
  <2>1. \A i \in 1..Len(items) : items[i] # o
    BY <1>1 DEF IInv, ListHoldsWaiting
  <2>2. /\ Len(items') = Len(items) + 1 /\ items'[Len(items) + 1] = o
        /\ \A i \in 1..Len(items) : items'[i] = items[i]
    BY <1>2 DEF IInv, TypeOK
  <2>3. \A i \in 1..Len(items) : items[i] \in Offers /\ est'[items[i]] = est[items[i]]
    BY <1>2, <2>1 DEF IInv, TypeOK
  <2>4. est'[o] = "queued" /\ Len(items) \in Nat
    BY <1>2 DEF IInv, TypeOK
  <2>5. \A i \in 1..Len(items') : i \in 1..Len(items) \/ i = Len(items) + 1
    BY <2>2, <2>4
  <2>6. \A i \in 1..Len(items') : est'[items'[i]] \in {"queued", "abandoned"}
    BY <2>2, <2>3, <2>4, <2>5 DEF IInv, ListHoldsWaiting
  <2>7. \A i, j \in 1..Len(items') : items'[i] = items'[j] => i = j
    BY <2>1, <2>2, <2>5 DEF IInv, ListHoldsWaiting
  <2> QED
    BY <2>6, <2>7 DEF ListHoldsWaiting
<1> QED
  BY <1>4, <1>7, <1>8, <1>9 DEF IInv

\* add goes to sleep.
LEMMA WaitStep ==
  ASSUME IInv, NEW o \in Offers, opc[o] \in Entering, Size[o] \in 1..Cap, WaitForSpace(o),
         refs' \in [Offers -> Int]
  PROVE  IInv'
<1>1. TypeOK'
  <2>1. opc' \in [Offers -> OfferPCs]
    BY DEF WaitForSpace, Goto, IInv, TypeOK, OfferPCs
  <2>2. waiting' \in Nat
    BY DEF WaitForSpace, IInv, TypeOK
  <2> QED
    BY <2>1, <2>2 DEF WaitForSpace, IInv, TypeOK, consVars, doneVars
<1>2. Forward
  BY DEF Forward, WaitForSpace, Goto, IInv, TypeOK
<1> QED
  BY <1>1, <1>2, Quiet DEF WaitForSpace

\* Ref and Unref keep the type of the counters.
LEMMA RefTypes ==
  ASSUME IInv, NEW o \in Offers, Ref(o) \/ Unref(o)
  PROVE  refs' \in [Offers -> Int]
  BY DEF IInv, TypeOK, Ref, Unref
\* An Offer moves on, or returns.
LEMMA Moves ==
  ASSUME IInv, NEW o \in Offers, NEW l \in OfferPCs, Goto(o, l)
  PROVE  /\ opc' \in [Offers -> OfferPCs]
         /\ opc'[o] = l /\ \A p \in Offers \ {o} : opc'[p] = opc[p]
  BY DEF IInv, TypeOK, Goto

\* What Offer returns, and where it then is.
LEMMA Returns ==
  ASSUME IInv, NEW o \in Offers, NEW r \in Results, Return(o, r)
  PROVE  /\ opc' \in [Offers -> OfferPCs] /\ result' \in [Offers -> Results]
         /\ opc'[o] = "returned" /\ \A p \in Offers \ {o} : opc'[p] = opc[p]
  BY DEF IInv, TypeOK, Goto, Return, OfferPCs

-----------------------------------------------------------------------------
(***************************************************************************)
(* The actions of Offer, one by one.                                       *)
(***************************************************************************)
LEMMA OfferUnqueuedStep ==
  ASSUME IInv, NEW o \in Offers, OfferUnqueued(o)
  PROVE  IInv'
<1>1. \E r \in Results : Return(o, r)
  BY DEF OfferUnqueued, Results
<1>2. opc' \in [Offers -> OfferPCs] /\ result' \in [Offers -> Results] /\ Forward
  BY <1>1, Returns DEF Forward, Entering
<1>3. TypeOK'
  BY <1>2 DEF OfferUnqueued, IInv, TypeOK, condVars, consVars, doneVars
<1> QED
  BY <1>2, <1>3, Quiet DEF OfferUnqueued

\* The call of Offer, up to where it returns or waits.
LEMMA OfferCallStep ==
  ASSUME IInv, NEW o \in Offers, Offer(o)
  PROVE  IInv'
<1>1. opc[o] \in Entering /\ Size[o] \in 1..Cap
  BY DEF Offer, Entering
<1>2. CASE Fits(o) /\ Push(o) /\ Ref(o)
  BY <1>1, <1>2, PushStep, RefTypes
<1>3. CASE WaitForSpace(o) /\ Ref(o)
  BY <1>1, <1>3, WaitStep, RefTypes
<1>4. CASE /\ Return(o, "full")
           /\ UNCHANGED <<got, est, items, size, stopped, condVars, consVars, doneVars, refs>>
  <2>1. opc' \in [Offers -> OfferPCs] /\ result' \in [Offers -> Results] /\ Forward
    BY <1>4, Returns DEF Forward, Entering, Results
  <2>2. TypeOK'
    BY <1>4, <2>1 DEF IInv, TypeOK, condVars, consVars, doneVars
  <2> QED
    BY <1>4, <2>1, <2>2, Quiet
<1> QED
  BY <1>2, <1>3, <1>4 DEF Offer

\* The loop of add after a wake-up.
LEMMA AddWokenStep ==
  ASSUME IInv, NEW o \in Offers, AddWoken(o)
  PROVE  IInv'
<1>1. opc[o] \in Entering /\ Size[o] \in 1..Cap /\ refs' \in [Offers -> Int]
  BY DEF AddWoken, Entering, IInv, ProperSizes, TypeOK
<1> QED
  BY <1>1, PushStep, WaitStep DEF AddWoken

\* The steps inside hasMoreSpace.Wait touch no element.
LEMMA SpaceStep ==
  ASSUME IInv, NEW o \in Offers,
         SpaceSelectDone(o) \/ SpaceSelectToken(o) \/ SpaceCancel(o) \/ SpaceDrain(o)
  PROVE  IInv'
<1>1. opc[o] \in Entering /\ Size[o] \in 1..Cap
  BY DEF SpaceSelectDone, SpaceSelectToken, SpaceCancel, SpaceDrain, Entering, IInv, ProperSizes
<1>2. CASE SpaceSelectDone(o)
  <2>1. opc' \in [Offers -> OfferPCs] /\ Forward
    BY <1>1, <1>2, Moves DEF SpaceSelectDone, OfferPCs, Forward
  <2>2. TypeOK'
    BY <1>2, <2>1 DEF SpaceSelectDone, IInv, TypeOK, condVars, consVars, doneVars
  <2> QED
    BY <1>2, <2>1, <2>2, Quiet DEF SpaceSelectDone
<1>3. CASE SpaceSelectToken(o)
  <2>1. opc' \in [Offers -> OfferPCs] /\ Forward
    BY <1>1, <1>3, Moves DEF SpaceSelectToken, OfferPCs, Forward
  <2>2. ch' \in 0..Slots
    BY <1>3, CapAssumption DEF SpaceSelectToken, IInv, TypeOK
  <2>3. TypeOK'
    BY <1>3, <2>1, <2>2 DEF SpaceSelectToken, IInv, TypeOK, consVars, doneVars
  <2> QED
    BY <1>3, <2>1, <2>3, Quiet DEF SpaceSelectToken
<1>4. CASE SpaceCancel(o)
  <2>1. /\ opc' \in [Offers -> OfferPCs] /\ result' \in [Offers -> Results] /\ Forward
        /\ refs' \in [Offers -> Int] /\ waiting' \in Nat
    <3>1. CASE Goto(o, "drain") /\ UNCHANGED <<result, waiting, refs>>
      BY <1>1, <3>1, Moves DEF OfferPCs, Forward, IInv, TypeOK
    <3>2. CASE waiting > 0 /\ waiting' = waiting - 1 /\ Return(o, "ctx") /\ Unref(o)
      <4>1. waiting' \in Nat
        BY <3>2 DEF IInv, TypeOK
      <4> QED
        BY ZenonT(30), <4>1, <3>2, Returns, RefTypes DEF Results, Forward, Entering
    <3> QED
      BY <1>4, <3>1, <3>2 DEF SpaceCancel
  <2>2. TypeOK'
    BY <1>4, <2>1 DEF SpaceCancel, IInv, TypeOK, consVars, doneVars
  <2> QED
    BY <1>4, <2>1, <2>2, Quiet DEF SpaceCancel
<1>5. CASE SpaceDrain(o)
  <2>1. /\ opc' \in [Offers -> OfferPCs] /\ result' \in [Offers -> Results] /\ Forward
        /\ refs' \in [Offers -> Int]
    BY <1>5, Returns, RefTypes DEF SpaceDrain, Results, Forward, Entering
  <2>2. ch' \in 0..Slots
    BY <1>5, CapAssumption DEF SpaceDrain, IInv, TypeOK
  <2>3. TypeOK'
    BY <1>5, <2>1, <2>2 DEF SpaceDrain, IInv, TypeOK, consVars, doneVars
  <2> QED
    BY <1>5, <2>1, <2>3, Quiet DEF SpaceDrain
<1> QED
  BY <1>2, <1>3, <1>4, <1>5
\* The select on done.ch and ctx.Done touches no element.
LEMMA AwaitStep ==
  ASSUME IInv, NEW o \in Offers, AwaitOutcome(o) \/ MustAwaitOutcome(o) \/ AwaitDone(o)
  PROVE  IInv'
<1>1. CASE AwaitOutcome(o) \/ MustAwaitOutcome(o)
  <2>1. Receive(o)
    BY <1>1 DEF AwaitOutcome, MustAwaitOutcome
  <2>2. opc' \in [Offers -> OfferPCs] /\ result' \in [Offers -> Results] /\ Forward
    BY <2>1, Returns DEF Receive, Results, Forward, Entering
  <2>3. doneOf[o] \in Offers /\ doneCh[doneOf[o]] \in SUBSET Offers
    BY DEF IInv, TypeOK
  <2>4. got' \in [Offers -> SUBSET Offers] /\ doneCh' \in [Offers -> SUBSET Offers]
    BY <2>1, <2>3 DEF Receive, IInv, TypeOK
  <2>5. pool' \subseteq Offers
    BY <1>1, <2>3 DEF AwaitOutcome, MustAwaitOutcome, IInv, TypeOK
  <2>6. TypeOK'
    BY <2>1, <2>2, <2>4, <2>5 DEF Receive, IInv, TypeOK, condVars, consVars
  <2> QED
    BY <2>1, <2>2, <2>6, Quiet DEF Receive
<1>2. CASE AwaitDone(o)
  <2>1. opc' \in [Offers -> OfferPCs] /\ Forward
    BY <1>2, Moves DEF AwaitDone, OfferPCs, Forward, Entering
  <2>2. TypeOK'
    BY <1>2, <2>1 DEF AwaitDone, IInv, TypeOK, condVars, consVars, doneVars
  <2> QED
    BY <1>2, <2>1, <2>2, Quiet DEF AwaitDone
<1> QED
  BY <1>1, <1>2

\* An element gives its capacity back: abandoned in the list, or exported.
LEMMA LeaveStep ==
  ASSUME IInv, NEW o \in Offers, NEW l,
         \/ est[o] = "queued" /\ l = "abandoned" /\ WaitForResult
         \/ est[o] = "inflight" /\ l \in {"sending", "done"},
         est' = [est EXCEPT ![o] = l], size' = size - Size[o], items' = items,
         Forward
  PROVE  /\ est' \in [Offers -> ElementStates] /\ size' \in 0..Cap
         /\ TypeOK' => IInv'
<1>1. /\ est'[o] = l /\ \A p \in Offers \ {o} : est'[p] = est[p]
      /\ est' \in [Offers -> ElementStates]
  BY DEF IInv, TypeOK, ElementStates
<1>2. o \in Live /\ Live' = Live \ {o}
  BY <1>1 DEF Live
<1>3. SizeAccounted' /\ size' \in 0..Cap
  BY <1>2, Leaves
<1>4. NotYetQueued' /\ ProperSizes' /\ OnlyWaitersAbandon'
  BY <1>1 DEF Forward, IInv, NotYetQueued, ProperSizes, OnlyWaitersAbandon, Entering
<1>5. ListHoldsWaiting'
  <2>1. \A i \in 1..Len(items) : items[i] \in Offers
    BY DEF IInv, TypeOK
  <2> QED
    BY <1>1, <2>1, ZenonT(30) DEF IInv, ListHoldsWaiting
<1> QED
  BY <1>1, <1>3, <1>4, <1>5 DEF IInv

\* abandon: a queued element stops counting, a taken one is left alone.
LEMMA AbandonStep ==
  ASSUME IInv, NEW o \in Offers, Abandon(o)
  PROVE  IInv'
<1>1. CASE Goto(o, "must") /\ UNCHANGED <<result, est, size, condVars>>
  <2>1. opc' \in [Offers -> OfferPCs] /\ Forward
    BY <1>1, Moves DEF OfferPCs, Forward, Entering
  <2>2. TypeOK'
    BY <1>1, <2>1 DEF Abandon, IInv, TypeOK, condVars, consVars, doneVars
  <2> QED
    BY <1>1, <2>1, <2>2, Quiet DEF Abandon
<1>2. CASE /\ est[o] = "queued"
           /\ est' = [est EXCEPT ![o] = "abandoned"]
           /\ size' = size - Size[o]
           /\ SignalSpace(Return(o, "ctx"), Goto(o, "sending") /\ UNCHANGED result)
  <2>1. /\ opc' \in [Offers -> OfferPCs] /\ result' \in [Offers -> Results] /\ Forward
        /\ waiting' \in Nat /\ ch' \in 0..Slots
    <3>1. Return(o, "ctx") \/ (Goto(o, "sending") /\ UNCHANGED result)
      BY <1>2 DEF SignalSpace
    <3>2. opc' \in [Offers -> OfferPCs] /\ result' \in [Offers -> Results] /\ Forward
      <4>1. CASE Return(o, "ctx")
        BY <4>1, Returns DEF Results, Forward, Entering
      <4>2. CASE Goto(o, "sending") /\ UNCHANGED result
        BY <4>2, Moves DEF OfferPCs, Forward, Entering, IInv, TypeOK
      <4> QED
        BY <3>1, <4>1, <4>2
    <3>3. waiting' \in Nat /\ ch' \in 0..Slots
      BY <1>2, CapAssumption DEF SignalSpace, condVars, IInv, TypeOK
    <3> QED
      BY <3>2, <3>3
  <2>2. WaitForResult
    BY DEF Abandon, IInv, OnlyWaitersAbandon
  <2>3. est' \in [Offers -> ElementStates] /\ size' \in 0..Cap /\ (TypeOK' => IInv')
    BY ZenonT(30), <1>2, <2>1, <2>2, LeaveStep DEF Abandon
  <2>4. TypeOK'
    BY <2>1, <2>3 DEF Abandon, IInv, TypeOK, consVars, doneVars
  <2> QED
    BY <2>3, <2>4
<1> QED
  BY <1>1, <1>2 DEF Abandon

\* abandon goes on after its Signal blocked.
LEMMA AbandonSendStep ==
  ASSUME IInv, NEW o \in Offers, AbandonSend(o) \/ AbandonRelock(o)
  PROVE  IInv'
<1>1. CASE AbandonSend(o)
  <2>1. opc' \in [Offers -> OfferPCs] /\ Forward
    BY <1>1, Moves DEF AbandonSend, OfferPCs, Forward, Entering
  <2>2. ch' \in 0..Slots
    BY <1>1, CapAssumption DEF AbandonSend, IInv, TypeOK
  <2>3. TypeOK'
    BY <1>1, <2>1, <2>2 DEF AbandonSend, IInv, TypeOK, consVars, doneVars
  <2> QED
    BY <1>1, <2>1, <2>3, Quiet DEF AbandonSend
<1>2. CASE AbandonRelock(o)
  <2>1. opc' \in [Offers -> OfferPCs] /\ result' \in [Offers -> Results] /\ Forward
    BY <1>2, Returns DEF AbandonRelock, Results, Forward, Entering
  <2>2. TypeOK'
    BY <1>2, <2>1 DEF AbandonRelock, IInv, TypeOK, condVars, consVars, doneVars
  <2> QED
    BY <1>2, <2>1, <2>2, Quiet DEF AbandonRelock
<1> QED
  BY <1>1, <1>2
-----------------------------------------------------------------------------
(***************************************************************************)
(* The completion of an element.                                           *)
(***************************************************************************)
LEMMA ReportTypes ==
  ASSUME IInv, NEW e \in Offers, Report(e)
  PROVE  /\ est' = [est EXCEPT ![e] = "done"]
         /\ doneCh' \in [Offers -> SUBSET Offers] /\ pool' \subseteq Offers
<1>1. doneOf[e] \in Offers /\ doneCh \in [Offers -> SUBSET Offers] /\ pool \subseteq Offers
  BY DEF IInv, TypeOK
<1>2. CASE WaitForResult
  <2>1. /\ est' = [est EXCEPT ![e] = "done"]
        /\ doneCh' = [doneCh EXCEPT ![doneOf[e]] = {e}] /\ pool' = pool
    BY <1>2 DEF Report
  <2> QED
    BY <1>1, <2>1
<1>3. CASE ~WaitForResult
  <2>1. /\ est' = [est EXCEPT ![e] = "done"]
        /\ doneCh' = doneCh /\ pool' = pool \cup {doneOf[e]}
    BY <1>3 DEF Report
  <2> QED
    BY <1>1, <2>1
<1> QED
  BY <1>2, <1>3

\* onDone: an element that was exported stops counting.
LEMMA OnDoneStep ==
  ASSUME IInv, NEW e \in Offers, OnDone(e)
  PROVE  IInv'
<1>1. /\ \/ est' = [est EXCEPT ![e] = "done"]
         \/ est' = [est EXCEPT ![e] = "sending"]
      /\ doneCh' \in [Offers -> SUBSET Offers] /\ pool' \subseteq Offers
  <2>1. Report(e) \/ (est' = [est EXCEPT ![e] = "sending"] /\ UNCHANGED <<doneCh, pool>>)
    BY DEF OnDone, SignalSpace
  <2> QED
    BY <2>1, ReportTypes DEF IInv, TypeOK
<1>2. waiting' \in Nat /\ ch' \in 0..Slots
  BY CapAssumption DEF OnDone, SignalSpace, condVars, IInv, TypeOK
<1>3. refs' \in [Offers -> Int] /\ Forward
  BY RefTypes DEF OnDone, Forward
<1>4. est' \in [Offers -> ElementStates] /\ size' \in 0..Cap /\ (TypeOK' => IInv')
  <2>1. est[e] = "inflight" /\ size' = size - Size[e] /\ items' = items
    BY DEF OnDone
  <2> QED
    BY <1>1, <1>3, <2>1, LeaveStep
<1>5. TypeOK'
  BY <1>1, <1>2, <1>3, <1>4 DEF OnDone, IInv, TypeOK, consVars
<1> QED
  BY <1>4, <1>5

\* Between two states in which an element no longer counts.
LEMMA AfterLeaveStep ==
  ASSUME IInv, NEW e \in Offers, OnDoneSend(e) \/ OnDoneRelock(e)
  PROVE  IInv'
<1>1. /\ est[e] \in {"sending", "relock"}
      /\ \/ est' = [est EXCEPT ![e] = "relock"]
         \/ est' = [est EXCEPT ![e] = "done"]
  BY ReportTypes DEF OnDoneSend, OnDoneRelock
<1>2. /\ est'[e] \in {"relock", "done"} /\ \A p \in Offers \ {e} : est'[p] = est[p]
      /\ est' \in [Offers -> ElementStates]
  <2>1. est \in [Offers -> ElementStates] /\ {"relock", "done"} \subseteq ElementStates
    BY DEF IInv, TypeOK, ElementStates
  <2>2. CASE est' = [est EXCEPT ![e] = "relock"]
    BY <2>1, <2>2
  <2>3. CASE est' = [est EXCEPT ![e] = "done"]
    BY <2>1, <2>3
  <2> QED
    BY <1>1, <2>2, <2>3
<1>3. Live' = Live /\ UNCHANGED <<opc, items, size>>
  BY <1>1, <1>2 DEF Live, OnDoneSend, OnDoneRelock
<1>4. SizeAccounted'
  BY <1>3 DEF IInv, SizeAccounted
<1>5. NotYetQueued' /\ ProperSizes' /\ OnlyWaitersAbandon'
  BY <1>1, <1>2, <1>3 DEF IInv, NotYetQueued, ProperSizes, OnlyWaitersAbandon, Entering
<1>6. ListHoldsWaiting'
  <2>1. \A i \in 1..Len(items) : items[i] \in Offers
    BY DEF IInv, TypeOK
  <2> QED
    BY <1>1, <1>2, <1>3, <2>1 DEF IInv, ListHoldsWaiting
<1>7. TypeOK'
  <2>1. CASE OnDoneSend(e)
    <3>1. ch' \in 0..Slots
      BY <2>1, CapAssumption DEF OnDoneSend, IInv, TypeOK
    <3> QED
      BY <1>2, <2>1, <3>1 DEF OnDoneSend, IInv, TypeOK, consVars, doneVars
  <2>2. CASE OnDoneRelock(e)
    <3>1. doneCh' \in [Offers -> SUBSET Offers] /\ pool' \subseteq Offers
      BY <2>2, ReportTypes DEF OnDoneRelock
    <3> QED
      BY <1>2, <2>2, <3>1 DEF OnDoneRelock, IInv, TypeOK, condVars, consVars
  <2> QED
    BY ZenonT(30), <2>1, <2>2
<1> QED
  BY <1>4, <1>5, <1>6, <1>7 DEF IInv

-----------------------------------------------------------------------------
(***************************************************************************)
(* The consumers, and Shutdown.                                            *)
(***************************************************************************)
LEMMA ReadStep ==
  ASSUME IInv, NEW c \in Consumers, Read(c)
  PROVE  IInv'
<1> USE DEF IInv
<1>1. PICK k \in 0..Len(items) :
        LET dropped == {items[i] : i \in 1..k}
            leave(e, s) == IF e \in dropped THEN "dropped" ELSE s
        IN
        /\ \A i \in 1..k : Abandoned(items[i])
        /\ \/ /\ k = Len(items)
              /\ cpc' = [cpc EXCEPT ![c] = IF stopped THEN "exited" ELSE "asleep"]
              /\ est' = [e \in Offers |-> leave(e, est[e])]
              /\ items' = <<>>
              /\ UNCHANGED held
           \/ /\ k < Len(items)
              /\ ~Abandoned(items[k + 1])
              /\ cpc' = [cpc EXCEPT ![c] = "busy"]
              /\ held' = [held EXCEPT ![c] = {items[k + 1]}]
              /\ est' = [e \in Offers |->
                           IF e = items[k + 1] THEN "inflight" ELSE leave(e, est[e])]
              /\ items' = SubSeq(items, k + 2, Len(items))
  BY DEF Read
<1> DEFINE dropped == {items[i] : i \in 1..k}
<1>2. UNCHANGED <<opc, result, got, size, stopped, condVars, doneVars, refs>>
  BY DEF Read
<1>3. Len(items) \in Nat /\ \A i \in 1..Len(items) : items[i] \in Offers
  BY DEF TypeOK
<1>4. \A e \in dropped : e \in Offers /\ est[e] = "abandoned"
  BY <1>1, <1>3 DEF Abandoned
<1>5. CASE k = Len(items)
  <2>1. /\ cpc' = [cpc EXCEPT ![c] = IF stopped THEN "exited" ELSE "asleep"]
        /\ est' = [e \in Offers |-> IF e \in dropped THEN "dropped" ELSE est[e]]
        /\ items' = <<>>
        /\ UNCHANGED held
    BY <1>1, <1>5
  <2>2. TypeOK'
    <3>1. est' \in [Offers -> ElementStates]
      BY <2>1 DEF TypeOK, ElementStates
    <3>2. cpc' \in [Consumers -> {"read", "asleep", "busy", "exited"}] /\ items' \in Seq(Offers)
      BY <2>1 DEF TypeOK
    <3> QED
      BY ZenonT(30), <1>2, <2>1, <3>1, <3>2 DEF TypeOK, condVars, doneVars
  <2>3. Live' = Live
    BY <1>4, <2>1 DEF Live
  <2>4. SizeAccounted'
    BY <1>2, <2>3 DEF SizeAccounted
  <2>5. NotYetQueued' /\ ProperSizes' /\ OnlyWaitersAbandon'
    BY <1>2, <1>4, <2>1 DEF NotYetQueued, ProperSizes, OnlyWaitersAbandon, Entering
  <2>6. ListHoldsWaiting'
    BY <2>1 DEF ListHoldsWaiting
  <2> QED
    BY <2>2, <2>4, <2>5, <2>6
<1>6. CASE k < Len(items)
  <2> DEFINE head == items[k + 1]
  <2>1. /\ ~Abandoned(head)
        /\ cpc' = [cpc EXCEPT ![c] = "busy"]
        /\ held' = [held EXCEPT ![c] = {head}]
        /\ est' = [e \in Offers |-> IF e = head THEN "inflight"
                                    ELSE IF e \in dropped THEN "dropped" ELSE est[e]]
        /\ items' = SubSeq(items, k + 2, Len(items))
    BY <1>1, <1>6
  <2>2. k + 1 \in 1..Len(items) /\ head \in Offers
    BY <1>3, <1>6
  <2>3. est[head] = "queued"
    BY <2>1, <2>2 DEF Abandoned, ListHoldsWaiting, OnlyWaitersAbandon
  <2>4. Live' = Live
    BY ZenonT(30), <1>4, <2>1, <2>2, <2>3 DEF Live
  <2>5. SizeAccounted'
    BY <1>2, <2>4 DEF SizeAccounted
  <2>6. NotYetQueued' /\ ProperSizes' /\ OnlyWaitersAbandon'
    BY <1>2, <1>4, <2>1, <2>2, <2>3 DEF NotYetQueued, ProperSizes, OnlyWaitersAbandon, Entering
  <2>7. /\ Len(items') = Len(items) - k - 1
        /\ \A i \in 1..Len(items') : /\ i + k + 1 \in 1..Len(items)
                                     /\ items'[i] = items[i + k + 1]
        /\ items' \in Seq(Offers)
    <3>1. items \in Seq(Offers) /\ k + 2 \in 1..(Len(items) + 1) /\ k \in Nat
      BY <1>3, <1>6 DEF TypeOK
    <3>2. SubSeq(items, k + 2, Len(items)) \in Seq(Offers)
      BY <3>1
    <3>3. Len(SubSeq(items, k + 2, Len(items))) = Len(items) - k - 1
      BY <1>3, <1>6, <3>1
    <3>4. \A i \in 1..(Len(items) - k - 1) :
            SubSeq(items, k + 2, Len(items))[i] = items[i + k + 1]
      BY <1>3, <1>6, <3>1
    <3>5. items' = SubSeq(items, k + 2, Len(items))
      BY <2>1
    <3>6. Len(items') = Len(items) - k - 1 /\ items' \in Seq(Offers)
      BY <3>2, <3>3, <3>5
    <3>7. \A i \in 1..(Len(items) - k - 1) :
            i + k + 1 \in 1..Len(items) /\ items'[i] = items[i + k + 1]
      BY <1>3, <3>1, <3>4, <3>5
    <3> QED
      BY <3>6, <3>7
  <2>8. ListHoldsWaiting'
    <3>1. \A i \in 1..Len(items') : items'[i] # head /\ items'[i] \notin dropped
      BY <1>3, <1>6, <2>2, <2>7 DEF ListHoldsWaiting
    <3>2. \A i \in 1..Len(items') : est'[items'[i]] = est[items'[i]]
      BY <1>3, <2>1, <2>7, <3>1
    <3>3. \A i \in 1..Len(items') : est'[items'[i]] \in {"queued", "abandoned"}
      BY <2>7, <3>2 DEF ListHoldsWaiting
    <3>4. \A i, j \in 1..Len(items') : items'[i] = items'[j] => i = j
      <4>1. SUFFICES ASSUME NEW i \in 1..Len(items'), NEW j \in 1..Len(items'),
                            items'[i] = items'[j]
                     PROVE  i = j
        OBVIOUS
      <4>2. /\ i + k + 1 \in 1..Len(items) /\ j + k + 1 \in 1..Len(items)
            /\ items[i + k + 1] = items[j + k + 1]
        BY ZenonT(30), <2>7, <4>1
      <4>3. i + k + 1 = j + k + 1
        BY ZenonT(30), <4>2 DEF ListHoldsWaiting
      <4> QED
        BY <4>3, <1>3, <2>7
    <3> QED
      BY <3>3, <3>4 DEF ListHoldsWaiting
  <2>9. TypeOK'
    <3>1. est' \in [Offers -> ElementStates]
      BY ZenonT(30), <2>1 DEF TypeOK, ElementStates
    <3>2. cpc' \in [Consumers -> {"read", "asleep", "busy", "exited"}]
      BY ZenonT(30), <2>1 DEF TypeOK
    <3>3. held' \in [Consumers -> SUBSET Offers]
      BY <2>1, <2>2 DEF TypeOK
    <3> QED
      BY ZenonT(30), <1>2, <2>7, <3>1, <3>2, <3>3 DEF TypeOK, condVars, doneVars
  <2> QED
    BY <2>5, <2>6, <2>8, <2>9
<1> QED
  BY <1>3, <1>5, <1>6

\* consumeFunc returns, Shutdown, and the end.
LEMMA OtherStep ==
  ASSUME IInv, (\E c \in Consumers : ConsumeReturns(c)) \/ Shutdown \/ Terminated
  PROVE  IInv'
<1>1. CASE \E c \in Consumers : ConsumeReturns(c)
  <2>1. TypeOK'
    BY <1>1 DEF ConsumeReturns, IInv, TypeOK, condVars, doneVars
  <2> QED
    BY <1>1, <2>1, Quiet DEF ConsumeReturns, Forward
<1>2. CASE Shutdown
  <2>1. TypeOK'
    BY <1>2 DEF Shutdown, IInv, TypeOK, condVars, doneVars
  <2> QED
    BY <1>2, <2>1, Quiet DEF Shutdown, Forward
<1>3. CASE Terminated
  <2>1. TypeOK'
    BY <1>3 DEF Terminated, vars, IInv, TypeOK, condVars, consVars, doneVars
  <2> QED
    BY <1>3, <2>1, Quiet DEF Terminated, vars, Forward
<1> QED
  BY <1>1, <1>2, <1>3

-----------------------------------------------------------------------------
\* The empty queue satisfies the invariant.
LEMMA InitHolds == Init => IInv
<1> SUFFICES ASSUME Init PROVE IInv
  OBVIOUS
<1>1. TypeOK
  <2>1. /\ opc \in [Offers -> OfferPCs] /\ result \in [Offers -> Results]
        /\ est \in [Offers -> ElementStates]
    BY DEF Init, OfferPCs, Results, ElementStates
  <2>2. size \in 0..Cap /\ waiting \in Nat /\ ch \in 0..Slots /\ items \in Seq(Offers)
    BY CapAssumption DEF Init
  <2>3. /\ cpc \in [Consumers -> {"read", "asleep", "busy", "exited"}]
        /\ held \in [Consumers -> SUBSET Offers] /\ got \in [Offers -> SUBSET Offers]
    BY DEF Init
  <2>4. /\ doneOf \in [Offers -> Offers] /\ doneCh \in [Offers -> SUBSET Offers]
        /\ pool \subseteq Offers /\ refs \in [Offers -> Int]
    BY DEF Init
  <2> QED
    BY ZenonT(30), <2>1, <2>2, <2>3, <2>4 DEF Init, TypeOK
<1>2. NotYetQueued /\ ProperSizes /\ ListHoldsWaiting /\ OnlyWaitersAbandon
  BY DEF Init, NotYetQueued, ProperSizes, ListHoldsWaiting, OnlyWaitersAbandon, Entering
<1>3. SizeAccounted
  <2>1. Units(Live) = {}
    BY DEF Init, Live, Units
  <2>2. Cardinality({}) = 0
    BY FS_EmptySet
  <2>3. Cardinality(Units(Live)) = 0
    BY <2>1, <2>2
  <2> QED
    BY <2>3, CapAssumption DEF SizeAccounted, Init
<1> QED
  BY <1>1, <1>2, <1>3 DEF IInv

\* Every step of the queue preserves it.
LEMMA NextPreserves == IInv /\ [Next]_vars => IInv'
<1> SUFFICES ASSUME IInv, [Next]_vars PROVE IInv'
  OBVIOUS
<1>1. ASSUME NEW o \in Offers,
             OfferUnqueued(o) \/ Offer(o) \/ SpaceSelectDone(o) \/ AwaitDone(o)
      PROVE  IInv'
  BY <1>1, OfferUnqueuedStep, OfferCallStep, SpaceStep, AwaitStep
<1>2. ASSUME NEW o \in Offers, OfferStep(o)
      PROVE  IInv'
  BY <1>2, SpaceStep, AddWokenStep, AwaitStep, AbandonStep, AbandonSendStep DEF OfferStep
<1>3. ASSUME NEW e \in Offers, DoneStep(e)
      PROVE  IInv'
  BY <1>3, OnDoneStep, AfterLeaveStep DEF DoneStep
<1>4. ASSUME NEW c \in Consumers, ConsumerStep(c)
      PROVE  IInv'
  BY <1>4, ReadStep, OtherStep DEF ConsumerStep
<1>5. CASE Shutdown \/ Terminated
  BY ZenonT(30), <1>5, OtherStep
<1>6. CASE UNCHANGED vars
  <2>1. TypeOK'
    BY <1>6 DEF vars, IInv, TypeOK, condVars, consVars, doneVars
  <2> QED
    BY <1>6, <2>1, Quiet DEF vars, Forward
<1> QED
  BY <1>1, <1>2, <1>3, <1>4, <1>5, <1>6 DEF Next

-----------------------------------------------------------------------------
(***************************************************************************)
(* The theorems.                                                           *)
(***************************************************************************)
\* The inductive invariant holds in every reachable state of the queue.
THEOREM Invariance == Spec => []IInv
<1> QED
  BY InitHolds, NextPreserves, PTL DEF Spec

\* The variables of the queue keep their types whatever the number of producers
\* and consumers, the capacity and the sizes of the requests; in particular
\* mq.size never becomes negative and never exceeds the capacity.
THEOREM TypeCorrect == Spec => []TypeOK
<1>1. IInv => TypeOK
  BY DEF IInv
<1> QED
  BY <1>1, Invariance, PTL

\* However Offer, Read, onDone, abandonment and cancellation interleave, mq.size
\* is the space of the elements queued or being exported, within the capacity.
THEOREM SpaceAccounted == Spec => []SizeAccounted
<1>1. IInv => SizeAccounted
  BY DEF IInv
<1> QED
  BY <1>1, Invariance, PTL
-----------------------------------------------------------------------------
(***************************************************************************)
(* No element is stranded: hasMoreElements.Signal wakes a consumer.        *)
(***************************************************************************)
\* After the Signal of add some consumer is awake.
LEMMA WakeOneWakes ==
  ASSUME IInv, WakeOneConsumer, Consumers # {}
  PROVE  \E c \in Consumers : cpc'[c] # "asleep"
<1>1. cpc \in [Consumers -> {"read", "asleep", "busy", "exited"}]
  BY DEF IInv, TypeOK
<1> QED
  BY <1>1 DEF WakeOneConsumer

\* NoStrandedElement is inductive.
LEMMA ElementStep ==
  ASSUME IInv, NoStrandedElement, [Next]_vars
  PROVE  NoStrandedElement'
<1>1. CASE \E o \in Offers : WakeOneConsumer /\ Push(o)
  BY <1>1, WakeOneWakes DEF NoStrandedElement
<1>2. CASE UNCHANGED <<items, cpc, stopped>>
  BY <1>2 DEF NoStrandedElement
<1>3. CASE \E c \in Consumers : Read(c)
  <2>1. PICK c \in Consumers : Read(c)
    BY ZenonT(30), <1>3
  <2>2. \/ items' = <<>>
        \/ cpc' = [cpc EXCEPT ![c] = "busy"]
    BY <2>1 DEF Read
  <2> QED
    BY <2>2 DEF NoStrandedElement, IInv, TypeOK
<1>4. CASE \E c \in Consumers : ConsumeReturns(c)
  BY <1>4 DEF ConsumeReturns, NoStrandedElement, IInv, TypeOK
<1>5. CASE Shutdown
  BY <1>5 DEF Shutdown, NoStrandedElement
<1>6. ASSUME NEW o \in Offers, \/ OfferUnqueued(o) \/ Offer(o) \/ SpaceSelectDone(o) \/ AwaitDone(o)
       \/ OfferStep(o)
       \/ DoneStep(o)
      PROVE UNCHANGED <<items, cpc, stopped>> \/ (WakeOneConsumer /\ Push(o))
  <2>1. CASE OfferUnqueued(o) \/ SpaceSelectDone(o) \/ AwaitDone(o) \/ SpaceSelectToken(o)
             \/ SpaceCancel(o) \/ SpaceDrain(o)
    BY ZenonT(30), <2>1 DEF OfferUnqueued, SpaceSelectDone, AwaitDone, SpaceSelectToken,
         SpaceCancel, SpaceDrain, consVars
  <2>2. CASE Offer(o) \/ AddWoken(o)
    BY ZenonT(30), <2>2 DEF Offer, AddWoken, Push, WaitForSpace, consVars
  <2>3. CASE AwaitOutcome(o) \/ MustAwaitOutcome(o) \/ Abandon(o) \/ AbandonSend(o) \/ AbandonRelock(o)
    BY <2>3, ZenonT(30) DEF AwaitOutcome, MustAwaitOutcome, Receive, Abandon, AbandonSend, AbandonRelock, consVars
  <2>4. CASE DoneStep(o)
    BY <2>4, ZenonT(30) DEF DoneStep, OnDone, OnDoneSend, OnDoneRelock, consVars
  <2> QED
    BY <1>6, <2>1, <2>2, <2>3, <2>4 DEF OfferStep
<1>7. CASE Terminated \/ UNCHANGED vars
  BY <1>7, <1>2, ZenonT(30) DEF Terminated, vars, consVars
<1> QED
  BY <1>1, <1>2, <1>3, <1>4, <1>5, <1>6, <1>7 DEF Next, ConsumerStep

\* With an element in the list of a queue that runs, some consumer is awake, for
\* any number of producers and consumers: the one Signal of add is enough.
THEOREM ElementServed == Spec => []NoStrandedElement
<1>1. Init => NoStrandedElement
  BY DEF Init, NoStrandedElement
<1>2. IInv /\ NoStrandedElement /\ [Next]_vars => NoStrandedElement'
  BY ElementStep
<1> QED
  BY <1>1, <1>2, Invariance, PTL DEF Spec

(***************************************************************************)
(* Shutdown of an exporter flushes its queue into a live wrapped exporter, *)
(* for any number of producers and consumers, any capacity and any sizes.  *)
(*                                                                         *)
(* FlushedBeforeShutdown speaks of the last stage only.  The invariant     *)
(* that implies it follows an element through the earlier ones: accepted,  *)
(* it waits in the list until a consumer tries it (NothingSkipped); while  *)
(* it is being sent a consumer stays busy with it (SenderIsBusy); a        *)
(* consumer exits only from an empty list (ExitedLeavesNothing), which     *)
(* stays empty because no Offer is running by then (NoLateOffer); and the  *)
(* wrapped exporter comes last (StagesInOrder).                            *)
(***************************************************************************)

StagesInOrder ==
  /\ stage \in 0..4
  /\ stopped => stage >= 2
  /\ stage >= 3 => \A c \in Consumers : cpc[c] = "exited"
  /\ down => stage = 4

NoLateOffer == stage > 0 => \A o \in Offers : opc[o] \in {"new", "returned"}

ExitedLeavesNothing == \A c \in Consumers : cpc[c] = "exited" => stopped /\ items = <<>>

InList(e) == \E i \in 1..Len(items) : items[i] = e

OfferedOnce ==
  \A e \in Offers : InList(e) \/ spc[e] # "idle" => opc[e] = "returned"

NothingSkipped ==
  \A e \in Offers :
    opc[e] = "returned" /\ result[e] = "nil" /\ Size[e] > 0 => e \in tried \/ InList(e)

SenderIsBusy ==
  \A e \in Offers :
    spc[e] \in {"send", "backoff"} =>
      est[e] = "inflight" /\ \E c \in Consumers : cpc[c] = "busy" /\ e \in held[c]

IdleHoldsNothing == \A c \in Consumers : cpc[c] # "busy" => held[c] = {}

FInv ==
  /\ spc \in [Offers -> {"idle", "send", "backoff", "answered"}]
  /\ StagesInOrder
  /\ NoLateOffer
  /\ ExitedLeavesNothing
  /\ OfferedOnce
  /\ NothingSkipped
  /\ SenderIsBusy
  /\ IdleHoldsNothing

\* The queue returns before the export (no wait_for_result), its consumers do not
\* go on before an element is done, and the service stops the producers first.
Asynchronous == ~WaitForResult /\ ~Batching /\ UpstreamStopsFirst

-----------------------------------------------------------------------------
\* The exporter uses its queue as the queue may be used.
LEMMA QueueStep == [ExporterNext]_allVars => [Next]_vars
<1> SUFFICES ASSUME [ExporterNext]_allVars PROVE [Next]_vars
  OBVIOUS
<1>1. ASSUME NEW o \in Offers, CallOffer(o) \/ Cancel(o) \/ OfferProgress(o) \/ ExportDone(o)
      PROVE  Next
  BY <1>1, ZenonT(30) DEF Next, CallOffer, Cancel, OfferProgress, ExportDone
<1>2. ASSUME NEW o \in Offers, Answer(o) \/ BackoffInterrupted(o) \/ BackoffElapsed(o)
      PROVE  UNCHANGED vars
  BY <1>2 DEF Answer, BackoffInterrupted, BackoffElapsed
<1>3. ASSUME NEW c \in Consumers, Consume(c)
      PROVE  Next
  BY <1>3 DEF Next, Consume, ReadAndSend, ConsumerStep
<1>4. CASE BeginShutdown \/ RetryShutdown \/ QueueShutdown \/ WrappedShutdown
  BY <1>4 DEF Next, BeginShutdown, RetryShutdown, QueueShutdown, WrappedShutdown
<1>5. CASE ExporterTerminated \/ UNCHANGED allVars
  BY ZenonT(30), <1>5 DEF Next, ExporterTerminated, allVars
<1> QED
  BY <1>1, <1>2, <1>3, <1>4, <1>5 DEF ExporterNext

\* A step of an Offer that does not put its element into the list.
LEMMA OfferMoves ==
  ASSUME FInv, TypeOK, NEW o \in Offers, stage = 0, opc[o] # "returned",
         NEW l, opc' = [opc EXCEPT ![o] = l],
         \A e \in Offers \ {o} : result'[e] = result[e] /\ est'[e] = est[e],
         l = "returned" => result'[o] # "nil" \/ Size[o] = 0,
         UNCHANGED <<items, stopped, cpc, held, sendVars>>
  PROVE  FInv'
<1> USE DEF FInv
<1>1. \A e \in Offers : opc'[e] = IF e = o THEN l ELSE opc[e]
  BY ZenonT(30) DEF TypeOK
<1>2. UNCHANGED <<items, stopped, cpc, held, spc, tried, stopCh, down, stage>>
  BY DEF sendVars
<1>3. StagesInOrder' /\ NoLateOffer' /\ ExitedLeavesNothing'
  BY <1>2 DEF StagesInOrder, NoLateOffer, ExitedLeavesNothing
<1>4. \A e \in Offers : InList(e)' = InList(e)
  BY <1>2 DEF InList
<1>5. ~InList(o) /\ spc[o] = "idle"
  BY DEF OfferedOnce
<1>6. OfferedOnce'
  BY <1>1, <1>2, <1>4, <1>5 DEF OfferedOnce
<1>7. NothingSkipped'
  BY <1>1, <1>2, <1>4, SizeAssumption DEF NothingSkipped
<1>8. SenderIsBusy' /\ IdleHoldsNothing'
  BY <1>2, <1>5 DEF SenderIsBusy, IdleHoldsNothing
<1> QED
  BY <1>2, <1>3, <1>6, <1>7, <1>8

\* A step of an Offer that puts its element into the list.
LEMMA OfferPushes ==
  ASSUME Asynchronous, FInv, TypeOK, NEW o \in Offers, stage = 0, opc[o] # "returned",
         Push(o), UNCHANGED sendVars
  PROVE  FInv'
<1>0. StagesInOrder
  BY DEF FInv
<1>4. ~stopped
  BY <1>0 DEF StagesInOrder
<1> USE DEF FInv
<1>1. /\ opc' = [opc EXCEPT ![o] = "returned"] /\ result' = [result EXCEPT ![o] = "nil"]
      /\ items' = Append(items, o) /\ est' = [est EXCEPT ![o] = "queued"]
      /\ UNCHANGED <<stopped, held>>
  BY DEF Push, Asynchronous, Return, Goto
<1>2. UNCHANGED <<spc, tried, stopCh, down, stage>>
  BY DEF sendVars
<1>3. \A c \in Consumers : cpc'[c] = cpc[c] \/ (cpc[c] = "asleep" /\ cpc'[c] = "read")
  BY DEF Push, WakeOneConsumer, TypeOK
<1>5. StagesInOrder' /\ NoLateOffer'
  <2>1. ~stopped'
    BY <1>1, <1>4
  <2>2. stage' = 0 /\ ~down'
    BY <1>0, <1>2 DEF StagesInOrder
  <2> QED
    BY <2>1, <2>2 DEF StagesInOrder, NoLateOffer
<1>6. ExitedLeavesNothing'
  BY <1>1, <1>3, <1>4 DEF ExitedLeavesNothing
<1>7. \A e \in Offers : InList(e)' <=> InList(e) \/ e = o
  <2>1. items \in Seq(Offers)
    BY DEF TypeOK
  <2>2. /\ Len(items') = Len(items) + 1 /\ Len(items) \in Nat
        /\ items'[Len(items) + 1] = o
        /\ \A i \in 1..Len(items) : items'[i] = items[i]
    BY <1>1, <2>1
  <2>3. 1..Len(items') = 1..Len(items) \cup {Len(items) + 1}
    BY <2>2
  <2> QED
    BY <2>2, <2>3 DEF InList
<1>8. \A e \in Offers : /\ opc'[e] = IF e = o THEN "returned" ELSE opc[e]
                        /\ result'[e] = IF e = o THEN "nil" ELSE result[e]
                        /\ est'[e] = IF e = o THEN "queued" ELSE est[e]
  BY <1>1 DEF TypeOK
<1>9. OfferedOnce'
  BY <1>2, <1>7, <1>8, ZenonT(30) DEF OfferedOnce
<1>10. NothingSkipped'
  BY <1>2, <1>7, <1>8 DEF NothingSkipped
<1>11. SenderIsBusy' /\ IdleHoldsNothing'
  <2>1. spc[o] = "idle"
    BY DEF OfferedOnce
  <2> QED
    BY <1>1, <1>2, <1>3, <1>8, <2>1 DEF SenderIsBusy, IdleHoldsNothing
<1> QED
  BY <1>2, <1>5, <1>6, <1>9, <1>10, <1>11
\* Every step of an Offer.
LEMMA OfferStepKeeps ==
  ASSUME Asynchronous, FInv, TypeOK, NEW o \in Offers,
         CallOffer(o) \/ Cancel(o) \/ OfferProgress(o)
  PROVE  FInv'
<1>1. UNCHANGED sendVars
  BY DEF CallOffer, Cancel, OfferProgress
<1>2. CASE CallOffer(o)
  <2>1. stage = 0 /\ opc[o] = "new"
    BY <1>2, ZenonT(30) DEF CallOffer, Asynchronous, OfferUnqueued, Offer
  <2>2. CASE OfferUnqueued(o)
    <3>1. PICK r : Return(o, r) /\ (r # "nil" \/ Size[o] = 0)
      BY <2>2 DEF OfferUnqueued
    <3>2. UNCHANGED <<est, items, stopped, cpc, held>>
      BY <2>2 DEF OfferUnqueued, consVars
    <3> QED
      BY ZenonT(30), <1>1, <2>1, <3>1, <3>2, OfferMoves DEF Return, Goto, TypeOK
  <2>3. CASE Offer(o) /\ Push(o)
    BY <1>1, <2>1, <2>3, OfferPushes
  <2>4. CASE Offer(o) /\ ~Push(o)
    <3>1. PICK l : opc' = [opc EXCEPT ![o] = l] /\ (l = "returned" => result' = [result EXCEPT ![o] = "full"])
      BY <2>4 DEF Offer, WaitForSpace, Return, Goto
    <3>2. \A e \in Offers \ {o} : result'[e] = result[e]
      BY <2>4 DEF Offer, WaitForSpace, Return, TypeOK
    <3>3. UNCHANGED <<est, items, stopped, cpc, held>>
      BY <2>4, ZenonT(30) DEF Offer, WaitForSpace, consVars
    <3>4. l = "returned" => result'[o] # "nil"
      BY <3>1 DEF TypeOK
    <3> QED
      BY ZenonT(30), <1>1, <2>1, <3>1, <3>2, <3>3, <3>4, OfferMoves
  <2> QED
    BY <1>2, <2>2, <2>3, <2>4 DEF CallOffer
<1>3. CASE Cancel(o) \/ OfferProgress(o)
  <2>1. opc[o] \notin {"new", "returned"}
    BY <1>3, ZenonT(30) DEF Cancel, OfferProgress, SpaceSelectDone, OfferStep, AddWoken, SpaceSelectToken,
                SpaceCancel, SpaceDrain, AwaitOutcome, Abandon, AbandonSend, AbandonRelock,
                MustAwaitOutcome
  <2>2. stage = 0
    BY <2>1 DEF FInv, NoLateOffer, StagesInOrder
  <2>3. CASE AddWoken(o) /\ Push(o)
    BY <1>1, <2>1, <2>2, <2>3, OfferPushes
  <2>4. CASE ~(AddWoken(o) /\ Push(o))
    <3>1. CASE Cancel(o) \/ AddWoken(o) \/ SpaceSelectToken(o) \/ SpaceCancel(o) \/ SpaceDrain(o)
      <4>1. PICK l : /\ opc' = [opc EXCEPT ![o] = l]
                     /\ l = "returned" => result' = [result EXCEPT ![o] = "ctx"]
        BY ZenonT(30), <2>4, <3>1 DEF Cancel, SpaceSelectDone, AddWoken, WaitForSpace, SpaceSelectToken,
                          SpaceCancel, SpaceDrain, Return, Goto
      <4>2. UNCHANGED <<est, items, stopped, cpc, held>>
        BY ZenonT(30), <2>4, <3>1 DEF Cancel, SpaceSelectDone, AddWoken, WaitForSpace, SpaceSelectToken,
                          SpaceCancel, SpaceDrain, consVars
      <4>3. \A e \in Offers \ {o} : result'[e] = result[e]
        BY <2>4, <3>1 DEF Cancel, SpaceSelectDone, AddWoken, WaitForSpace, SpaceSelectToken,
                          SpaceCancel, SpaceDrain, Return, TypeOK
      <4>4. l = "returned" => result'[o] # "nil"
        BY <4>1 DEF TypeOK
      <4> QED
        BY ZenonT(30), <1>1, <2>1, <2>2, <4>1, <4>2, <4>3, <4>4, OfferMoves
    <3>2. CASE AwaitOutcome(o) \/ Abandon(o) \/ AbandonSend(o) \/ AbandonRelock(o) \/ MustAwaitOutcome(o)
      <4>1. PICK l : /\ opc' = [opc EXCEPT ![o] = l]
                     /\ l = "returned" => \E r \in {"ctx", "outcome"} : result' = [result EXCEPT ![o] = r]
        BY <3>2, ZenonT(30) DEF AwaitOutcome, Receive, Abandon, SignalSpace, AbandonSend, AbandonRelock,
                    MustAwaitOutcome, Return, Goto
      <4>2. UNCHANGED <<items, stopped, cpc, held>>
        BY ZenonT(30), <3>2 DEF AwaitOutcome, Receive, Abandon, AbandonSend, AbandonRelock,
                    MustAwaitOutcome, consVars
      <4>3. \A e \in Offers \ {o} : result'[e] = result[e] /\ est'[e] = est[e]
        BY <3>2 DEF AwaitOutcome, Receive, Abandon, SignalSpace, AbandonSend, AbandonRelock,
                    MustAwaitOutcome, Return, TypeOK
      <4>4. l = "returned" => result'[o] # "nil"
        BY <4>1 DEF TypeOK
      <4> QED
        BY ZenonT(30), <1>1, <2>1, <2>2, <4>1, <4>2, <4>3, <4>4, OfferMoves
    <3> QED
      BY <1>3, <3>1, <3>2 DEF OfferProgress, OfferStep
  <2> QED
    BY <2>3, <2>4
<1> QED
  BY <1>2, <1>3

\* An element is sent, backs off, or is reported done.
LEMMA SendStepKeeps ==
  ASSUME FInv, TypeOK, NEW e \in Offers,
         Answer(e) \/ BackoffInterrupted(e) \/ BackoffElapsed(e) \/ ExportDone(e)
  PROVE  FInv'
<1> USE DEF FInv
<1>1. UNCHANGED <<opc, result, items, stopped, cpc, held, tried, stopCh, down, stage>>
  BY DEF Answer, BackoffInterrupted, BackoffElapsed, ExportDone, DoneStep, OnDone, OnDoneSend,
         OnDoneRelock, vars, consVars, sendVars
<1>2. /\ StagesInOrder' /\ NoLateOffer' /\ ExitedLeavesNothing' /\ NothingSkipped'
      /\ IdleHoldsNothing'
      /\ \A x \in Offers : InList(x)' = InList(x)
  BY <1>1, ZenonT(30) DEF StagesInOrder, NoLateOffer, ExitedLeavesNothing, NothingSkipped, IdleHoldsNothing, InList
<1>3. CASE Answer(e) \/ BackoffInterrupted(e) \/ BackoffElapsed(e)
  <2>1. PICK l \in {"send", "backoff", "answered"} : spc' = [spc EXCEPT ![e] = l]
    BY <1>3 DEF Answer, BackoffInterrupted, BackoffElapsed, Step
  <2>2. spc[e] \in {"send", "backoff"} /\ est' = est
    BY <1>3 DEF Answer, BackoffInterrupted, BackoffElapsed, vars
  <2>3. \A x \in Offers : spc'[x] = IF x = e THEN l ELSE spc[x]
    BY <2>1
  <2>4. OfferedOnce' /\ SenderIsBusy'
    BY <1>1, <1>2, <2>2, <2>3, ZenonT(30) DEF OfferedOnce, SenderIsBusy
  <2> QED
    BY <1>2, <2>1, <2>4
<1>4. CASE ExportDone(e)
  <2>1. spc' = spc
    BY <1>4 DEF ExportDone, sendVars
  <2>2. spc[e] \notin {"send", "backoff"}
    BY <1>4, ZenonT(30) DEF ExportDone, SenderIsBusy, DoneStep, OnDone, OnDoneSend, OnDoneRelock
  <2>3. \A x \in Offers \ {e} : est'[x] = est[x]
    BY <1>4, ZenonT(30) DEF ExportDone, DoneStep, OnDone, OnDoneSend, OnDoneRelock, SignalSpace, Report, TypeOK
  <2>4. OfferedOnce' /\ SenderIsBusy'
    BY <1>1, <1>2, <2>1, <2>2, <2>3, ZenonT(30) DEF OfferedOnce, SenderIsBusy
  <2> QED
    BY <1>2, <2>1, <2>4
<1> QED
  BY ZenonT(30), <1>3, <1>4
\* What Read does when nothing is ever abandoned.
LEMMA ReadAsynchronous ==
  ASSUME Asynchronous, TypeOK, NEW c \in Consumers, Read(c)
  PROVE  /\ cpc[c] = "read"
         /\ UNCHANGED <<opc, result, stopped>>
         /\ \/ /\ items = <<>> /\ items' = <<>>
               /\ cpc' = [cpc EXCEPT ![c] = IF stopped THEN "exited" ELSE "asleep"]
               /\ est' = [e \in Offers |-> est[e]]
               /\ held' = held
            \/ /\ items # <<>> /\ items' = Tail(items)
               /\ cpc' = [cpc EXCEPT ![c] = "busy"]
               /\ held' = [held EXCEPT ![c] = {Head(items)}]
               /\ est' = [e \in Offers |-> IF e = Head(items) THEN "inflight" ELSE est[e]]
<1>0. items \in Seq(Offers) /\ Len(items) \in Nat
  BY DEF TypeOK
<1>1. PICK k \in 0..Len(items) :
        LET dropped == {items[i] : i \in 1..k}
            leave(e, s) == IF e \in dropped THEN "dropped" ELSE s
        IN
        /\ \A i \in 1..k : Abandoned(items[i])
        /\ \/ /\ k = Len(items)
              /\ cpc' = [cpc EXCEPT ![c] = IF stopped THEN "exited" ELSE "asleep"]
              /\ est' = [e \in Offers |-> leave(e, est[e])]
              /\ items' = <<>>
              /\ UNCHANGED held
           \/ /\ k < Len(items)
              /\ ~Abandoned(items[k + 1])
              /\ cpc' = [cpc EXCEPT ![c] = "busy"]
              /\ held' = [held EXCEPT ![c] = {items[k + 1]}]
              /\ est' = [e \in Offers |->
                           IF e = items[k + 1] THEN "inflight" ELSE leave(e, est[e])]
              /\ items' = SubSeq(items, k + 2, Len(items))
  BY DEF Read
<1>2. k = 0
  <2>1. \A i \in 1..k : FALSE
    BY <1>1 DEF Abandoned, Asynchronous
  <2> QED
    BY <1>0, <2>1
<1>3. {items[i] : i \in 1..k} = {}
  BY <1>2
<1>4. cpc[c] = "read" /\ UNCHANGED <<opc, result, stopped>>
  BY DEF Read
<1>5. CASE k = Len(items)
  BY <1>0, <1>1, <1>2, <1>3, <1>4, <1>5
<1>6. CASE k < Len(items)
  <2>1. items # <<>> /\ Head(items) = items[1] /\ Tail(items) = SubSeq(items, 2, Len(items))
    BY <1>0, <1>2, <1>6
  <2>2. k + 1 = 1 /\ k + 2 = 2 /\ k # Len(items)
    BY <1>0, <1>2, <1>6
  <2>3. /\ cpc' = [cpc EXCEPT ![c] = "busy"]
        /\ held' = [held EXCEPT ![c] = {items[1]}]
        /\ est' = [e \in Offers |->
                     IF e = items[1] THEN "inflight"
                     ELSE IF e \in {items[i] : i \in 1..k} THEN "dropped" ELSE est[e]]
        /\ items' = SubSeq(items, 2, Len(items))
    BY <1>1, <2>2
  <2>4. est' = [e \in Offers |-> IF e = items[1] THEN "inflight" ELSE est[e]]
    BY ZenonT(30), <1>3, <2>3
  <2> QED
    BY <1>4, <2>1, <2>3, <2>4
<1> QED
  BY <1>0, <1>5, <1>6

\* A consumer takes an element into the chain, exits, sleeps or goes on.
LEMMA ConsumeKeeps ==
  ASSUME Asynchronous, FInv, TypeOK, NEW c \in Consumers, Consume(c)
  PROVE  FInv'
<1> USE DEF FInv
<1>0. items \in Seq(Offers) /\ cpc \in [Consumers -> {"read", "asleep", "busy", "exited"}]
      /\ held \in [Consumers -> SUBSET Offers]
  BY DEF TypeOK
<1>1. CASE ReadAndSend(c)
  <2>1. UNCHANGED <<opc, result, stopped, stopCh, down, stage>> /\ cpc[c] = "read"
    BY ZenonT(30), <1>1, ReadAsynchronous DEF ReadAndSend
  <2>2. StagesInOrder' /\ NoLateOffer'
    BY <2>1 DEF StagesInOrder, NoLateOffer
  <2>3. CASE items = <<>>
    <3>1. /\ items' = <<>> /\ held' = held /\ est' = [e \in Offers |-> est[e]]
          /\ cpc' = [cpc EXCEPT ![c] = IF stopped THEN "exited" ELSE "asleep"]
      BY <1>1, <2>3, ReadAsynchronous DEF ReadAndSend
    <3>2. ExitedLeavesNothing'
      BY <1>0, <2>1, <2>3, <3>1 DEF ExitedLeavesNothing
    <3>3. \A e \in Offers : InList(e)' = InList(e)
      BY <2>3, <3>1 DEF InList
    <3>4. UNCHANGED tried /\ \A e \in Offers : spc'[e] = spc[e] /\ est'[e] = est[e]
      BY <1>1, <2>1, <3>1, ZenonT(30) DEF ReadAndSend, IdleHoldsNothing
    <3>5. spc' \in [Offers -> {"idle", "send", "backoff", "answered"}]
      BY <1>1 DEF ReadAndSend
    <3>6. OfferedOnce' /\ NothingSkipped'
      BY <2>1, <3>3, <3>4, ZenonT(30) DEF OfferedOnce, NothingSkipped
    <3>7. SenderIsBusy' /\ IdleHoldsNothing'
      BY <1>0, <2>1, <3>1, <3>4 DEF SenderIsBusy, IdleHoldsNothing
    <3> QED
      BY <2>2, <3>2, <3>5, <3>6, <3>7
  <2>4. CASE items # <<>>
    <3> DEFINE head == Head(items)
    <3>1. /\ items' = Tail(items) /\ cpc' = [cpc EXCEPT ![c] = "busy"]
          /\ held' = [held EXCEPT ![c] = {head}]
          /\ est' = [e \in Offers |-> IF e = head THEN "inflight" ELSE est[e]]
      BY <1>1, <2>4, ReadAsynchronous DEF ReadAndSend
    <3>2. head \in Offers /\ held'[c] = {head} /\ cpc'[c] = "busy"
      BY <1>0, <2>4, <3>1
    <3>3. /\ tried' = tried \cup {head}
          /\ spc' = [e \in Offers |-> IF e = head THEN "send" ELSE spc[e]]
      BY <1>1, <3>2 DEF ReadAndSend
    <3>4. \A e \in Offers : InList(e) <=> InList(e)' \/ e = head
      <4>1. /\ Len(items) \in Nat \ {0} /\ Len(items') = Len(items) - 1
            /\ head = items[1] /\ \A i \in 1..Len(items') : items'[i] = items[i + 1]
        BY <1>0, <2>4, <3>1
      <4>2. ASSUME NEW e \in Offers, InList(e)
            PROVE  InList(e)' \/ e = head
        <5>1. PICK i \in 1..Len(items) : items[i] = e
          BY <4>2 DEF InList
        <5>2. CASE i = 1
          BY <4>1, <5>1, <5>2
        <5>3. CASE i # 1
          <6>1. i - 1 \in 1..Len(items') /\ items'[i - 1] = e
            BY <4>1, <5>1, <5>3
          <6> QED
            BY <6>1 DEF InList
        <5> QED
          BY <5>2, <5>3
      <4>3. ASSUME NEW e \in Offers, InList(e)' \/ e = head
            PROVE  InList(e)
        <5>1. CASE e = head
          BY <4>1, <5>1 DEF InList
        <5>2. CASE InList(e)'
          <6>1. PICK i \in 1..Len(items') : items'[i] = e
            BY <5>2 DEF InList
          <6>2. i + 1 \in 1..Len(items) /\ items[i + 1] = e
            BY <4>1, <6>1
          <6> QED
            BY <6>2 DEF InList
        <5> QED
          BY <4>3, <5>1, <5>2
      <4> QED
        BY <4>2, <4>3
    <3>5. ExitedLeavesNothing'
      BY ZenonT(30), <1>0, <2>1, <2>4, <3>1 DEF ExitedLeavesNothing
    <3>6. OfferedOnce' /\ NothingSkipped'
      BY <2>1, <3>2, <3>3, <3>4 DEF OfferedOnce, NothingSkipped
    <3>7. SenderIsBusy'
      <4>1. \A b \in Consumers \ {c} : cpc'[b] = cpc[b] /\ held'[b] = held[b]
        BY <1>0, <3>1
      <4> QED
        BY <2>1, <3>1, <3>2, <3>3, <4>1 DEF SenderIsBusy
    <3>8. IdleHoldsNothing'
      BY <1>0, <3>1 DEF IdleHoldsNothing
    <3>9. spc' \in [Offers -> {"idle", "send", "backoff", "answered"}]
      BY <3>3
    <3> QED
      BY <2>2, <3>5, <3>6, <3>7, <3>8, <3>9
  <2> QED
    BY <2>3, <2>4
<1>2. CASE ConsumeReturns(c) /\ UNCHANGED sendVars
  <2>1. /\ UNCHANGED <<opc, result, est, items, stopped, spc, tried, stopCh, down, stage>>
        /\ cpc[c] = "busy" /\ \A e \in held[c] : est[e] = "done"
        /\ cpc' = [cpc EXCEPT ![c] = "read"] /\ held' = [held EXCEPT ![c] = {}]
    BY <1>2 DEF ConsumeReturns, sendVars, Asynchronous
  <2>2. StagesInOrder' /\ NoLateOffer'
    BY <1>0, <2>1 DEF StagesInOrder, NoLateOffer
  <2>3. ExitedLeavesNothing' /\ IdleHoldsNothing'
    BY ZenonT(30), <1>0, <2>1 DEF ExitedLeavesNothing, IdleHoldsNothing
  <2>4. OfferedOnce' /\ NothingSkipped'
    BY <2>1 DEF OfferedOnce, NothingSkipped, InList
  <2>5. SenderIsBusy'
    <3>1. \A b \in Consumers \ {c} : cpc'[b] = cpc[b] /\ held'[b] = held[b]
      BY <1>0, <2>1
    <3> QED
      BY <2>1, <3>1 DEF SenderIsBusy
  <2> QED
    BY <2>1, <2>2, <2>3, <2>4, <2>5
<1> QED
  BY <1>1, <1>2 DEF Consume

\* The stages of Shutdown.
LEMMA ShutdownKeeps ==
  ASSUME Asynchronous, FInv, TypeOK,
         BeginShutdown \/ RetryShutdown \/ QueueShutdown \/ WrappedShutdown
  PROVE  FInv'
<1> USE DEF FInv
<1>0. cpc \in [Consumers -> {"read", "asleep", "busy", "exited"}] /\ stage \in 0..4
  BY ZenonT(30) DEF TypeOK, StagesInOrder
<1>1. UNCHANGED <<opc, result, est, items, held, spc, tried>>
  BY DEF BeginShutdown, RetryShutdown, QueueShutdown, WrappedShutdown, Shutdown, vars, consVars
<1>2. spc' \in [Offers -> {"idle", "send", "backoff", "answered"}] /\ OfferedOnce' /\ NothingSkipped'
  BY <1>1, ZenonT(30) DEF OfferedOnce, NothingSkipped, InList
<1>3. \A c \in Consumers : cpc'[c] = cpc[c] \/ (cpc[c] = "asleep" /\ cpc'[c] = "read")
  BY DEF BeginShutdown, RetryShutdown, QueueShutdown, WrappedShutdown, Shutdown, vars, consVars
<1>4. stopped => stopped'
  BY ZenonT(30) DEF BeginShutdown, RetryShutdown, QueueShutdown, WrappedShutdown, Shutdown, vars
<1>a. \A c \in Consumers : cpc'[c] # "read" => cpc'[c] = cpc[c]
  BY <1>3
<1>b. \A c \in Consumers : cpc[c] # "asleep" => cpc'[c] = cpc[c]
  BY <1>3
<1>c. ExitedLeavesNothing'
  BY ZenonT(30), <1>1, <1>a, <1>4 DEF ExitedLeavesNothing
<1>d. SenderIsBusy'
  BY <1>1, <1>b DEF SenderIsBusy
<1>e. IdleHoldsNothing'
  BY <1>1, <1>3 DEF IdleHoldsNothing
<1>5. ExitedLeavesNothing' /\ SenderIsBusy' /\ IdleHoldsNothing'
  BY <1>c, <1>d, <1>e
<1>f. StagesInOrder' /\ NoLateOffer' => FInv'
  BY <1>2, <1>5
<1>g. StagesInOrder /\ NoLateOffer
  OBVIOUS
<1> HIDE DEF FInv
<1>6. CASE BeginShutdown
  <2>1. stage = 0 /\ stage' = 1 /\ UNCHANGED <<down, stopped>>
        /\ \A o \in Offers : opc[o] \in {"new", "returned"}
    BY ZenonT(30), <1>6 DEF BeginShutdown, Asynchronous, vars
  <2>2. StagesInOrder'
    BY <1>g, <2>1 DEF StagesInOrder
  <2>3. NoLateOffer'
    BY ZenonT(30), <1>1, <2>1 DEF NoLateOffer
  <2> QED
    BY <1>f, <2>2, <2>3
<1>7. CASE RetryShutdown
  <2>1. stage = 1 /\ stage' = 2 /\ UNCHANGED <<down, stopped>>
    BY <1>0, <1>7 DEF RetryShutdown, Stopping, ShutdownOrder, vars
  <2>2. StagesInOrder'
    BY <1>g, <2>1 DEF StagesInOrder
  <2>3. NoLateOffer'
    BY <1>1, <1>g, <2>1 DEF NoLateOffer
  <2> QED
    BY <1>f, <2>2, <2>3
<1>8. CASE QueueShutdown
  <2>1. stage = 2 /\ down' = down /\ (stage' = 2 \/ stage' = 3)
    BY <1>0, <1>8 DEF QueueShutdown, Stopping, ShutdownOrder
  <2>2. stage' = 3 => \A c \in Consumers : cpc'[c] = "exited"
    BY <1>8, <2>1 DEF QueueShutdown, ShutdownReturned, vars, consVars
  <2>3. StagesInOrder'
    BY <1>g, <2>1, <2>2 DEF StagesInOrder
  <2>4. NoLateOffer'
    BY <1>1, <1>g, <2>1 DEF NoLateOffer
  <2> QED
    BY <1>f, <2>3, <2>4
<1>9. CASE WrappedShutdown
  <2>1. stage = 3 /\ stage' = 4 /\ UNCHANGED <<stopped, cpc>>
    BY <1>0, <1>9 DEF WrappedShutdown, Stopping, ShutdownOrder, vars, consVars
  <2>2. StagesInOrder'
    BY <1>g, <2>1 DEF StagesInOrder
  <2>3. NoLateOffer'
    BY <1>1, <1>g, <2>1 DEF NoLateOffer
  <2> QED
    BY <1>f, <2>2, <2>3
<1> QED
  BY <1>6, <1>7, <1>8, <1>9

-----------------------------------------------------------------------------
\* Every step of the exporter.
LEMMA ExporterStepKeeps ==
  ASSUME Asynchronous, FInv, TypeOK, [ExporterNext]_allVars
  PROVE  FInv'
<1>1. ASSUME NEW o \in Offers, CallOffer(o) \/ Cancel(o) \/ OfferProgress(o)
      PROVE  FInv'
  BY <1>1, OfferStepKeeps
<1>2. ASSUME NEW o \in Offers,
             Answer(o) \/ BackoffInterrupted(o) \/ BackoffElapsed(o) \/ ExportDone(o)
      PROVE  FInv'
  BY <1>2, SendStepKeeps
<1>3. ASSUME NEW c \in Consumers, Consume(c)
      PROVE  FInv'
  BY <1>3, ConsumeKeeps
<1>4. CASE BeginShutdown \/ RetryShutdown \/ QueueShutdown \/ WrappedShutdown
  BY <1>4, ShutdownKeeps
<1>5. CASE ExporterTerminated \/ UNCHANGED allVars
  <2>1. UNCHANGED <<opc, result, est, items, stopped, cpc, held, spc, tried, down, stage>>
    BY ZenonT(30), <1>5 DEF ExporterTerminated, Terminated, allVars, vars, consVars, sendVars
  <2> QED
    BY <2>1, ZenonT(30) DEF FInv, StagesInOrder, NoLateOffer, ExitedLeavesNothing, OfferedOnce,
                NothingSkipped, SenderIsBusy, IdleHoldsNothing, InList
<1> QED
  BY <1>1, <1>2, <1>3, <1>4, <1>5 DEF ExporterNext

\* The invariant gives the property, if there is a consumer at all.
LEMMA FlushedFollows ==
  ASSUME FInv, Consumers # {}
  PROVE  FlushedBeforeShutdown
<1> SUFFICES ASSUME down PROVE FlushedBeforeShutdown
  BY ZenonT(30) DEF FlushedBeforeShutdown
<1>1. \A c \in Consumers : cpc[c] = "exited"
  BY DEF FInv, StagesInOrder
<1>2. items = <<>>
  BY <1>1 DEF FInv, ExitedLeavesNothing
<1>3. \A e \in Offers : ~InList(e)
  BY <1>2 DEF InList
<1> QED
  BY <1>1, <1>3, ZenonT(30) DEF FInv, FlushedBeforeShutdown, NothingSkipped, SenderIsBusy

\* However many producers, consumers, retries and back-offs there are: when the
\* wrapped exporter is shut down, every accepted element has been tried on it and
\* none is being sent (BaseExporter.Shutdown, base_exporter.go:163-179).
THEOREM ShutdownFlushes ==
  ASSUME Asynchronous, Consumers # {}
  PROVE  ExporterSpec => []FlushedBeforeShutdown
<1>1. ExporterInit => Init
  BY DEF ExporterInit
<1>2. ExporterSpec => []TypeOK
  <2>1. IInv => TypeOK
    BY DEF IInv
  <2> QED
    BY <1>1, <2>1, QueueStep, InitHolds, NextPreserves, PTL DEF ExporterSpec
<1>3. ExporterInit => FInv
  BY DEF ExporterInit, Init, FInv, StagesInOrder, NoLateOffer, ExitedLeavesNothing, OfferedOnce,
         NothingSkipped, SenderIsBusy, IdleHoldsNothing, InList
<1>4. FInv /\ TypeOK /\ [ExporterNext]_allVars => FInv'
  BY ExporterStepKeeps
<1>5. FInv => FlushedBeforeShutdown
  BY FlushedFollows
<1> QED
  BY <1>2, <1>3, <1>4, <1>5, PTL DEF ExporterSpec

\* The queue inside an exporter is used as a memory queue may be: so while it holds
\* an element, some consumer is on its way to it, whatever the retry sender and
\* Shutdown do meanwhile.
THEOREM ExporterServesElements == ExporterSpec => []NoStrandedElement
<1>1. ExporterInit => Init
  BY DEF ExporterInit
<1>2. ExporterSpec => Spec
  BY <1>1, QueueStep, PTL DEF ExporterSpec, Spec
<1> QED
  BY <1>2, ElementServed, PTL
=============================================================================
