----------------------- MODULE PersistentQueueProofs -----------------------
(***************************************************************************)
(* Theorems about the persistent queue, for any elements, sizes, consumers,*)
(* capacity, number of restarts and of failed storage calls: the client of *)
(* the storage is closed once, after its last use, and no accepted element *)
(* is lost.                                                                *)
(***************************************************************************)
EXTENDS PersistentQueueSteps, FiniteSetTheorems

\* The provers of a step, in this order, and their time in seconds.
USE SMTT(30), ZenonT(30), Z3T(30)

(***************************************************************************)
(* The references on the storage client: one of the queue itself, from     *)
(* Start to Shutdown, and one of every element with a consumer.            *)
(***************************************************************************)
Active == {i \in Indices : dpc[i] # "no"}

RefInv ==
  /\ refClient = (IF phase \in {"down", "stopped"} THEN 0 ELSE 1) + Cardinality(Active)
  /\ closes = IF refClient = 0 /\ phase = "stopped" THEN 1 ELSE 0

\* The indices are finitely many.
LEMMA ActiveFinite == IsFiniteSet(Active) /\ Cardinality(Active) \in Nat
<1>1. IsFiniteSet(Indices)
  BY FS_Interval, BoundAssumption DEF Indices
<1>2. Active \subseteq Indices
  BY DEF Active
<1> QED
  BY <1>1, <1>2, FS_Subset, FS_CardinalityType

\* The client is open as long as somebody has a reference.
LEMMA OpenWhileReferenced == RefInv => OpenInv
<1> SUFFICES ASSUME RefInv PROVE OpenInv
  OBVIOUS
<1>1. /\ refClient = (IF phase \in {"down", "stopped"} THEN 0 ELSE 1) + Cardinality(Active)
      /\ closes = IF refClient = 0 /\ phase = "stopped" THEN 1 ELSE 0
      /\ Cardinality(Active) \in Nat
  BY ActiveFinite DEF RefInv
<1>2. ASSUME NEW i \in Indices, dpc[i] # "no" PROVE ~Closed /\ refClient >= 1
  <2>1. Active # {}
    BY <1>2 DEF Active
  <2>2. Cardinality(Active) # 0
    BY <2>1, ActiveFinite, FS_EmptySet
  <2> QED
    BY <1>1, <2>2 DEF Closed
<1> QED
  BY <1>1, <1>2 DEF OpenInv, Closed

\* A consumer that is handed an element takes a reference for it.
LEMMA ConsumerReferences ==
  ASSUME IInv, RefInv, NEW c \in Consumers, ConsumerStep(c)
  PROVE  RefInv'
<1> USE DEF IInv, Core
<1>1. /\ UNCHANGED <<phase, closes>>
      /\ TakeEffect \/ UNCHANGED <<refClient, dpc>>
  BY ConsumerEffect DEF SkipEffect
<1>2. CASE UNCHANGED <<refClient, dpc>>
  BY <1>1, <1>2 DEF RefInv, Active
<1>3. CASE TakeEffect
  <2>1. dpc[md.r] = "no"
    BY <1>3, BoundAssumption DEF TakeEffect, DoneInv, TypeOK, Metadata
  <2>2. Active' = Active \cup {md.r} /\ md.r \notin Active
    BY <1>3, <2>1 DEF TakeEffect, Active, TypeOK
  <2>3. Cardinality(Active') = Cardinality(Active) + 1
    BY <2>2, ActiveFinite, FS_AddElement
  <2> QED
    BY <1>1, <1>3, <2>3, ActiveFinite DEF TakeEffect, RefInv, Closed
<1> QED
  BY <1>1, <1>2, <1>3

\* A completion gives its reference back when it leaves Signal.
LEMMA DoneReferences ==
  ASSUME IInv, RefInv, NEW i \in Indices, DoneStep(i)
  PROVE  RefInv'
<1> USE DEF IInv, Core
<1>1. ReleaseEffect(i) /\ phase' = phase
  BY DoneEffect
<1>2. i \in Active /\ refClient >= 1 /\ closes = 0 /\ phase # "down"
  BY <1>1 DEF ReleaseEffect, Active, OpenInv, Closed, TypeOK, PhaseInv, Serving
<1>3. CASE dpc' = [dpc EXCEPT ![i] = "no"] /\ refClient' = refClient - 1
           /\ closes' = IF refClient = 1 THEN closes + 1 ELSE closes
  <2>1. Active' = Active \ {i}
    BY <1>3 DEF Active, TypeOK
  <2>2. Cardinality(Active') = Cardinality(Active) - 1 /\ Cardinality(Active) >= 1
    BY <1>2, <2>1, ActiveFinite, FS_RemoveElement, FS_EmptySet
  <2>3. /\ phase \notin {"down", "stopped"} => refClient = 1 + Cardinality(Active)
        /\ phase \in {"down", "stopped"} => refClient = Cardinality(Active)
    BY ActiveFinite DEF RefInv
  <2> QED
    BY <1>1, <1>2, <1>3, <2>2, <2>3, ActiveFinite DEF RefInv
<1>4. CASE \E l \in {"sending", "relock"} : dpc' = [dpc EXCEPT ![i] = l] /\ UNCHANGED <<refClient, closes>>
  <2>1. Active' = Active
    BY <1>2, <1>4 DEF Active, TypeOK
  <2> QED
    BY <1>1, <1>4, <2>1 DEF RefInv
<1> QED
  BY <1>1, <1>3, <1>4 DEF ReleaseEffect

\* Start takes the reference of the queue, before there are consumers.
LEMMA StartReferences ==
  ASSUME IInv, RefInv, StartStep
  PROVE  RefInv'
<1> USE DEF IInv, Core
<1>1. ~Serving /\ (\A i \in Indices : dpc[i] = "no")
  BY DEF StartStep, Start, Requeue, RequeueDone, MigrateLegacy, Serving, PhaseInv
<1>2. /\ UNCHANGED <<dpc, closes>> /\ phase' \in {"run", "requeue", "requeueLegacy"}
      /\ refClient' = 1 \/ (Starting /\ refClient' = refClient)
  <2>1. CASE Start
    BY <2>1, Starts DEF Start, StartEffect, doneVars
  <2>2. CASE Requeue
    BY <2>2, Requeues DEF RequeueEffect, Starting
  <2>3. CASE RequeueDone \/ MigrateLegacy
    BY <2>3, Serves DEF ServeEffect
  <2> QED
    BY <2>1, <2>2, <2>3 DEF StartStep
<1>3. Active = {} /\ Active' = {} /\ Cardinality(Active) = 0
  BY <1>1, <1>2, FS_EmptySet DEF Active
<1>4. Starting => refClient = 1
  <2>1. refClient = (IF phase \in {"down", "stopped"} THEN 0 ELSE 1) + Cardinality(Active)
    BY DEF RefInv
  <2> QED
    BY <1>3, <2>1 DEF Starting
<1> QED
  BY <1>1, <1>2, <1>3, <1>4 DEF RefInv, Serving

\* Shutdown gives the reference of the queue back; the end of the process all of them.
LEMMA EndReferences ==
  ASSUME IInv, RefInv, StopRetries \/ Shutdown \/ ProcessEnds
  PROVE  RefInv'
<1>1. CASE StopRetries
  BY <1>1 DEF StopRetries, clientVars, doneVars, RefInv, Active
<1>2. CASE Shutdown
  <2>1. /\ phase = "stopping" /\ phase' = "stopped" /\ UNCHANGED dpc
        /\ refClient' = refClient - 1 /\ closes' = IF refClient = 1 THEN closes + 1 ELSE closes
    BY <1>2 DEF Shutdown, UnrefClient, doneVars
  <2>2. refClient = 1 + Cardinality(Active) /\ closes = 0 /\ Cardinality(Active) \in Nat /\ Active' = Active
    BY <2>1, ActiveFinite DEF RefInv, Active
  <2> QED
    BY <2>1, <2>2 DEF RefInv
<1>3. CASE ProcessEnds
  <2>1. phase' = "down" /\ refClient' = 0 /\ closes' = 0 /\ dpc' = [i \in Indices |-> "no"]
    BY <1>3 DEF ProcessEnds
  <2>2. Active' = {} /\ Cardinality(Active') = 0
    BY <2>1, FS_EmptySet DEF Active
  <2> QED
    BY <2>1, <2>2 DEF RefInv
<1> QED
  BY <1>1, <1>2, <1>3

\* Every step keeps the count of the references.
LEMMA ReferencesKept == IInv /\ RefInv /\ [Next]_vars => RefInv'
<1> SUFFICES ASSUME IInv, RefInv, [Next]_vars PROVE RefInv'
  OBVIOUS
<1>1. ASSUME UNCHANGED <<phase, clientVars, doneVars>> PROVE RefInv'
  BY <1>1 DEF clientVars, doneVars, RefInv, Active
<1>2. CASE UNCHANGED vars
  BY <1>1, <1>2 DEF vars
<1>3. ASSUME NEW o \in Offers, Offer(o) \/ SpaceSelectDone(o) \/ OfferStep(o)
      PROVE  UNCHANGED <<phase, clientVars, doneVars>>
  BY <1>3 DEF OfferStep, Offer, OfferWoken, SpaceSelectDone, SpaceSelectToken, SpaceCancel, SpaceDrain
<1> QED
  BY <1>1, <1>2, <1>3, StartReferences, ConsumerReferences, DoneReferences, EndReferences
  DEF Next, Terminated

\* The queue keeps its types, metadata in memory and in the storage that are well
\* formed, and a reference on the client for every user of it, over any number of
\* restarts and whichever storage calls fail.
THEOREM Invariance == Spec => [](IInv /\ RefInv)
<1>1. Init => IInv /\ RefInv
  <2>1. Active = {} /\ Cardinality(Active) = 0 => (Init => RefInv)
    BY DEF Init, RefInv
  <2>2. Init => Active = {} /\ Cardinality(Active) = 0
    BY FS_EmptySet, ZenonT(30) DEF Init, Active
  <2> QED
    BY <2>1, <2>2, InitHolds, OpenWhileReferenced DEF IInv
<1>2. IInv /\ RefInv /\ [Next]_vars => (IInv /\ RefInv)'
  <2>1. RefInv' => OpenInv'
    BY OpenWhileReferenced, PTL
  <2> QED
    BY <2>1, StepKeeps, ReferencesKept DEF IInv
<1> QED
  BY <1>1, <1>2, PTL DEF Spec

\* The client is closed exactly when Shutdown and the last completion have given up
\* their references, once.
THEOREM ReferencesCounted == Spec => []ClientReferences
<1>1. ASSUME RefInv PROVE ClientReferences
  <2>1. Active = {i \in Indices : dpc[i] # "no"} /\ Cardinality(Active) \in Nat
    BY ActiveFinite DEF Active
  <2>2. /\ refClient = (IF phase \in {"down", "stopped"} THEN 0 ELSE 1) + Cardinality(Active)
        /\ closes = IF refClient = 0 /\ phase = "stopped" THEN 1 ELSE 0
    BY <1>1 DEF RefInv
  <2>3. Serving => /\ refClient = (IF phase = "stopped" THEN 0 ELSE 1) + Cardinality(Active)
                   /\ closes = IF refClient = 0 THEN 1 ELSE 0
    BY <2>1, <2>2 DEF Serving
  <2> QED
    BY <2>1, <2>3 DEF ClientReferences
<1> QED
  BY <1>1, Invariance, PTL

(***************************************************************************)
(* Nothing is lost.  An accepted element that is not exported, and was not *)
(* hit by a failure, is kept where the next Start looks for it: at an index in *)
(* use by the metadata in the storage and, as long as the queue can write  *)
(* these again, by the ones in memory; or it has just been retrieved.      *)
(***************************************************************************)
GivenUp == IF FailOps \subseteq {"put", "finish"} THEN {} ELSE hit

StoredAt(e, I) == Found # Nil /\ \E i \in I \cap InUse(Found) : disk.items[i] = e

Kept(e) ==
  \/ phase = "down" /\ StoredAt(e, Indices)
  \/ Starting /\ (e \in Range(pending) \/ StoredAt(e, Queued(md)))
  \/ Serving /\ ~Closed /\ StoredAt(e, InUse(md))
  \/ Serving /\ Closed /\ StoredAt(e, Indices)

LossInv == \A e \in Offers : result[e] = "nil" => e \in finished \cup GivenUp \/ Kept(e)

\* The metadata in memory.
LEMMA MemoryTyped ==
  ASSUME TypeOK, MetaInv
  PROVE  md \in Metadata /\ WellFormed(md) /\ md.r \in Nat /\ md.w \in Nat /\ md.r <= md.w
<1>1. md \in Metadata /\ WellFormed(md)
  BY DEF TypeOK, MetaInv
<1>2. \A m \in Metadata : m.r \in Nat /\ m.w \in Nat
  BY BoundAssumption DEF Metadata
<1> QED
  BY <1>1, <1>2 DEF WellFormed

\* The metadata that the next Start finds are the old ones or the ones just written.
LEMMA FoundNext ==
  ASSUME TypeOK, disk' \in Disks
  PROVE  /\ disk'.meta = disk.meta /\ disk'.legacy = disk.legacy => Found' = Found
         /\ disk'.meta \in Metadata => Found' = disk'.meta /\ Found' # Nil
  BY NilAssumption DEF Found

\* While the queue serves, with an open client, an element stays stored at an index
\* that stays in use and is not written.
LEMMA StaysStored ==
  ASSUME IInv, disk' \in Disks, md' \in Metadata, WellFormed(md'), NEW e, NEW i,
         Found # Nil, i \in InUse(Found), i \in InUse(md'), disk.items[i] = e, disk'.items[i] = disk.items[i],
         \/ disk'.meta = disk.meta /\ disk'.legacy = disk.legacy
         \/ disk'.meta \in Metadata /\ InUse(md') \subseteq InUse(disk'.meta)
  PROVE  StoredAt(e, InUse(md))' /\ StoredAt(e, Indices)'
<1>1. Found' # Nil /\ i \in InUse(Found')
  BY FoundNext DEF IInv, Core
<1>2. i \in Indices
  BY InUseBelow
<1> QED
  BY <1>1, <1>2 DEF StoredAt

\* What is kept while the queue serves.
LEMMA ServingKept ==
  ASSUME Serving, NEW e, Kept(e)
  PROVE  /\ ~Closed => StoredAt(e, InUse(md))
         /\ Closed => StoredAt(e, Indices)
  BY DEF Kept, Serving, Starting

\* Offer keeps what is stored, and stores what it accepts.
LEMMA OfferLosesNothing ==
  ASSUME IInv, LossInv, NEW o \in Offers, Offer(o) \/ OfferWoken(o)
  PROVE  LossInv'
<1> USE DEF IInv, Core
<1>1. Serving /\ UNCHANGED <<phase, pending, closes, finished, hit>>
  BY DEF Offer, OfferWoken, MayCall, Serving, PhaseInv, clientVars, outcome
<1>2. UNCHANGED GivenUp /\ Serving' /\ (Closed' <=> Closed)
  BY <1>1 DEF GivenUp, Serving, Closed
<1>3. CASE Put(o)
  <2>1. PutEffect(o)
    BY <1>3, Putting
  <2>2. md \in Metadata /\ WellFormed(md) /\ md.r \in Nat /\ md.w \in Nat
    BY MemoryTyped
  <2>3. InUse(md') = InUse(md) \cup {md.w} /\ md.w \notin InUse(md) /\ InUse(md) \subseteq Indices
    <3>1. md.w \notin InUse(md) /\ InUse(md) \subseteq Indices
      BY <2>2, InUseBelow
    <3>2. md.r..((md.w + 1) - 1) = (md.r..(md.w - 1)) \cup {md.w}
      BY <2>1, <2>2 DEF PutEffect, WellFormed
    <3> QED
      BY <2>1, <3>1, <3>2 DEF PutEffect, InUse, Queued
  <2>4. ASSUME NEW e \in Offers, result'[e] = "nil"
        PROVE  e \in finished' \cup GivenUp' \/ Kept(e)'
    <3>1. CASE Closed
      <4>1. result[e] = "nil" /\ disk' = disk
        BY <2>1, <2>4, <3>1 DEF PutEffect, TypeOK
      <4>2. e \in finished \cup GivenUp \/ StoredAt(e, Indices)
        BY <1>1, <3>1, <4>1, ServingKept DEF LossInv
      <4>3. StoredAt(e, Indices) => StoredAt(e, Indices)'
        BY <4>1 DEF StoredAt, Found
      <4> QED
        BY <1>1, <1>2, <3>1, <4>2, <4>3 DEF Kept
    <3>2. CASE ~Closed /\ e = o /\ result[e] # "nil"
      <4>1. disk'.meta = md' /\ disk'.items = With(disk.items, md.w, o) /\ md' \in Metadata /\ disk' \in Disks
        BY <2>1, <2>4, <3>2 DEF PutEffect, TypeOK
      <4>2. Found' = md' /\ Found' # Nil
        BY <4>1, FoundNext
      <4>3. disk'.items[md.w] = o
        BY <2>1, <4>1 DEF With, PutEffect, TypeOK
      <4>4. StoredAt(e, InUse(md))'
        BY <2>3, <3>2, <4>2, <4>3 DEF StoredAt
      <4> QED
        BY <1>2, <3>2, <4>4 DEF Kept
    <3>3. CASE ~Closed /\ result[e] = "nil"
      <4>1. e \in finished \cup GivenUp \/ StoredAt(e, InUse(md))
        BY <1>1, <3>3, ServingKept DEF LossInv
      <4>2. ASSUME StoredAt(e, InUse(md)) PROVE StoredAt(e, InUse(md))'
        <5>1. PICK i \in InUse(md) \cap InUse(Found) : disk.items[i] = e
          BY <4>2 DEF StoredAt
        <5>2. disk'.items[i] = disk.items[i] /\ i \in InUse(md')
          BY <2>1, <2>3, <5>1 DEF PutEffect, With, TypeOK
        <5> QED
          BY <2>1, <4>2, <5>1, <5>2, StaysStored DEF PutEffect, StoredAt
      <4> QED
        BY <1>1, <1>2, <3>3, <4>1, <4>2 DEF Kept
    <3> QED
      BY <2>1, <2>4, <3>1, <3>2, <3>3 DEF PutEffect, TypeOK
  <2> QED
    BY <2>4 DEF LossInv
<1>4. CASE ~Put(o)
  <2>1. UNCHANGED <<md, disk>> /\ \A e \in Offers : result'[e] = "nil" => result[e] = "nil"
    BY <1>4 DEF Offer, OfferWoken, WaitForSpace, Return, TypeOK
  <2> QED
    BY <1>1, <1>2, <2>1 DEF LossInv, Kept, StoredAt, Found, Starting, Serving
<1> QED
  BY <1>3, <1>4

\* A step of a consumer keeps what is stored, or gives it up with an error.
LEMMA ConsumerLosesNothing ==
  ASSUME IInv, LossInv, NEW c \in Consumers, ConsumerStep(c)
  PROVE  LossInv'
<1> USE DEF IInv, Core
<1>1. /\ UNCHANGED <<phase, pending, closes, opc, result, finished, crashes>>
      /\ \/ TakeEffect \/ SkipEffect
         \/ UNCHANGED <<md, disk, refClient, dpc, item, hit, fails>>
  BY ConsumerEffect
<1>2. Serving
  <2>1. cpc[c] # "exited"
    BY DEF ConsumerStep, Read, ReadOn, ReadSend, ReadRelock, ConsumeReturns
  <2> QED
    BY <2>1 DEF PhaseInv
<1>3. Serving' /\ (Closed' <=> Closed) /\ (hit' = hit => GivenUp' = GivenUp)
  BY <1>1, <1>2 DEF Serving, Closed, GivenUp
<1>4. CASE UNCHANGED <<md, disk, refClient, dpc, item, hit, fails>>
  BY <1>1, <1>3, <1>4 DEF LossInv, Kept, StoredAt, Found, Starting, Serving
<1>5. CASE TakeEffect
  <2>1. ASSUME NEW e \in Offers, StoredAt(e, InUse(md)) PROVE StoredAt(e, InUse(md))'
    <3>1. PICK i \in InUse(md) \cap InUse(Found) : disk.items[i] = e
      BY <2>1 DEF StoredAt
    <3> QED
      BY <1>5, <2>1, <3>1, StaysStored DEF TakeEffect, StoredAt
  <2>2. ~Closed /\ hit' = hit
    BY <1>5 DEF TakeEffect
  <2> QED
    BY <1>1, <1>2, <1>3, <2>1, <2>2, ServingKept DEF LossInv, Kept
<1>6. CASE SkipEffect
  <2>1. ASSUME NEW e \in Offers, result[e] = "nil"
        PROVE  e \in finished' \cup GivenUp' \/ Kept(e)'
    <3>1. GivenUp \subseteq GivenUp'
      BY <1>6 DEF SkipEffect, GivenUp
    <3>2. CASE Closed
      <4>1. disk' = disk
        BY <1>6, <3>2 DEF SkipEffect
      <4>2. StoredAt(e, Indices) => StoredAt(e, Indices)'
        BY <4>1 DEF StoredAt, Found
      <4> QED
        BY ZenonT(30), <1>1, <1>2, <1>3, <2>1, <3>1, <3>2, <4>2, ServingKept DEF LossInv, Kept
    <3>3. CASE ~Closed /\ StoredAt(e, InUse(md))
      <4>1. PICK i \in InUse(md) \cap InUse(Found) : disk.items[i] = e
        BY <3>3 DEF StoredAt
      <4>2. CASE i = md.r
        <5>1. e # Nil /\ "get" \in FailOps /\ e \in hit'
          BY <1>6, <3>3, <4>1, <4>2, NilAssumption DEF SkipEffect
        <5> QED
          BY <5>1 DEF GivenUp
      <4>3. CASE i # md.r
        <5>1. i \in Indices
          BY ZenonT(30), <4>1, InUseBelow DEF TypeOK, MetaInv
        <5>2. disk'.items[i] = disk.items[i] /\ i \in InUse(md')
          BY ZenonT(30), <1>6, <4>1, <4>3, <5>1 DEF SkipEffect, With, TypeOK
        <5>3. StoredAt(e, InUse(md))'
          BY <1>6, <3>3, <4>1, <5>2, StaysStored DEF SkipEffect, StoredAt
        <5> QED
          BY <1>3, <3>3, <5>3 DEF Kept
      <4> QED
        BY <4>2, <4>3
    <3> QED
      BY ZenonT(30), <1>1, <1>2, <2>1, <3>1, <3>2, <3>3, ServingKept DEF LossInv
  <2> QED
    BY <1>1, <2>1 DEF LossInv
<1> QED
  BY <1>1, <1>4, <1>5, <1>6

\* A completion removes its own element only.
LEMMA DoneLosesNothing ==
  ASSUME IInv, LossInv, NEW i \in Indices, DoneStep(i)
  PROVE  LossInv'
<1> USE DEF IInv, Core
<1>1. /\ ReleaseEffect(i)
      /\ UNCHANGED <<phase, pending, opc, result, cpc, hit, crashes>>
      /\ FinishEffect(i) \/ UNCHANGED <<md, disk, finished, fails>>
  BY DoneEffect
<1>2. Serving /\ Serving' /\ ~Closed /\ GivenUp' = GivenUp
  BY <1>1 DEF OpenInv, ReleaseEffect, PhaseInv, Serving, GivenUp
<1>3. ASSUME NEW e \in Offers, result[e] = "nil"
      PROVE  e \in finished' \cup GivenUp' \/ (StoredAt(e, InUse(md))' /\ StoredAt(e, Indices)')
  <2>1. e \in finished \cup GivenUp \/ StoredAt(e, InUse(md))
    BY <1>2, <1>3, ServingKept DEF LossInv
  <2>2. finished \subseteq finished'
    <3>1. CASE FinishEffect(i)
      BY <3>1 DEF FinishEffect
    <3> QED
      BY <1>1, <3>1
  <2>3. CASE StoredAt(e, InUse(md))
    <3>1. PICK j \in InUse(md) \cap InUse(Found) : disk.items[j] = e
      BY <2>3 DEF StoredAt
    <3>2. j \in Indices
      BY <3>1, InUseBelow DEF TypeOK, MetaInv
    <3>3. CASE UNCHANGED <<md, disk, finished, fails>>
      <4>1. Found' = Found /\ disk' = disk /\ md' = md
        BY <3>3 DEF Found
      <4> QED
        BY <2>3, <3>1, <3>2, <4>1 DEF StoredAt
    <3>4. CASE FinishEffect(i) /\ j = i
      <4>1. dpc[i] = "inflight" /\ finished' = finished \cup ({item[i]} \ {Nil})
        BY ZenonT(30), <3>4 DEF FinishEffect
      <4>2. item[i] = e /\ e # Nil
        BY ZenonT(30), <3>1, <3>4, <4>1, NilAssumption DEF DoneInv
      <4> QED
        BY ZenonT(30), <4>1, <4>2
    <3>5. CASE FinishEffect(i) /\ j # i
      <4>1. disk'.items[j] = disk.items[j] /\ j \in InUse(md')
        BY <3>1, <3>2, <3>5 DEF FinishEffect, With, InUse, Queued, TypeOK
      <4> QED
        BY ZenonT(30), <2>3, <3>1, <3>5, <4>1, StaysStored DEF FinishEffect, StoredAt
    <3> QED
      BY <1>1, <3>3, <3>4, <3>5
  <2>4. CASE e \in finished \cup GivenUp
    BY <1>2, <2>2, <2>4
  <2> QED
    BY <2>1, <2>3, <2>4
<1> QED
  BY <1>1, <1>2, <1>3 DEF LossInv, Kept

\* The elements of a list without its first one.
LEMMA TailRange ==
  ASSUME NEW s \in Seq(Elements), s # <<>>
  PROVE  Range(s) = {Head(s)} \cup Range(Tail(s)) /\ Tail(s) \in Seq(Elements)
<1>1. /\ Len(s) \in Nat /\ Len(s) >= 1 /\ Tail(s) \in Seq(Elements) /\ Head(s) = s[1]
      /\ Len(Tail(s)) = Len(s) - 1 /\ \A k \in 1..(Len(s) - 1) : Tail(s)[k] = s[k + 1]
  OBVIOUS
<1>2. DOMAIN s = 1..Len(s) /\ DOMAIN Tail(s) = 1..(Len(s) - 1) /\ 1 \in 1..Len(s)
  BY <1>1
<1>3. ASSUME NEW x \in Range(s) PROVE x = Head(s) \/ x \in Range(Tail(s))
  <2>1. PICK k \in 1..Len(s) : s[k] = x
    BY <1>2, <1>3 DEF Range
  <2>2. CASE k # 1
    <3>1. k - 1 \in 1..(Len(s) - 1) /\ (k - 1) + 1 = k
      BY <1>1, <2>2
    <3>2. Tail(s)[k - 1] = x
      BY <1>1, <2>1, <3>1
    <3> QED
      BY <1>2, <3>1, <3>2, ZenonT(30) DEF Range
  <2> QED
    BY <1>1, <2>1, <2>2
<1>4. ASSUME NEW x \in Range(Tail(s)) PROVE x \in Range(s)
  <2>1. PICK k \in 1..(Len(s) - 1) : Tail(s)[k] = x
    BY <1>2, <1>4 DEF Range
  <2>2. k + 1 \in 1..Len(s) /\ s[k + 1] = x
    BY <1>1, <2>1
  <2> QED
    BY <1>2, <2>2 DEF Range
<1>5. Head(s) \in Range(s)
  BY <1>1, <1>2 DEF Range
<1> QED
  BY <1>1, <1>3, <1>4, <1>5

\* Start finds every accepted element, or cannot read it.
LEMMA StartLosesNothing ==
  ASSUME IInv, LossInv, Start
  PROVE  LossInv'
<1> USE DEF IInv, Core
<1>1. StartEffect /\ (fails' = fails => StartWell)
  BY Starts
<1>2. phase = "down" /\ UNCHANGED <<closes, result, finished>>
  BY DEF Start
<1>3. ~Closed' /\ Found' = Found
  <2>1. ~Closed
    BY <1>2 DEF OpenInv
  <2>2. Found' = Found
    BY <1>1, FoundNext DEF StartEffect
  <2> QED
    BY <1>2, <2>1, <2>2 DEF Closed
<1>4. ASSUME NEW e \in Offers, result[e] = "nil"
      PROVE  e \in finished' \cup GivenUp' \/ Kept(e)'
  <2>1. GivenUp \subseteq GivenUp'
    BY ZenonT(30), <1>1 DEF StartEffect, GivenUp
  <2>2. CASE StoredAt(e, Indices)
    <3>1. PICK i \in Indices \cap InUse(Found) : disk.items[i] = e
      BY <2>2 DEF StoredAt
    <3>2. Found # Nil /\ Found \in Metadata /\ e # Nil
      BY ZenonT(30), <2>2, NilAssumption DEF StoredAt, Found, TypeOK
    <3>3. CASE e \in At(Queued(md'))
      <4>1. PICK j \in Queued(md') : disk.items[j] = e
        BY ZenonT(30), <3>3 DEF At
      <4>2. j \in InUse(Found) /\ disk'.items[j] = e
        BY ZenonT(30), <1>1, <3>2, <4>1 DEF StartEffect
      <4>3. StoredAt(e, Queued(md))' /\ StoredAt(e, InUse(md))'
        <5>1. j \in InUse(md')
          BY ZenonT(30), <4>1 DEF InUse, Queued
        <5> QED
          BY ZenonT(30), <1>3, <3>2, <4>1, <4>2, <5>1 DEF StoredAt
      <4> QED
        BY <1>1, <1>3, <4>3 DEF StartEffect, Kept, Starting, Serving
    <3>4. CASE e \in Range(pending')
      <4>1. pending' # <<>>
        <5>1. Range(<<>>) = {}
          BY DEF Range
        <5> QED
          BY ZenonT(30), <3>4, <5>1
      <4> QED
        BY <1>1, <3>4, <4>1 DEF StartEffect, Kept, Starting
    <3>5. CASE e \notin At(Queued(md')) \cup Range(pending')
      <4>1. fails' # fails
        <5>1. SUFFICES ASSUME fails' = fails PROVE FALSE
          BY ZenonT(30)
        <5>2. /\ md'.r = Found.r /\ md'.w = Found.w /\ pending' = Retrieved(Found.cdi)
          BY <1>1, <3>2, <5>1 DEF StartWell
        <5>3. Queued(md') = Queued(Found)
          BY <5>2 DEF Queued
        <5>4. i \in Range(Found.cdi)
          BY <3>1, <3>2, <3>5, <5>3, ZenonT(30) DEF InUse, At
        <5>5. PICK k \in 1..Len(Found.cdi) : Found.cdi[k] = i
          BY <3>2, <5>4 DEF Range, Metadata
        <5>6. e \in Range(Retrieved(Found.cdi))
          <6>1. Retrieved(Found.cdi)[k] = e /\ k \in DOMAIN Retrieved(Found.cdi)
            BY <3>1, <5>5 DEF Retrieved
          <6> QED
            BY <6>1 DEF Range
        <5> QED
          BY <3>5, <5>2, <5>6
      <4>2. e \in Recoverable
        BY <3>1, <3>2, ZenonT(30) DEF Recoverable, At
      <4> QED
        BY ZenonT(30), <1>1, <3>5, <4>1, <4>2 DEF StartEffect, GivenUp
    <3> QED
      BY <3>3, <3>4, <3>5
  <2>3. CASE e \in finished \cup GivenUp
    BY <1>2, <2>1, <2>3
  <2> QED
    BY ZenonT(30), <1>2, <1>4, <2>2, <2>3 DEF LossInv, Kept, Starting, Serving
<1> QED
  BY <1>2, <1>4 DEF LossInv

\* Every retrieved element goes back into the queue, or could not be written.
LEMMA RequeueLosesNothing ==
  ASSUME IInv, LossInv, Requeue
  PROVE  LossInv'
<1> USE DEF IInv, Core
<1>1. RequeueEffect /\ UNCHANGED <<phase, closes, result, finished>>
  BY Requeues
<1>2. Starting /\ Starting' /\ pending' = Tail(pending)
      /\ Range(pending) = {Head(pending)} \cup Range(pending')
  BY ZenonT(30), <1>1, TailRange DEF RequeueEffect, Starting, TypeOK
<1>3. CASE Head(pending) = Nil /\ UNCHANGED <<md, disk, fails, hit>>
  <2>1. Found' = Found /\ disk' = disk /\ md' = md /\ GivenUp' = GivenUp
    BY <1>3 DEF Found, GivenUp
  <2>2. \A e \in Offers : e \in Range(pending) => e \in Range(pending')
    BY <1>2, <1>3, NilAssumption
  <2> QED
    BY <1>1, <1>2, <2>1, <2>2 DEF LossInv, Kept, StoredAt, Starting, Serving
<1>4. CASE ~(Head(pending) = Nil /\ UNCHANGED <<md, disk, fails, hit>>)
  <2>1. /\ Head(pending) \in Offers
        /\ md.w \in Indices
        /\ md' \in Metadata /\ WellFormed(md')
        /\ md'.r = md.r /\ md'.w = md.w + 1 /\ md'.cdi = md.cdi
        /\ disk' \in Disks
        /\ disk'.legacy = disk.legacy
        /\ disk'.meta \in {disk.meta, md'}
        /\ disk'.items \in {disk.items, With(disk.items, md.w, Head(pending))}
        /\ \/ /\ disk'.meta = md' /\ disk'.items = With(disk.items, md.w, Head(pending))
              /\ hit' = hit
           \/ "recover" \in FailOps /\ hit' = hit \cup {Head(pending)}
    BY <1>1, <1>4 DEF RequeueEffect
  <2>2. md \in Metadata /\ WellFormed(md) /\ md.r \in Nat /\ md.w \in Nat /\ md.r <= md.w
    BY MemoryTyped
  <2>3. Queued(md') = Queued(md) \cup {md.w} /\ md.w \notin Queued(md) /\ Queued(md) \subseteq Indices
        /\ Queued(md') \subseteq InUse(md')
    <3>1. md.w \notin InUse(md) /\ InUse(md) \subseteq Indices
      BY <2>2, InUseBelow
    <3>2. md.r..((md.w + 1) - 1) = (md.r..(md.w - 1)) \cup {md.w}
      BY <2>2
    <3> QED
      BY <2>1, <3>1, <3>2 DEF InUse, Queued
  <2>4. disk'.meta = md' => Found' = md' /\ Found' # Nil
    BY <2>1, FoundNext
  <2>5. disk'.meta = disk.meta => Found' = Found
    BY <2>1, FoundNext
  <2>6. ASSUME NEW e \in Offers, StoredAt(e, Queued(md)) PROVE StoredAt(e, Queued(md))'
    <3>1. PICK i \in Queued(md) \cap InUse(Found) : disk.items[i] = e /\ Found # Nil
      BY ZenonT(30), <2>6 DEF StoredAt
    <3>2. disk'.items[i] = disk.items[i] /\ i \in Queued(md') /\ i \in InUse(md')
      BY <2>1, <2>3, <3>1 DEF With, TypeOK
    <3> QED
      BY <2>1, <2>4, <2>5, <3>1, <3>2 DEF StoredAt
  <2>7. ASSUME NEW e \in Offers, e = Head(pending) PROVE e \in GivenUp' \/ StoredAt(e, Queued(md))'
    <3>1. CASE /\ disk'.meta = md' /\ disk'.items = With(disk.items, md.w, Head(pending))
      <4>1. disk'.items[md.w] = Head(pending)
        BY <2>1, <3>1 DEF With, TypeOK
      <4> QED
        BY ZenonT(30), <2>3, <2>4, <2>7, <3>1, <4>1 DEF StoredAt
    <3>2. CASE "recover" \in FailOps /\ hit' = hit \cup {Head(pending)}
      BY ZenonT(30), <2>7, <3>2 DEF GivenUp
    <3> QED
      BY <2>1, <3>1, <3>2, ZenonT(30)
  <2>8. GivenUp \subseteq GivenUp'
    BY <2>1 DEF GivenUp
  <2>9. ASSUME NEW e \in Offers, result[e] = "nil"
        PROVE  e \in finished' \cup GivenUp' \/ Kept(e)'
    <3>1. \/ e \in finished \cup GivenUp
          \/ e \in Range(pending) \/ StoredAt(e, Queued(md))
      BY <1>2, <2>9 DEF LossInv, Kept, Starting, Serving
    <3>2. CASE e \in finished \cup GivenUp
      BY <1>1, <2>8, <3>2
    <3>3. CASE e \in Range(pending)
      BY <1>2, <2>7, <3>3 DEF Kept
    <3>4. CASE StoredAt(e, Queued(md))
      BY <1>2, <2>6, <3>4 DEF Kept
    <3> QED
      BY <3>1, <3>2, <3>3, <3>4
  <2> QED
    BY ZenonT(30), <1>1, <2>9 DEF LossInv
<1> QED
  BY <1>3, <1>4

\* At the end of Start everything that is kept is in the queue.
LEMMA ServeLosesNothing ==
  ASSUME IInv, LossInv, RequeueDone \/ MigrateLegacy
  PROVE  LossInv'
<1> USE DEF IInv, Core
<1>1. ServeEffect /\ UNCHANGED <<closes, result, finished, hit>>
  BY ZenonT(30), Serves
<1>2. Starting /\ Serving' /\ ~Closed' /\ GivenUp' = GivenUp
  <2>1. ~Closed
    BY <1>1 DEF OpenInv, ServeEffect, Starting
  <2> QED
    BY ZenonT(30), <1>1, <2>1 DEF ServeEffect, Serving, Closed, GivenUp
<1>3. Queued(md') = Queued(md) /\ Queued(md') \subseteq InUse(md')
  BY <1>1 DEF ServeEffect, Queued, InUse
<1>4. md \in Metadata
  BY DEF TypeOK
<1>5. ASSUME NEW e \in Offers, StoredAt(e, Queued(md)) PROVE StoredAt(e, InUse(md))'
  <2>1. PICK i \in Queued(md) \cap InUse(Found) : disk.items[i] = e /\ Found # Nil
    BY <1>5 DEF StoredAt
  <2>2. disk'.items[i] = e /\ i \in InUse(md')
    BY ZenonT(30), <1>1, <1>3, <2>1 DEF ServeEffect
  <2>3. Found' = Found \/ (Found' = md' /\ Found' # Nil)
    <3>1. disk' \in Disks
      BY <1>1 DEF ServeEffect
    <3>2. CASE disk'.meta = disk.meta /\ disk'.legacy = disk.legacy
      BY <3>1, <3>2, FoundNext
    <3>3. CASE disk'.meta = md /\ md' = md
      BY <1>4, <3>1, <3>3, FoundNext
    <3> QED
      BY ZenonT(30), <1>1, <3>2, <3>3 DEF ServeEffect
  <2> QED
    BY <2>1, <2>2, <2>3 DEF StoredAt
<1>6. \A e : e \notin Range(pending)
  BY <1>1 DEF ServeEffect, Range
<1> QED
  BY <1>1, <1>2, <1>5, <1>6 DEF LossInv, Kept, Starting, Serving

\* Shutdown, and the end of a process that has started, leave the storage alone.
LEMMA EndLosesNothing ==
  ASSUME IInv, LossInv, ~CrashInStart, StopRetries \/ Shutdown \/ ProcessEnds
  PROVE  LossInv'
<1> USE DEF IInv, Core
<1>1. UNCHANGED <<disk, finished, hit>> /\ Serving
  BY DEF StopRetries, Shutdown, ProcessEnds, outcome, Serving
<1>2. Found' = Found /\ GivenUp' = GivenUp
  BY <1>1 DEF Found, GivenUp
<1>3. InUse(md) \subseteq Indices
  BY InUseBelow DEF TypeOK, MetaInv
<1>4. \A e \in Offers : result'[e] = "nil" => result[e] = "nil"
  BY DEF StopRetries, Shutdown, ProcessEnds, TypeOK
<1>5. CASE StopRetries \/ Shutdown
  <2>1. md' = md /\ Serving' /\ (Closed => Closed')
    BY <1>5 DEF StopRetries, Shutdown, Serving, Closed, clientVars, UnrefClient, TypeOK
  <2>2. ASSUME NEW e \in Offers, Kept(e) PROVE Kept(e)'
    <3>1. StoredAt(e, InUse(md)) => StoredAt(e, Indices)
      BY <1>3 DEF StoredAt
    <3>2. /\ StoredAt(e, InUse(md)) => StoredAt(e, InUse(md))'
          /\ StoredAt(e, Indices) => StoredAt(e, Indices)'
      BY ZenonT(30), <1>1, <1>2, <2>1 DEF StoredAt
    <3> QED
      BY <1>1, <2>1, <2>2, <3>1, <3>2, ServingKept DEF Kept
  <2> QED
    BY ZenonT(30), <1>1, <1>2, <1>4, <2>2 DEF LossInv
<1>6. CASE ProcessEnds
  <2>1. phase' = "down"
    BY <1>6 DEF ProcessEnds
  <2>2. ASSUME NEW e \in Offers, Kept(e) PROVE Kept(e)'
    <3>1. StoredAt(e, Indices)
      BY <1>1, <1>3, <2>2, ServingKept DEF StoredAt
    <3>2. StoredAt(e, Indices)'
      BY <1>1, <1>2, <3>1 DEF StoredAt
    <3> QED
      BY ZenonT(30), <2>1, <3>2 DEF Kept
  <2> QED
    BY <1>1, <1>2, <1>4, <2>2 DEF LossInv
<1> QED
  BY <1>5, <1>6

\* What an earlier version has accepted is listed in its metadata.
LEMMA LegacyKept == Init => LossInv
<1> SUFFICES ASSUME Init, NEW e \in Offers, result[e] = "nil" PROVE Kept(e)
  BY DEF LossInv
<1> USE DEF Init
<1>1. e \in Range(Legacy) /\ phase = "down"
  OBVIOUS
<1>2. PICK k \in 1..Len(Legacy) : Legacy[k] = e
  BY <1>1, LegacyAssumption DEF Range
<1>3. Legacy # <<>> /\ Len(Legacy) \in Nat /\ Len(Legacy) <= MaxIndex
  BY <1>2, LegacyAssumption
<1>4. k - 1 \in Indices /\ disk.items[k - 1] = e
  <2>1. k - 1 \in Indices /\ k - 1 < Len(Legacy) /\ (k - 1) + 1 = k
    BY <1>2, <1>3, BoundAssumption DEF Indices
  <2> QED
    BY <1>2, <2>1
<1>5. disk.meta = Nil /\ disk.legacy = LegacyMetadata
  BY <1>3 DEF LegacyMetadata
<1>8. Found = LegacyMetadata /\ Found # Nil
  BY <1>3, <1>5, LegacyFormat, NilAssumption DEF Found
<1>9. k - 1 \in InUse(Found)
  <2>1. Found.r = 1 /\ Found.w = Len(Legacy) /\ Range(Found.cdi) = {0}
    BY <1>3, <1>8, LegacyFormat
  <2>2. k - 1 = 0 \/ k - 1 \in 1..(Len(Legacy) - 1)
    BY <1>2, <1>3
  <2> QED
    BY <2>1, <2>2 DEF InUse, Queued
<1> QED
  BY <1>1, <1>4, <1>8, <1>9 DEF Kept, StoredAt

\* Every step keeps LossInv, unless the process may end inside Start.
LEMMA NothingLost ==
  ASSUME ~CrashInStart
  PROVE  IInv /\ LossInv /\ [Next]_vars => LossInv'
<1> SUFFICES ASSUME IInv, LossInv, [Next]_vars PROVE LossInv'
  BY ZenonT(30)
<1>1. ASSUME UNCHANGED <<phase, md, disk, pending, closes, finished, hit>>,
             \A o \in Offers : result'[o] = "nil" => result[o] = "nil"
      PROVE  LossInv'
  <2>1. Found' = Found /\ GivenUp' = GivenUp /\ (Closed' <=> Closed)
    BY ZenonT(30), <1>1 DEF Found, GivenUp, Closed
  <2> QED
    BY <1>1, <2>1 DEF LossInv, Kept, StoredAt, Starting, Serving
<1>2. ASSUME NEW o \in Offers,
             SpaceSelectDone(o) \/ SpaceSelectToken(o) \/ SpaceCancel(o) \/ SpaceDrain(o)
      PROVE  LossInv'
  <2>1. UNCHANGED <<phase, md, disk, pending, closes, finished, hit>>
    BY ZenonT(30), <1>2 DEF SpaceSelectDone, SpaceSelectToken, SpaceCancel, SpaceDrain, clientVars, outcome
  <2>2. \A e \in Offers : result'[e] = "nil" => result[e] = "nil"
    BY ZenonT(30), <1>2 DEF SpaceSelectDone, SpaceSelectToken, SpaceCancel, SpaceDrain, Return, IInv, Core, TypeOK
  <2> QED
    BY ZenonT(30), <1>1, <2>1, <2>2
<1>3. CASE UNCHANGED vars
  BY <1>1, <1>3 DEF vars, clientVars, outcome
<1> QED
  BY <1>2, <1>3, StartLosesNothing, RequeueLosesNothing, ServeLosesNothing, OfferLosesNothing,
     ConsumerLosesNothing, DoneLosesNothing, EndLosesNothing
  DEF Next, StartStep, OfferStep, Terminated

\* What is kept is where the next Start looks for it.
LEMMA KeptIsRecoverable ==
  ASSUME NEW e \in Offers, Kept(e)
  PROVE  e \in Recoverable \cup Range(pending)
  BY NilAssumption DEF Kept, StoredAt, Recoverable, At

\* Whichever storage calls fail, in whatever combination, an accepted element is
\* exported or kept, unless a later call for this very element failed (getNextItem,
\* enqueueNotDispatchedReqs, putInternal), or the process ends inside Start.
THEOREM LossStaysLocal == ~CrashInStart => (Spec => []NoCollateralLoss)
<1> SUFFICES ASSUME ~CrashInStart PROVE Spec => []NoCollateralLoss
  OBVIOUS
<1>1. LossInv => NoCollateralLoss
  BY KeptIsRecoverable DEF LossInv, NoCollateralLoss, GivenUp
<1>2. Init => LossInv
  BY LegacyKept
<1>3. IInv /\ LossInv /\ [Next]_vars => LossInv'
  BY NothingLost
<1> QED
  BY <1>1, <1>2, <1>3, Invariance, PTL DEF Spec

\* As long as only the calls of Offer and of the completions fail, an accepted
\* element is kept until it is exported.
THEOREM AcceptedIsKept ==
  ~CrashInStart /\ FailOps \subseteq {"put", "finish"} => (Spec => []NoLoss)
<1> SUFFICES ASSUME ~CrashInStart, FailOps \subseteq {"put", "finish"} PROVE Spec => []NoLoss
  OBVIOUS
<1>1. LossInv => NoLoss
  BY KeptIsRecoverable DEF LossInv, NoLoss, GivenUp
<1>2. Init => LossInv
  BY LegacyKept
<1>3. IInv /\ LossInv /\ [Next]_vars => LossInv'
  BY NothingLost
<1> QED
  BY <1>1, <1>2, <1>3, Invariance, PTL DEF Spec
=============================================================================
