----------------------- MODULE PersistentQueueSteps ------------------------
(***************************************************************************)
(* What each step of the persistent queue does to the metadata, to the     *)
(* storage and to the completions, whichever storage calls fail, and the   *)
(* invariant that the steps rely on and keep.  PersistentQueueProofs       *)
(* concludes from it.                                                      *)
(***************************************************************************)
EXTENDS PersistentQueue, TLAPS

\* The provers of a step, in this order, and their time in seconds.
USE SMTT(30), ZenonT(30), Z3T(30)

Disks == [meta : Metadata \cup {Nil}, legacy : Metadata \cup {Nil}, items : [Indices -> Elements]]
Outcomes == [disk : Disks, fails : 0..MaxFailures, ok : BOOLEAN]

Starting == phase \in {"requeue", "requeueLegacy"}

(***************************************************************************)
(* The metadata.                                                           *)
(***************************************************************************)
\* Dispatched indices are below the read index, and listed once.
WellFormed(m) ==
  /\ m.r <= m.w
  /\ Range(m.cdi) \subseteq 0..(m.r - 1)
  /\ \A j, k \in 1..Len(m.cdi) : m.cdi[j] = m.cdi[k] => j = k

\* What is in use lies below the write index.
LEMMA InUseBelow ==
  ASSUME NEW m \in Metadata, WellFormed(m)
  PROVE  InUse(m) \subseteq 0..(m.w - 1) /\ InUse(m) \subseteq Indices
<1>1. m.r \in Nat /\ m.w \in Nat /\ m.w <= MaxIndex /\ m.r <= m.w
  BY BoundAssumption DEF Metadata, WellFormed
<1>2. Range(m.cdi) \subseteq 0..(m.r - 1)
  BY DEF WellFormed
<1> QED
  BY <1>1, <1>2, BoundAssumption DEF InUse, Queued, Indices

\* Appending an index: getNextItem.
LEMMA Dispatch ==
  ASSUME NEW m \in Metadata, WellFormed(m), m.r # m.w
  PROVE  LET t == [m EXCEPT !.r = @ + 1, !.cdi = Append(@, m.r)] IN
         /\ t \in Metadata /\ WellFormed(t) /\ t.r = m.r + 1 /\ t.w = m.w /\ t.used = m.used
         /\ Range(t.cdi) = Range(m.cdi) \cup {m.r} /\ InUse(t) = InUse(m)
         /\ m.r \in Indices /\ m.r \notin Range(m.cdi)
<1> DEFINE t == [m EXCEPT !.r = @ + 1, !.cdi = Append(@, m.r)]
<1>1. m.r \in 0..MaxIndex /\ m.w \in 0..MaxIndex /\ m.r < m.w /\ m.cdi \in Seq(Indices)
  BY BoundAssumption DEF Metadata, WellFormed
<1>2. m.r \in Indices
  BY <1>1, BoundAssumption DEF Indices
<1>3. t.cdi = Append(m.cdi, m.r) /\ t.r = m.r + 1 /\ t.w = m.w /\ t.used = m.used
  BY DEF Metadata
<1>4. Append(m.cdi, m.r) \in Seq(Indices) /\ Len(Append(m.cdi, m.r)) = Len(m.cdi) + 1
  BY <1>1, <1>2
<1>5. t \in Metadata
  <2>1. m.r + 1 \in 0..MaxIndex
    BY <1>1, BoundAssumption
  <2> QED
    BY <1>1, <1>4, <2>1, ZenonT(30) DEF Metadata
<1>6. \A k \in 1..Len(m.cdi) : Append(m.cdi, m.r)[k] = m.cdi[k]
  BY <1>1, <1>2
<1>7. Append(m.cdi, m.r)[Len(m.cdi) + 1] = m.r
  BY <1>1, <1>2
<1>8. Range(t.cdi) = Range(m.cdi) \cup {m.r}
  BY <1>1, <1>3, <1>4, <1>6, <1>7 DEF Range
<1>9. m.r \notin Range(m.cdi) /\ \A k \in 1..Len(m.cdi) : m.cdi[k] # m.r
  BY <1>1 DEF WellFormed, Range
<1>10. WellFormed(t)
  <2>1. Range(t.cdi) \subseteq 0..(t.r - 1)
    BY <1>1, <1>3, <1>8 DEF WellFormed
  <2>2. \A j, k \in 1..Len(t.cdi) : t.cdi[j] = t.cdi[k] => j = k
    BY <1>1, <1>3, <1>4, <1>6, <1>7, <1>9 DEF WellFormed
  <2> QED
    BY <1>1, <1>3, <2>1, <2>2 DEF WellFormed
<1>11. InUse(t) = InUse(m)
  BY <1>1, <1>3, <1>8 DEF InUse, Queued
<1> QED
  BY <1>2, <1>3, <1>5, <1>8, <1>9, <1>10, <1>11

\* Taking an index out: the others stay.
LEMMA Removal ==
  ASSUME NEW m \in Metadata, WellFormed(m), NEW i \in Indices
  PROVE  LET u == Undispatch(m, i) IN
         /\ u \in Metadata /\ WellFormed(u) /\ u.r = m.r /\ u.w = m.w
         /\ Range(u.cdi) = Range(m.cdi) \ {i}
         /\ u.used = IF m.r = m.w /\ Range(m.cdi) \subseteq {i} THEN 0 ELSE m.used
<1> DEFINE n == Len(m.cdi)
           cdi == IF i \notin Range(m.cdi) THEN m.cdi
                  ELSE [k \in 1..(n - 1) |-> IF m.cdi[k] = i THEN m.cdi[n] ELSE m.cdi[k]]
<1>1. /\ m.cdi \in Seq(Indices) /\ n \in Nat /\ DOMAIN m.cdi = 1..n
      /\ \A k \in 1..n : m.cdi[k] \in Indices
      /\ \A j, k \in 1..n : m.cdi[j] = m.cdi[k] => j = k
      /\ Range(m.cdi) = {m.cdi[k] : k \in 1..n}
  BY DEF Metadata, WellFormed, Range
<1>2. /\ cdi \in Seq(Indices) /\ Range(cdi) = Range(m.cdi) \ {i}
      /\ \A j, k \in 1..Len(cdi) : cdi[j] = cdi[k] => j = k
  <2>1. CASE i \notin Range(m.cdi)
    BY <1>1, <2>1
  <2>2. CASE i \in Range(m.cdi)
    <3>1. PICK p \in 1..n : m.cdi[p] = i
      BY <1>1, <2>2
    <3>2. n - 1 \in Nat /\ n \in 1..n /\ cdi = [k \in 1..(n - 1) |-> IF m.cdi[k] = i THEN m.cdi[n] ELSE m.cdi[k]]
      BY <1>1, <2>2, <3>1
    <3>3. cdi \in Seq(Indices) /\ Len(cdi) = n - 1 /\ DOMAIN cdi = 1..(n - 1)
      BY <1>1, <3>2
    <3>4. \A k \in 1..(n - 1) : cdi[k] = IF k = p THEN m.cdi[n] ELSE m.cdi[k]
      BY <1>1, <3>1, <3>2
    <3> HIDE DEF cdi
    <3>5. \A j, k \in 1..Len(cdi) : cdi[j] = cdi[k] => j = k
      BY <1>1, <3>1, <3>2, <3>3, <3>4
    <3>6. Range(cdi) = {cdi[k] : k \in 1..(n - 1)}
      BY <3>3 DEF Range
    <3>7. ASSUME NEW x \in Range(m.cdi) \ {i} PROVE x \in Range(cdi)
      <4>1. PICK k \in 1..n : m.cdi[k] = x /\ k # p
        BY <1>1, <3>1
      <4>2. CASE k = n
        <5>1. p \in 1..(n - 1) /\ cdi[p] = x
          BY <1>1, <3>4, <4>1, <4>2
        <5> QED
          BY <3>6, <5>1
      <4>3. CASE k # n
        <5>1. k \in 1..(n - 1) /\ cdi[k] = x
          BY <1>1, <3>4, <4>1, <4>3
        <5> QED
          BY <3>6, <5>1
      <4> QED
        BY <4>2, <4>3
    <3>8. ASSUME NEW k \in 1..(n - 1) PROVE cdi[k] \in Range(m.cdi) \ {i}
      BY <1>1, <3>1, <3>2, <3>4
    <3> QED
      BY <3>3, <3>5, <3>6, <3>7, <3>8
  <2> QED
    BY <2>1, <2>2, ZenonT(30)
<1> DEFINE x == [m EXCEPT !.cdi = cdi]
<1>3. Undispatch(m, i) = InSyncWhenDrained(x)
  BY DEF Undispatch
<1> HIDE DEF cdi
<1>4. x \in Metadata /\ x.r = m.r /\ x.w = m.w /\ x.cdi = cdi /\ x.used = m.used
  BY <1>2 DEF Metadata
<1>5. RequestSize(x) = 0 <=> m.r = m.w /\ Range(m.cdi) \subseteq {i}
  <2>1. RequestSize(x) = (m.w - m.r) + Len(cdi) /\ Len(cdi) \in Nat
    BY <1>2, <1>4 DEF RequestSize
  <2>2. Len(cdi) = 0 <=> Range(cdi) = {}
    BY <1>2 DEF Range
  <2> QED
    BY <1>2, <2>1, <2>2, BoundAssumption DEF Metadata, WellFormed
<1> HIDE DEF x
<1>6. WellFormed(x)
  BY <1>2, <1>4 DEF WellFormed
<1>7. /\ InSyncWhenDrained(x) \in Metadata /\ InSyncWhenDrained(x).r = x.r
      /\ InSyncWhenDrained(x).w = x.w /\ InSyncWhenDrained(x).cdi = x.cdi
      /\ InSyncWhenDrained(x).used = IF RequestSize(x) = 0 THEN 0 ELSE x.used
  BY <1>4 DEF InSyncWhenDrained, Metadata
<1> QED
  BY <1>2, <1>3, <1>4, <1>5, <1>6, <1>7 DEF WellFormed

(***************************************************************************)
(* The storage.                                                            *)
(***************************************************************************)
With(items, i, v) == [items EXCEPT ![i] = v]

\* What a write of some keys leaves in the storage.
AfterWrite(d, keys, m, i, v, e) ==
  /\ e \in Disks
  /\ e.legacy = d.legacy
  /\ e.meta = IF "meta" \in keys THEN m ELSE d.meta
  /\ e.items = IF "item" \in keys THEN With(d.items, i, v) ELSE d.items

\* A write changes the keys it is given and no other.
LEMMA WriteEffect ==
  ASSUME NEW d \in Disks, NEW keys, NEW m \in Metadata, NEW i \in Indices, NEW v \in Elements
  PROVE  AfterWrite(d, keys, m, i, v, Write(d, keys, m, i, v))
  BY ZenonT(30) DEF Write, Disks, With, AfterWrite

\* After one batch each of its keys has been written or not; it fails only on a
\* closed client, or where failures are considered.
AfterBatch(op, s, keys, m, i, v, t) ==
  /\ t \in Outcomes
  /\ t.disk.legacy = s.disk.legacy
  /\ t.disk.meta \in {s.disk.meta, m}
  /\ t.disk.items \in {s.disk.items, With(s.disk.items, i, v)}
  /\ "item" \notin keys => t.disk.items = s.disk.items
  /\ t.ok => /\ ~Closed /\ t.fails = s.fails
             /\ "meta" \in keys => t.disk.meta = m
             /\ "item" \in keys => t.disk.items = With(s.disk.items, i, v)
  /\ Closed => t.disk = s.disk
  /\ ~t.ok => Closed \/ op \in FailOps

\* What a batch of storage operations leaves behind, done or failed.
LEMMA BatchOutcome ==
  ASSUME NEW op, NEW s \in Outcomes, NEW keys, NEW m \in Metadata,
         NEW i \in Indices, NEW v \in Elements, NEW t \in Batch(op, s, keys, m, i, v)
  PROVE  AfterBatch(op, s, keys, m, i, v, t)
<1>1. CASE Closed
  <2>1. t = [s EXCEPT !.ok = FALSE]
    BY <1>1 DEF Batch
  <2>2. t \in Outcomes /\ t.disk = s.disk /\ ~t.ok
    BY <2>1, ZenonT(30) DEF Outcomes
  <2> QED
    BY <1>1, <2>2 DEF AfterBatch
<1>2. ASSUME ~Closed, s.disk \in Disks, t.fails \in 0..MaxFailures, t.ok \in BOOLEAN,
             t = [disk |-> t.disk, fails |-> t.fails, ok |-> t.ok],
             NEW k, t.disk = Write(s.disk, k, m, i, v),
             \A x \in k : x \in keys, t.ok => k = keys /\ t.fails = s.fails, ~t.ok => op \in FailOps
      PROVE  AfterBatch(op, s, keys, m, i, v, t)
  <2>1. AfterWrite(s.disk, k, m, i, v, t.disk)
    BY <1>2, WriteEffect
  <2>2. t \in Outcomes
    BY <1>2, <2>1 DEF Outcomes, AfterWrite
  <2> QED
    BY <1>2, <2>1, <2>2 DEF AfterBatch, AfterWrite
<1>3. CASE ~Closed /\ t = [s EXCEPT !.disk = Write(@, keys, m, i, v), !.ok = TRUE]
  BY <1>2, <1>3, ZenonT(30) DEF Outcomes
<1>4. CASE /\ ~Closed /\ op \in FailOps /\ s.fails < MaxFailures
           /\ \E k \in SUBSET keys :
                t = [disk |-> Write(s.disk, k, m, i, v), fails |-> s.fails + 1, ok |-> FALSE]
  <2>1. PICK k \in SUBSET keys :
          t = [disk |-> Write(s.disk, k, m, i, v), fails |-> s.fails + 1, ok |-> FALSE]
    BY <1>4, ZenonT(30)
  <2>2. s.fails + 1 \in 0..MaxFailures /\ s.disk \in Disks
    BY <1>4, BoundAssumption DEF Outcomes
  <2> QED
    BY <1>2, <1>4, <2>1, <2>2, ZenonT(30)
<1> QED
  BY <1>1, <1>3, <1>4 DEF Batch

\* itemDispatchingFinish, whichever of its batches fail.
AfterFinish(s, m, i, t) ==
  /\ t \in Outcomes
  /\ t.disk.legacy = s.disk.legacy
  /\ t.disk.meta \in {s.disk.meta, m}
  /\ t.disk.items \in {s.disk.items, With(s.disk.items, i, Nil)}
  /\ Closed => t.disk = s.disk
  /\ "finish" \notin FailOps /\ ~Closed => t.disk.meta = m /\ t.disk.items = With(s.disk.items, i, Nil)

\* itemDispatchingFinish, with its fallback when the batch fails.
LEMMA FinishOutcome ==
  ASSUME NEW s \in Outcomes, NEW m \in Metadata, NEW i \in Indices,
         NEW t \in DispatchingFinish(s, m, i)
  PROVE  AfterFinish(s, m, i, t)
<1>1. Nil \in Elements /\ With(With(s.disk.items, i, Nil), i, Nil) = With(s.disk.items, i, Nil)
  BY DEF Elements, With, Outcomes, Disks
<1>2. PICK first \in Batch("finish", s, {"meta", "item"}, m, i, Nil) :
        t \in IF first.ok THEN {first}
              ELSE UNION {IF deleted.ok THEN Batch("finish", deleted, {"meta"}, m, i, Nil) ELSE {deleted} :
                            deleted \in Batch("finish", first, {"item"}, m, i, Nil)}
  BY DEF DispatchingFinish
<1>3. AfterBatch("finish", s, {"meta", "item"}, m, i, Nil, first)
  BY <1>1, <1>2, BatchOutcome
<1>4. first \in Outcomes
  BY <1>3 DEF AfterBatch
<1>5. CASE first.ok
  <2>1. t = first
    BY <1>2, <1>5
  <2> QED
    BY <1>3, <1>5, <2>1 DEF AfterBatch, AfterFinish
<1>6. CASE ~first.ok
  <2>1. PICK deleted \in Batch("finish", first, {"item"}, m, i, Nil) :
          t \in IF deleted.ok THEN Batch("finish", deleted, {"meta"}, m, i, Nil) ELSE {deleted}
    BY <1>2, <1>6
  <2>2. AfterBatch("finish", first, {"item"}, m, i, Nil, deleted)
    BY <1>1, <1>4, <2>1, BatchOutcome
  <2>3. deleted \in Outcomes
    BY <2>2 DEF AfterBatch
  <2>4. CASE ~deleted.ok
    <3>1. t = deleted
      BY <2>1, <2>4
    <3> QED
      BY <1>1, <1>3, <1>6, <2>2, <3>1 DEF AfterBatch, AfterFinish
  <2>5. CASE deleted.ok
    <3>1. AfterBatch("finish", deleted, {"meta"}, m, i, Nil, t)
      BY <1>1, <2>1, <2>3, <2>5, BatchOutcome
    <3> QED
      BY <1>1, <1>3, <1>6, <2>2, <3>1 DEF AfterBatch, AfterFinish
  <2> QED
    BY <2>4, <2>5
<1> QED
  BY <1>5, <1>6

(***************************************************************************)
(* The invariant that the others rest on: the type, metadata in memory and *)
(* in the storage that are well formed, nothing retrieved outside Start    *)
(* and nothing with a consumer before the end of it, a client that is open *)
(* while it is in use, and that what a consumer has is what the storage    *)
(* has at its index.                                                       *)
(***************************************************************************)
MetaInv ==
  /\ WellFormed(md)
  /\ disk.meta # Nil => WellFormed(disk.meta)
  /\ disk.legacy # Nil => WellFormed(disk.legacy)

PhaseInv ==
  /\ ~Starting => pending = <<>>
  /\ ~Serving => /\ \A i \in Indices : dpc[i] = "no"
                 /\ \A c \in Consumers : cpc[c] = "exited"
                 /\ \A o \in Offers : opc[o] \in {"new", "returned"}

OpenInv ==
  /\ phase # "stopped" => ~Closed
  /\ phase \notin {"down", "stopped"} => refClient >= 1
  /\ \A i \in Indices : dpc[i] # "no" => ~Closed /\ refClient >= 1

DoneInv ==
  \A i \in Indices :
    /\ dpc[i] # "no" => i < md.r
    /\ dpc[i] = "inflight" => item[i] = disk.items[i]

Core == TypeOK /\ MetaInv /\ PhaseInv /\ DoneInv

IInv == Core /\ OpenInv

\* The storage as the operations find it.
LEMMA NowTyped == TypeOK => Now \in Outcomes /\ Now.disk = disk /\ Now.fails = fails
  BY DEF TypeOK, Now, Outcomes, Disks

(***************************************************************************)
(* Offer.                                                                  *)
(***************************************************************************)
\* Put raises the write index, and stores the element there if it returns nil.
PutEffect(o) ==
  /\ md.w \in Indices
  /\ md' \in Metadata /\ WellFormed(md')
  /\ md'.r = md.r /\ md'.w = md.w + 1 /\ md'.cdi = md.cdi /\ md'.used = md.used + Size[o]
  /\ disk' \in Disks /\ fails' \in 0..MaxFailures
  /\ disk'.legacy = disk.legacy
  /\ disk'.meta \in {disk.meta, md'}
  /\ disk'.items \in {disk.items, With(disk.items, md.w, o)}
  /\ opc' = [opc EXCEPT ![o] = "returned"]
  /\ \/ /\ result' = [result EXCEPT ![o] = "nil"]
        /\ ~Closed /\ disk'.meta = md' /\ disk'.items = With(disk.items, md.w, o)
     \/ /\ result' = [result EXCEPT ![o] = "error"]
        /\ Closed \/ "put" \in FailOps
  /\ Closed => disk' = disk

\* Put is as PutEffect says.
LEMMA Putting ==
  ASSUME TypeOK, MetaInv, NEW o \in Offers, Put(o)
  PROVE  PutEffect(o) /\ cpc' \in [Consumers -> {"read", "loop", "sending", "relock", "asleep", "busy", "exited"}]
<1>1. md \in Metadata /\ WellFormed(md) /\ md.w < MaxIndex /\ md' = [md EXCEPT !.used = @ + Size[o], !.w = @ + 1]
  BY DEF Put, TypeOK, MetaInv
<1>2. md.w \in Indices /\ md.w + 1 \in 0..MaxIndex /\ md.used + Size[o] \in Nat
  BY <1>1, BoundAssumption, SizeAssumption DEF Metadata, Indices
<1>3. /\ md' \in Metadata /\ md'.r = md.r /\ md'.w = md.w + 1 /\ md'.cdi = md.cdi
      /\ md'.used = md.used + Size[o]
  BY <1>1, <1>2, ZenonT(30) DEF Metadata
<1>4. WellFormed(md')
  BY <1>1, <1>3, BoundAssumption DEF WellFormed, Metadata
<1>5. PICK s \in Batch("put", Now, {"meta", "item"}, md', md.w, o) :
        /\ Becomes(s)
        /\ \/ s.ok /\ Return(o, "nil") /\ WakeOneConsumer
           \/ ~s.ok /\ Return(o, "error") /\ UNCHANGED cpc
  BY DEF Put
<1>6. AfterBatch("put", Now, {"meta", "item"}, md', md.w, o, s)
  BY <1>2, <1>3, <1>5, NowTyped, BatchOutcome DEF Elements
<1>7. disk' = s.disk /\ fails' = s.fails /\ disk' \in Disks /\ fails' \in 0..MaxFailures
  BY <1>5, <1>6 DEF Becomes, AfterBatch, Outcomes
<1>8. /\ disk'.legacy = disk.legacy
      /\ disk'.meta \in {disk.meta, md'}
      /\ disk'.items \in {disk.items, With(disk.items, md.w, o)}
      /\ Closed => disk' = disk
      /\ s.ok => ~Closed /\ disk'.meta = md' /\ disk'.items = With(disk.items, md.w, o)
      /\ ~s.ok => Closed \/ "put" \in FailOps
  BY <1>6, <1>7, NowTyped DEF AfterBatch
<1>9. opc' = [opc EXCEPT ![o] = "returned"]
  BY <1>5 DEF Return, Goto
<1>10. \/ s.ok /\ result' = [result EXCEPT ![o] = "nil"]
       \/ ~s.ok /\ result' = [result EXCEPT ![o] = "error"]
  BY <1>5 DEF Return
<1>11. PutEffect(o)
  BY <1>2, <1>3, <1>4, <1>7, <1>8, <1>9, <1>10 DEF PutEffect
<1>12. cpc' \in [Consumers -> {"read", "loop", "sending", "relock", "asleep", "busy", "exited"}]
  BY <1>5 DEF WakeOneConsumer, TypeOK
<1> QED
  BY <1>11, <1>12

\* A step of Offer that may put its element keeps the invariant.
LEMMA OfferKeeps ==
  ASSUME IInv, NEW o \in Offers, Offer(o) \/ OfferWoken(o)
  PROVE  Core'
<1> USE DEF IInv, Core
<1>1. UNCHANGED <<phase, pending, clientVars, doneVars, outcome, crashes>>
  BY DEF Offer, OfferWoken
<1>2. UNCHANGED <<phase, pending, refClient, closes, dpc, item, finished, hit, crashes>>
  BY <1>1 DEF clientVars, doneVars, outcome
<1>3. PhaseInv'
  <2>1. Serving
    BY DEF Offer, OfferWoken, MayCall, Serving, PhaseInv
  <2> QED
    BY <1>2, <2>1 DEF PhaseInv, Starting, Serving
<1>4. CASE Put(o) /\ UNCHANGED condVars
  <2>1. PutEffect(o) /\ cpc' \in [Consumers -> {"read", "loop", "sending", "relock", "asleep", "busy", "exited"}]
    BY <1>4, Putting
  <2>2. UNCHANGED <<waiting, ch>>
    BY <1>4 DEF condVars
  <2>3. /\ opc' \in [Offers -> {"new", "select", "woken", "cancelled", "drain", "returned"}]
        /\ result' \in [Offers -> {"none", "nil", "full", "ctx", "error", "crashed"}]
    BY <2>1 DEF PutEffect, TypeOK
  <2>4. md' \in Metadata /\ md'.r <= md'.w /\ disk' \in Disks /\ fails' \in 0..MaxFailures
    BY <2>1 DEF PutEffect, WellFormed
  <2>5. TypeOK'
    BY ZenonT(30), <1>2, <2>1, <2>2, <2>3, <2>4 DEF TypeOK, Disks
  <2>6. MetaInv'
    BY <2>1 DEF PutEffect, MetaInv
  <2>7. ASSUME NEW i \in Indices
        PROVE  /\ dpc'[i] # "no" => i < md'.r
               /\ dpc'[i] = "inflight" => item'[i] = disk'.items[i]
    <3>1. CASE dpc[i] = "no"
      BY <1>2, <3>1
    <3>2. CASE dpc[i] # "no"
      <4>1. i < md.r /\ md.r <= md.w /\ md.w \in Nat /\ md.r \in Nat /\ i \in Nat
        BY <3>2, BoundAssumption DEF DoneInv, TypeOK, Metadata, Indices
      <4>2. With(disk.items, md.w, o)[i] = disk.items[i]
        BY <4>1 DEF With, TypeOK
      <4> QED
        BY <1>2, <2>1, <3>2, <4>1, <4>2 DEF PutEffect, DoneInv
    <3> QED
      BY <3>1, <3>2
  <2>8. DoneInv'
    BY <2>7 DEF DoneInv
  <2> QED
    BY <1>3, <2>5, <2>6, <2>8
<1>5. CASE WaitForSpace(o) \/ (Return(o, "full") /\ UNCHANGED <<md, disk, cpc, condVars, fails>>)
  <2>1. UNCHANGED <<md, disk, cpc, ch, fails>> /\ waiting' \in Nat
    BY <1>5 DEF WaitForSpace, condVars, TypeOK
  <2>2. /\ opc' \in [Offers -> {"new", "select", "woken", "cancelled", "drain", "returned"}]
        /\ result' \in [Offers -> {"none", "nil", "full", "ctx", "error", "crashed"}]
    BY <1>5 DEF WaitForSpace, Return, Goto, TypeOK
  <2>3. TypeOK'
    BY ZenonT(30), <1>2, <2>1, <2>2 DEF TypeOK
  <2>4. MetaInv' /\ DoneInv'
    BY <1>2, <2>1 DEF MetaInv, DoneInv
  <2> QED
    BY <1>3, <2>3, <2>4
<1>6. \/ Put(o) /\ UNCHANGED condVars
      \/ WaitForSpace(o) \/ (Return(o, "full") /\ UNCHANGED <<md, disk, cpc, condVars, fails>>)
  BY DEF Offer, OfferWoken, Put
<1> QED
  BY <1>4, <1>5, <1>6

\* The steps inside Wait leave the storage and the elements alone.
LEMMA SpaceKeeps ==
  ASSUME IInv, NEW o \in Offers,
         SpaceSelectDone(o) \/ SpaceSelectToken(o) \/ SpaceCancel(o) \/ SpaceDrain(o)
  PROVE  Core'
<1> USE DEF IInv, Core
<1>1. UNCHANGED <<phase, md, disk, pending, clientVars, cpc, doneVars, outcome, crashes, fails>>
  BY DEF SpaceSelectDone, SpaceSelectToken, SpaceCancel, SpaceDrain
<1>2. UNCHANGED <<phase, md, disk, pending, refClient, closes, cpc, dpc, item, finished, hit, crashes, fails>>
  BY <1>1 DEF clientVars, doneVars, outcome
<1>3. PhaseInv' /\ MetaInv' /\ DoneInv'
  <2>1. Serving
    BY DEF SpaceSelectDone, SpaceSelectToken, SpaceCancel, SpaceDrain, PhaseInv
  <2> QED
    BY <1>2, <2>1 DEF PhaseInv, MetaInv, DoneInv, Starting, Serving
<1>4. /\ opc' \in [Offers -> {"new", "select", "woken", "cancelled", "drain", "returned"}]
      /\ result' \in [Offers -> {"none", "nil", "full", "ctx", "error", "crashed"}]
  BY DEF SpaceSelectDone, SpaceSelectToken, SpaceCancel, SpaceDrain, Return, Goto, TypeOK
<1>5. waiting' \in Nat /\ ch' \in 0..Slots
  BY BoundAssumption DEF SpaceSelectDone, SpaceSelectToken, SpaceCancel, SpaceDrain, condVars, TypeOK
<1>6. TypeOK'
  BY <1>2, <1>4, <1>5 DEF TypeOK
<1> QED
  BY <1>3, <1>6

(***************************************************************************)
(* Read.                                                                   *)
(***************************************************************************)
\* A round of Read that hands out the element at the read index.
TakeEffect ==
  /\ ~Closed /\ md.r \in Indices /\ md.r < md.w
  /\ md' \in Metadata /\ WellFormed(md') /\ InUse(md') = InUse(md)
  /\ md'.r = md.r + 1 /\ md'.w = md.w /\ md'.used = md.used
  /\ Range(md'.cdi) = Range(md.cdi) \cup {md.r}
  /\ disk' \in Disks /\ fails' \in 0..MaxFailures
  /\ disk'.legacy = disk.legacy /\ disk'.meta = md' /\ disk'.items = disk.items
  /\ refClient' = refClient + 1
  /\ dpc' = [dpc EXCEPT ![md.r] = "inflight"]
  /\ item' = [item EXCEPT ![md.r] = disk.items[md.r]]
  /\ UNCHANGED hit

\* A round that gives up what is at the read index.
SkipEffect ==
  /\ md.r \in Indices /\ md.r < md.w
  /\ md' \in Metadata /\ WellFormed(md') /\ InUse(md') = InUse(md) \ {md.r}
  /\ md'.r = md.r + 1
  /\ disk' \in Disks /\ fails' \in 0..MaxFailures
  /\ disk'.legacy = disk.legacy
  /\ \/ disk'.meta = disk.meta
     \/ disk'.meta \in Metadata /\ WellFormed(disk'.meta) /\ InUse(md') \subseteq InUse(disk'.meta)
  /\ disk'.items \in {disk.items, With(disk.items, md.r, Nil)}
  /\ Closed => disk' = disk
  /\ ~Closed => disk.items[md.r] = Nil \/ "get" \in FailOps
  /\ hit' = hit \cup ({disk.items[md.r]} \ {Nil})
  /\ UNCHANGED <<refClient, dpc, item>>

\* A round of Read is as TakeEffect or SkipEffect says.
LEMMA NextItemEffect ==
  ASSUME TypeOK, MetaInv, NEW c \in Consumers, NextItem(c), md.r # md.w
  PROVE  /\ (TakeEffect /\ UNCHANGED condVars) \/ SkipEffect
         /\ cpc' \in [Consumers -> {"read", "loop", "sending", "relock", "asleep", "busy", "exited"}]
         /\ waiting' \in Nat /\ ch' \in 0..Slots
<1> DEFINE i == md.r
           taken == [md EXCEPT !.r = @ + 1, !.cdi = Append(@, i)]
           value == disk.items[i]
<1>1. md \in Metadata /\ WellFormed(md) /\ Nil \in Elements
  BY DEF TypeOK, MetaInv, Elements
<1>2. md.r < md.w /\ md.r \in Nat
  BY <1>1, BoundAssumption DEF Metadata, WellFormed
<1>3. /\ taken \in Metadata /\ WellFormed(taken) /\ taken.r = i + 1 /\ taken.w = md.w
      /\ taken.used = md.used /\ Range(taken.cdi) = Range(md.cdi) \cup {i}
      /\ InUse(taken) = InUse(md) /\ i \in Indices /\ i \notin Range(md.cdi)
  BY <1>1, Dispatch, ZenonT(30)
<1>4. PICK s \in Batch("get", Now, {"meta"}, taken, i, Nil) :
        \/ /\ s.ok /\ (value # Nil \/ NilDecodes)
           /\ Becomes(s)
           /\ md' = taken
           /\ refClient' = refClient + 1
           /\ dpc' = [dpc EXCEPT ![i] = "inflight"]
           /\ item' = [item EXCEPT ![i] = value]
           /\ ConsumerGoto(c, "busy")
           /\ UNCHANGED <<condVars, hit>>
        \/ /\ ~(s.ok /\ (value # Nil \/ NilDecodes))
           /\ md' = Undispatch(taken, i)
           /\ hit' = hit \cup ({value} \ {Nil})
           /\ \E f \in DispatchingFinish(s, md', i) : Becomes(f)
           /\ SignalSpace(ConsumerGoto(c, "loop"), ConsumerGoto(c, "sending"))
           /\ UNCHANGED <<refClient, doneVars>>
  BY ZenonT(30) DEF NextItem
<1> HIDE DEF taken
<1>5. AfterBatch("get", Now, {"meta"}, taken, i, Nil, s)
  BY <1>1, <1>3, <1>4, NowTyped, BatchOutcome
<1>6. /\ s \in Outcomes /\ s.disk \in Disks /\ s.fails \in 0..MaxFailures
      /\ s.disk.legacy = disk.legacy /\ s.disk.meta \in {disk.meta, taken} /\ s.disk.items = disk.items
      /\ s.ok => ~Closed /\ s.disk.meta = taken
      /\ ~s.ok => Closed \/ "get" \in FailOps
      /\ Closed => s.disk = disk
  BY ZenonT(30), <1>5, NowTyped DEF AfterBatch, Outcomes
<1>7. CASE /\ s.ok
           /\ Becomes(s)
           /\ md' = taken
           /\ refClient' = refClient + 1
           /\ dpc' = [dpc EXCEPT ![i] = "inflight"]
           /\ item' = [item EXCEPT ![i] = value]
           /\ ConsumerGoto(c, "busy")
           /\ UNCHANGED <<condVars, hit>>
  <2>1. disk' = s.disk /\ fails' = s.fails
    BY <1>7 DEF Becomes
  <2>2. TakeEffect
    BY <1>2, <1>3, <1>6, <1>7, <2>1 DEF TakeEffect
  <2>3. waiting' \in Nat /\ ch' \in 0..Slots
    BY <1>7 DEF condVars, TypeOK
  <2>4. cpc' \in [Consumers -> {"read", "loop", "sending", "relock", "asleep", "busy", "exited"}]
    BY <1>7 DEF ConsumerGoto, TypeOK
  <2> QED
    BY <1>7, <2>2, <2>3, <2>4
<1>8. CASE /\ ~(s.ok /\ (value # Nil \/ NilDecodes))
           /\ md' = Undispatch(taken, i)
           /\ hit' = hit \cup ({value} \ {Nil})
           /\ \E f \in DispatchingFinish(s, md', i) : Becomes(f)
           /\ SignalSpace(ConsumerGoto(c, "loop"), ConsumerGoto(c, "sending"))
           /\ UNCHANGED <<refClient, doneVars>>
  <2>1. /\ md' \in Metadata /\ WellFormed(md') /\ md'.r = i + 1 /\ md'.w = md.w
        /\ Range(md'.cdi) = (Range(md.cdi) \cup {i}) \ {i}
    BY <1>3, <1>8, Removal
  <2>2. InUse(md') = InUse(md) \ {i}
    <3>1. md.w \in Int
      BY <1>1 DEF Metadata
    <3>2. (i + 1)..(md.w - 1) = (i..(md.w - 1)) \ {i}
      BY <1>2, <3>1
    <3>3. InUse(md') = ((i + 1)..(md.w - 1)) \cup Range(md'.cdi)
      BY ZenonT(30), <2>1 DEF InUse, Queued
    <3> QED
      BY ZenonT(30), <1>3, <2>1, <3>2, <3>3 DEF InUse, Queued
  <2>3. PICK f \in DispatchingFinish(s, md', i) : Becomes(f)
    BY ZenonT(30), <1>8
  <2>4. AfterFinish(s, md', i, f)
    BY <1>3, <1>6, <2>1, <2>3, FinishOutcome
  <2>5. /\ disk' = f.disk /\ fails' = f.fails /\ disk' \in Disks /\ fails' \in 0..MaxFailures
        /\ disk'.legacy = disk.legacy /\ disk'.meta \in {disk.meta, taken, md'}
        /\ disk'.items \in {disk.items, With(disk.items, i, Nil)}
        /\ Closed => disk' = disk
    BY <1>6, <2>3, <2>4 DEF Becomes, AfterFinish, Outcomes
  <2>6. InUse(md') \subseteq InUse(taken)
    BY ZenonT(30), <1>3, <2>2
  <2>7. ~Closed => value = Nil \/ "get" \in FailOps
    BY <1>6, <1>8
  <2>8. UNCHANGED <<refClient, dpc, item>>
    BY ZenonT(30), <1>8 DEF doneVars
  <2>9. SkipEffect
    BY ZenonT(30), <1>2, <1>3, <1>8, <2>1, <2>2, <2>5, <2>6, <2>7, <2>8 DEF SkipEffect
  <2>10. waiting' \in Nat /\ ch' \in 0..Slots
    BY <1>8, BoundAssumption DEF SignalSpace, condVars, TypeOK
  <2>11. cpc' \in [Consumers -> {"read", "loop", "sending", "relock", "asleep", "busy", "exited"}]
    BY ZenonT(30), <1>8 DEF SignalSpace, ConsumerGoto, TypeOK
  <2> QED
    BY ZenonT(30), <2>9, <2>10, <2>11
<1> QED
  BY <1>4, <1>7, <1>8

\* A step of a consumer hands out an element, gives one up or does nothing to them.
LEMMA ConsumerEffect ==
  ASSUME TypeOK, MetaInv, NEW c \in Consumers, ConsumerStep(c)
  PROVE  /\ UNCHANGED <<phase, pending, closes, opc, result, finished, crashes>>
         /\ \/ TakeEffect \/ SkipEffect
            \/ UNCHANGED <<md, disk, refClient, dpc, item, hit, fails>>
         /\ cpc' \in [Consumers -> {"read", "loop", "sending", "relock", "asleep", "busy", "exited"}]
         /\ waiting' \in Nat /\ ch' \in 0..Slots
<1>1. UNCHANGED <<phase, pending, closes, opc, result, finished, crashes>>
  BY DEF ConsumerStep, Read, ReadOn, ReadSend, ReadRelock, ConsumeReturns, clientVars, outcome
<1>2. CASE NextItem(c) /\ md.r # md.w
  BY <1>1, <1>2, NextItemEffect
<1>3. CASE \E l \in {"read", "loop", "relock", "asleep", "exited"} :
             /\ ConsumerGoto(c, l) /\ ch' \in 0..Slots
             /\ UNCHANGED <<md, disk, refClient, doneVars, waiting, hit, fails>>
  <2>1. cpc' \in [Consumers -> {"read", "loop", "sending", "relock", "asleep", "busy", "exited"}]
    BY <1>3 DEF ConsumerGoto, TypeOK
  <2> QED
    BY <1>1, <1>3, <2>1 DEF doneVars, TypeOK
<1>4. ASSUME Read(c) \/ ReadOn(c) PROVE
        \/ NextItem(c) /\ md.r # md.w
        \/ \E l \in {"read", "loop", "relock", "asleep", "exited"} :
             /\ ConsumerGoto(c, l) /\ ch' \in 0..Slots
             /\ UNCHANGED <<md, disk, refClient, doneVars, waiting, hit, fails>>
  <2>1. ch \in 0..Slots
    BY DEF TypeOK
  <2> QED
    BY <1>4, <2>1 DEF Read, ReadOn, condVars
<1>5. ASSUME ReadSend(c) \/ ReadRelock(c) \/ ConsumeReturns(c) PROVE
        \E l \in {"read", "loop", "relock", "asleep", "exited"} :
             /\ ConsumerGoto(c, l) /\ ch' \in 0..Slots
             /\ UNCHANGED <<md, disk, refClient, doneVars, waiting, hit, fails>>
  <2>1. ch \in 0..Slots /\ (ch < Slots => ch + 1 \in 0..Slots)
    BY BoundAssumption DEF TypeOK
  <2> QED
    BY <1>5, <2>1 DEF ReadSend, ReadRelock, ConsumeReturns, condVars, clientVars, outcome
<1> QED
  BY ZenonT(30), <1>2, <1>3, <1>4, <1>5 DEF ConsumerStep

\* A step of a consumer keeps the invariant.
LEMMA ConsumerKeeps ==
  ASSUME IInv, NEW c \in Consumers, ConsumerStep(c)
  PROVE  Core'
<1> USE DEF IInv, Core
<1>1. /\ UNCHANGED <<phase, pending, closes, opc, result, finished, crashes>>
      /\ \/ TakeEffect \/ SkipEffect
         \/ UNCHANGED <<md, disk, refClient, dpc, item, hit, fails>>
      /\ cpc' \in [Consumers -> {"read", "loop", "sending", "relock", "asleep", "busy", "exited"}]
      /\ waiting' \in Nat /\ ch' \in 0..Slots
  BY ConsumerEffect
<1>2. Serving
  <2>1. cpc[c] # "exited"
    BY DEF ConsumerStep, Read, ReadOn, ReadSend, ReadRelock, ConsumeReturns
  <2> QED
    BY <2>1 DEF PhaseInv
<1>3. CASE UNCHANGED <<md, disk, refClient, dpc, item, hit, fails>>
  <2>1. TypeOK'
    BY <1>1, <1>3 DEF TypeOK
  <2>2. PhaseInv' /\ MetaInv' /\ DoneInv'
    BY <1>1, <1>2, <1>3 DEF PhaseInv, MetaInv, DoneInv, Starting, Serving
  <2> QED
    BY <2>1, <2>2
<1>4. CASE TakeEffect
  <2>1. /\ dpc' \in [Indices -> {"no", "inflight", "sending", "relock"}]
        /\ item' \in [Indices -> Elements]
    BY <1>4 DEF TakeEffect, TypeOK
  <2>2. md' \in Metadata /\ md'.r <= md'.w /\ disk' \in Disks /\ fails' \in 0..MaxFailures /\ hit' = hit
    BY <1>4 DEF TakeEffect, WellFormed
  <2>3. refClient' \in Nat
    BY <1>4 DEF TakeEffect, TypeOK
  <2>4. TypeOK'
    BY <1>1, <2>1, <2>2, <2>3 DEF TypeOK, Disks
  <2>5. MetaInv'
    BY <1>4 DEF TakeEffect, MetaInv
  <2>6. PhaseInv'
    BY <1>1, <1>2 DEF PhaseInv, Starting, Serving
  <2>10. DoneInv'
    <3>1. ASSUME NEW i \in Indices
          PROVE  /\ dpc'[i] # "no" => i < md'.r
                 /\ dpc'[i] = "inflight" => item'[i] = disk'.items[i]
      <4>1. i < md.r => i < md.r + 1
        BY BoundAssumption DEF TypeOK, Metadata, Indices
      <4>2. CASE i = md.r
        <5>1. i < md.r + 1
          BY <4>2, BoundAssumption DEF Indices
        <5> QED
          BY ZenonT(30), <1>4, <4>2, <5>1 DEF TakeEffect, TypeOK
      <4>3. CASE i # md.r
        BY ZenonT(30), <1>4, <4>1, <4>3 DEF TakeEffect, DoneInv, TypeOK
      <4> QED
        BY <4>2, <4>3
    <3> QED
      BY <3>1 DEF DoneInv
  <2> QED
    BY ZenonT(30), <2>4, <2>5, <2>6, <2>10
<1>5. CASE SkipEffect
  <2>1. /\ md' \in Metadata /\ md'.r <= md'.w /\ disk' \in Disks /\ fails' \in 0..MaxFailures
        /\ UNCHANGED <<refClient, dpc, item>>
    BY <1>5 DEF SkipEffect, WellFormed
  <2>2. finished' \cup hit' \subseteq Offers
    BY <1>1, <1>5 DEF SkipEffect, TypeOK, Elements
  <2>3. TypeOK'
    BY <1>1, <2>1, <2>2 DEF TypeOK, Disks
  <2>4. MetaInv'
    BY <1>5 DEF SkipEffect, MetaInv
  <2>5. PhaseInv'
    BY <1>1, <1>2, <2>1 DEF PhaseInv, Starting, Serving
  <2>6. DoneInv'
    <3>1. ASSUME NEW i \in Indices
          PROVE  /\ dpc'[i] # "no" => i < md'.r
                 /\ dpc'[i] = "inflight" => item'[i] = disk'.items[i]
      <4>1. CASE dpc[i] = "no"
        BY <2>1, <4>1
      <4>2. CASE dpc[i] # "no"
        <5>1. i < md.r /\ i < md.r + 1
          BY <4>2, BoundAssumption DEF DoneInv, TypeOK, Metadata, Indices
        <5>2. With(disk.items, md.r, Nil)[i] = disk.items[i]
          BY <5>1, BoundAssumption DEF With, TypeOK, Metadata, Indices
        <5> QED
          BY <1>5, <2>1, <4>2, <5>1, <5>2 DEF SkipEffect, DoneInv
      <4> QED
        BY <4>1, <4>2
    <3> QED
      BY <3>1 DEF DoneInv
  <2> QED
    BY <2>3, <2>4, <2>5, <2>6
<1> QED
  BY <1>1, <1>3, <1>4, <1>5

(***************************************************************************)
(* onDone.                                                                 *)
(***************************************************************************)
\* The element at i has been exported: it goes out of the metadata and, unless the
\* storage fails, out of the storage.
FinishEffect(i) ==
  /\ dpc[i] = "inflight" /\ ~Closed
  /\ md' \in Metadata /\ WellFormed(md')
  /\ md'.r = md.r /\ md'.w = md.w /\ Range(md'.cdi) = Range(md.cdi) \ {i}
  /\ md'.used = IF (md.r = md.w /\ Range(md.cdi) \subseteq {i}) \/ md.used < ItemSize(item[i]) THEN 0
                ELSE md.used - ItemSize(item[i])
  /\ disk' \in Disks /\ fails' \in 0..MaxFailures
  /\ disk'.legacy = disk.legacy
  /\ disk'.meta \in {disk.meta, md'}
  /\ disk'.items \in {disk.items, With(disk.items, i, Nil)}
  /\ "finish" \notin FailOps => disk'.meta = md' /\ disk'.items = With(disk.items, i, Nil)
  /\ finished' = finished \cup ({item[i]} \ {Nil})

\* The completion of i gives its reference back, or goes on inside Signal.
ReleaseEffect(i) ==
  /\ dpc[i] # "no"
  /\ \/ /\ dpc' = [dpc EXCEPT ![i] = "no"]
        /\ item' = [item EXCEPT ![i] = Nil]
        /\ refClient' = refClient - 1
        /\ closes' = IF refClient = 1 THEN closes + 1 ELSE closes
     \/ /\ \E l \in {"sending", "relock"} : dpc' = [dpc EXCEPT ![i] = l]
        /\ UNCHANGED <<item, refClient, closes>>

\* A step of a completion is as FinishEffect and ReleaseEffect say.
LEMMA DoneEffect ==
  ASSUME IInv, NEW i \in Indices, DoneStep(i)
  PROVE  /\ ReleaseEffect(i)
         /\ UNCHANGED <<phase, pending, opc, result, cpc, hit, crashes>>
         /\ FinishEffect(i) \/ UNCHANGED <<md, disk, finished, fails>>
         /\ waiting' \in Nat /\ ch' \in 0..Slots
<1> USE DEF IInv, Core
<1>1. CASE OnDoneShutdown(i) \/ OnDoneRelock(i)
  <2>1. ReleaseEffect(i)
    BY <1>1 DEF OnDoneShutdown, OnDoneRelock, ReleaseEffect, Forget, DoneGoto, UnrefClient
  <2> QED
    BY <1>1, <2>1 DEF OnDoneShutdown, OnDoneRelock, condVars, outcome, TypeOK
<1>2. CASE OnDoneSend(i)
  <2>1. ReleaseEffect(i)
    BY <1>2 DEF OnDoneSend, ReleaseEffect, DoneGoto, clientVars
  <2>2. ch' \in 0..Slots
    BY <1>2, BoundAssumption DEF OnDoneSend, TypeOK
  <2> QED
    BY <1>2, <2>1, <2>2 DEF OnDoneSend, outcome, TypeOK
<1>3. CASE OnDone(i)
  <2> DEFINE left == IF md.used < ItemSize(item[i]) THEN 0 ELSE md.used - ItemSize(item[i])
             m == [md EXCEPT !.used = left]
  <2>1. /\ dpc[i] = "inflight"
        /\ md' = Undispatch(m, i)
        /\ \E s \in DispatchingFinish(Now, md', i) : Becomes(s)
        /\ finished' = finished \cup ({item[i]} \ {Nil})
        /\ SignalSpace(Forget(i) /\ UnrefClient, DoneGoto(i, "sending") /\ UNCHANGED <<item, clientVars>>)
        /\ UNCHANGED <<phase, pending, opc, result, cpc, hit, crashes>>
    BY <1>3 DEF OnDone
  <2>2. ItemSize(item[i]) \in Nat
    BY SizeAssumption DEF ItemSize, TypeOK, Elements
  <2>3. left \in Nat
    BY <2>2 DEF TypeOK, Metadata
  <2>4. m \in Metadata /\ m.r = md.r /\ m.w = md.w /\ m.cdi = md.cdi /\ m.used = left
    BY <2>3 DEF TypeOK, Metadata
  <2> HIDE DEF m
  <2>5. WellFormed(m)
    BY <2>4 DEF MetaInv, WellFormed
  <2>6. /\ md' \in Metadata /\ WellFormed(md') /\ md'.r = md.r /\ md'.w = md.w
        /\ Range(md'.cdi) = Range(md.cdi) \ {i}
        /\ md'.used = IF md.r = md.w /\ Range(md.cdi) \subseteq {i} THEN 0 ELSE left
    <3>1. /\ md' \in Metadata /\ WellFormed(md') /\ md'.r = m.r /\ md'.w = m.w
          /\ Range(md'.cdi) = Range(m.cdi) \ {i}
          /\ md'.used = IF m.r = m.w /\ Range(m.cdi) \subseteq {i} THEN 0 ELSE m.used
      BY <2>1, <2>4, <2>5, Removal, ZenonT(30)
    <3> QED
      BY <2>4, <3>1
  <2>7. ~Closed
    BY <2>1, ZenonT(30) DEF OpenInv
  <2>8. PICK s \in DispatchingFinish(Now, md', i) : Becomes(s)
    BY <2>1
  <2>9. AfterFinish(Now, md', i, s)
    BY <2>6, <2>8, NowTyped, FinishOutcome
  <2>10. /\ disk' \in Disks /\ fails' \in 0..MaxFailures
         /\ disk'.legacy = disk.legacy
         /\ disk'.meta \in {disk.meta, md'}
         /\ disk'.items \in {disk.items, With(disk.items, i, Nil)}
         /\ "finish" \notin FailOps => disk'.meta = md' /\ disk'.items = With(disk.items, i, Nil)
    BY <2>7, <2>8, <2>9, NowTyped DEF AfterFinish, Becomes, Outcomes
  <2>11. FinishEffect(i)
    BY <2>1, <2>6, <2>7, <2>10, ZenonT(30) DEF FinishEffect
  <2>12. ReleaseEffect(i)
    BY <2>1 DEF SignalSpace, ReleaseEffect, Forget, DoneGoto, UnrefClient, clientVars
  <2>13. waiting' \in Nat /\ ch' \in 0..Slots
    BY <2>1, BoundAssumption DEF SignalSpace, condVars, TypeOK
  <2> QED
    BY <2>1, <2>11, <2>12, <2>13, ZenonT(30)
<1> QED
  BY <1>1, <1>2, <1>3 DEF DoneStep

\* A step of a completion keeps the invariant.
LEMMA DoneKeeps ==
  ASSUME IInv, NEW i \in Indices, DoneStep(i)
  PROVE  Core'
<1> USE DEF IInv, Core
<1>1. /\ ReleaseEffect(i)
      /\ UNCHANGED <<phase, pending, opc, result, cpc, hit, crashes>>
      /\ FinishEffect(i) \/ UNCHANGED <<md, disk, finished, fails>>
      /\ waiting' \in Nat /\ ch' \in 0..Slots
  BY DoneEffect
<1>2. /\ md' \in Metadata /\ WellFormed(md') /\ md'.r = md.r /\ disk' \in Disks
      /\ fails' \in 0..MaxFailures /\ finished' \subseteq Offers
      /\ disk'.legacy = disk.legacy /\ disk'.meta \in {disk.meta, md'}
      /\ disk'.items \in {disk.items, With(disk.items, i, Nil)}
  <2>1. CASE FinishEffect(i)
    BY <2>1, ZenonT(30) DEF FinishEffect, TypeOK, Elements
  <2>2. CASE UNCHANGED <<md, disk, finished, fails>>
    BY <2>2 DEF TypeOK, MetaInv, Disks
  <2> QED
    BY <1>1, <2>1, <2>2
<1>3. /\ dpc' \in [Indices -> {"no", "inflight", "sending", "relock"}]
      /\ item' \in [Indices -> Elements]
  BY ZenonT(30), <1>1 DEF ReleaseEffect, TypeOK, Elements
<1>4. refClient' \in Nat /\ closes' \in Nat
  BY <1>1 DEF ReleaseEffect, OpenInv, TypeOK
<1>5. TypeOK'
  BY ZenonT(30), <1>1, <1>2, <1>3, <1>4 DEF TypeOK, WellFormed, Disks
<1>6. MetaInv'
  BY <1>2 DEF MetaInv
<1>7. Serving
  BY <1>1 DEF ReleaseEffect, PhaseInv
<1>8. PhaseInv'
  BY <1>1, <1>7, ZenonT(30) DEF PhaseInv, Starting, Serving
<1>10. DoneInv'
  <2>1. ASSUME NEW j \in Indices
        PROVE  /\ dpc'[j] # "no" => j < md'.r
               /\ dpc'[j] = "inflight" => item'[j] = disk'.items[j]
    <3>1. CASE j = i
      BY <1>1, <1>2, <3>1 DEF ReleaseEffect, DoneInv, TypeOK
    <3>2. CASE j # i
      <4>1. dpc'[j] = dpc[j] /\ item'[j] = item[j]
        BY <1>1, <3>2 DEF ReleaseEffect, TypeOK
      <4>2. With(disk.items, i, Nil)[j] = disk.items[j]
        BY <3>2 DEF With, TypeOK
      <4> QED
        BY <1>2, <4>1, <4>2, ZenonT(30) DEF DoneInv
    <3> QED
      BY <3>1, <3>2, ZenonT(30)
  <2> QED
    BY <2>1, ZenonT(30) DEF DoneInv
<1> QED
  BY <1>5, <1>6, <1>8, <1>10

(***************************************************************************)
(* Start.                                                                  *)
(***************************************************************************)
Retrieved(indices) == [k \in 1..Len(indices) |-> disk.items[indices[k]]]

\* Retrieving and deleting the dispatched items: only these disappear, and all of
\* them are retrieved unless a call fails.
RetrieveEffect(indices) ==
  /\ disk' \in Disks /\ disk'.meta = disk.meta /\ disk'.legacy = disk.legacy
  /\ \A i \in Indices : i \notin Range(indices) => disk'.items[i] = disk.items[i]
  /\ \A i \in Indices : disk'.items[i] \in {disk.items[i], Nil}
  /\ pending' \in {Retrieved(indices), <<>>} /\ pending' \in Seq(Elements)

\* retrieveAndEnqueueNotDispatchedReqs, up to putting back, is as RetrieveEffect says.
LEMMA Retrieval ==
  ASSUME TypeOK, NEW indices \in Seq(Indices), NEW next, NEW earlier \in 0..MaxFailures,
         NEW unread \in SUBSET Indices, Retrieve(indices, next, earlier, unread)
  PROVE  /\ RetrieveEffect(indices)
         /\ hit \cup At(unread) \subseteq hit' /\ hit' \subseteq hit \cup At(Indices)
         /\ At(Range(indices)) \subseteq Range(pending') \cup hit'
         /\ phase' = next /\ UNCHANGED cpc
         /\ fails' \in 0..MaxFailures /\ fails' >= earlier
         /\ fails' # earlier => "recover" \in FailOps
         /\ fails' = earlier => /\ pending' = Retrieved(indices)
                                /\ \A i \in Range(indices) : disk'.items[i] = Nil
<1>1. PICK retrieved \in BOOLEAN, deleted \in SUBSET Range(indices) :
        LET failures == Failed(~retrieved) + Failed(deleted # Range(indices)) IN
        /\ failures = 0 \/ ("recover" \in FailOps /\ earlier + failures <= MaxFailures)
        /\ pending' = IF retrieved THEN Retrieved(indices) ELSE <<>>
        /\ hit' = hit \cup At(IF retrieved THEN unread ELSE unread \cup Range(indices))
        /\ disk' = [disk EXCEPT !.items = [i \in Indices |-> IF i \in deleted THEN Nil ELSE @[i]]]
        /\ fails' = earlier + failures
        /\ phase' = next
        /\ UNCHANGED cpc
  BY ZenonT(30) DEF Retrieve, Retrieved
<1> DEFINE failures == Failed(~retrieved) + Failed(deleted # Range(indices))
<1>2. failures \in Nat /\ (failures = 0 <=> retrieved /\ deleted = Range(indices))
  BY DEF Failed
<1>4. /\ failures = 0 \/ ("recover" \in FailOps /\ earlier + failures <= MaxFailures)
      /\ fails' = earlier + failures
  BY <1>1
<1> HIDE DEF failures
<1>5. /\ fails' \in 0..MaxFailures /\ fails' >= earlier
      /\ fails' # earlier => "recover" \in FailOps
      /\ fails' = earlier => retrieved /\ deleted = Range(indices)
  BY <1>2, <1>4, BoundAssumption
<1>6. Range(indices) \subseteq Indices /\ \A k \in 1..Len(indices) : indices[k] \in Indices
  BY DEF Range
<1>7. disk \in Disks /\ disk.items \in [Indices -> Elements] /\ Nil \in Elements
  BY DEF TypeOK, Disks, Elements
<1>8. disk' \in Disks /\ disk'.meta = disk.meta /\ disk'.legacy = disk.legacy
      /\ disk'.items = [i \in Indices |-> IF i \in deleted THEN Nil ELSE disk.items[i]]
  <2> DEFINE items == [i \in Indices |-> IF i \in deleted THEN Nil ELSE disk.items[i]]
  <2>1. disk' = [disk EXCEPT !.items = items]
    BY <1>1
  <2>2. items \in [Indices -> Elements]
    BY <1>7
  <2> HIDE DEF items
  <2>3. disk' \in Disks /\ disk'.meta = disk.meta /\ disk'.legacy = disk.legacy /\ disk'.items = items
    BY <1>7, <2>1, <2>2 DEF Disks
  <2> QED
    BY <2>3 DEF items
<1>9. Retrieved(indices) \in Seq(Elements) /\ <<>> \in Seq(Elements)
  BY <1>6, <1>7 DEF Retrieved
<1>10. pending' \in {Retrieved(indices), <<>>} /\ (retrieved => pending' = Retrieved(indices))
  BY <1>1
<1>11. RetrieveEffect(indices)
  BY <1>8, <1>9, <1>10, ZenonT(30) DEF RetrieveEffect
<1>12. deleted = Range(indices) => \A i \in Range(indices) : disk'.items[i] = Nil
  BY <1>6, <1>8
<1>13. hit \cup At(unread) \subseteq hit' /\ hit' \subseteq hit \cup At(Indices)
  BY <1>1, <1>6, ZenonT(30) DEF At
<1>14. At(Range(indices)) \subseteq Range(pending') \cup hit'
  <2>1. CASE ~retrieved
    BY <1>1, <2>1, ZenonT(30) DEF At
  <2>2. CASE retrieved
    <3>1. SUFFICES ASSUME NEW i \in Range(indices) PROVE disk.items[i] \in Range(pending')
      BY ZenonT(30) DEF At
    <3>2. PICK k \in 1..Len(indices) : indices[k] = i
      BY DEF Range
    <3>3. Retrieved(indices)[k] = disk.items[i] /\ k \in DOMAIN Retrieved(indices)
      BY <3>2 DEF Retrieved
    <3> QED
      BY <1>10, <2>2, <3>3 DEF Range
  <2> QED
    BY <2>1, <2>2
<1> QED
  BY ZenonT(30), <1>1, <1>5, <1>10, <1>11, <1>12, <1>13, <1>14

\* The metadata of an empty queue.
LEMMA EmptyMetadata ==
  ZeroMetadata \in Metadata /\ WellFormed(ZeroMetadata) /\ Queued(ZeroMetadata) = {}
<1>1. <<>> \in Seq(Indices) /\ Len(<<>>) = 0 /\ Range(<<>>) = {}
  BY DEF Range
<1> QED
  BY <1>1, BoundAssumption DEF ZeroMetadata, Metadata, WellFormed, Queued

\* What is left of metadata without their dispatched list.
Bare(m) == [m EXCEPT !.cdi = <<>>]

\* Metadata without their dispatched list use the queued indices only.
LEMMA Undispatched ==
  ASSUME NEW m \in Metadata, WellFormed(m)
  PROVE  /\ Bare(m) \in Metadata /\ WellFormed(Bare(m))
         /\ Bare(m).r = m.r /\ Bare(m).w = m.w /\ Bare(m).used = m.used /\ Bare(m).cdi = <<>>
         /\ Queued(Bare(m)) = Queued(m) /\ InUse(Bare(m)) = Queued(m)
<1>0. <<>> \in Seq(Indices) /\ Len(<<>>) = 0 /\ Range(<<>>) = {}
  BY DEF Range
<1>1. /\ Bare(m) \in Metadata /\ Bare(m).r = m.r /\ Bare(m).w = m.w
      /\ Bare(m).used = m.used /\ Bare(m).cdi = <<>>
  BY <1>0, ZenonT(30) DEF Metadata, Bare
<1>2. WellFormed(Bare(m))
  BY <1>0, <1>1 DEF WellFormed
<1>3. Queued(Bare(m)) = Queued(m) /\ InUse(Bare(m)) = Queued(m)
  BY <1>0, <1>1 DEF Queued, InUse
<1> QED
  BY <1>1, <1>2, <1>3

\* Start goes on with the items between the indices it has loaded, and with those it
\* has retrieved; it does without no others, but for those it could not read.
StartEffect ==
  /\ md' \in Metadata /\ WellFormed(md') /\ fails' \in 0..MaxFailures
  /\ disk' \in Disks /\ disk'.meta = disk.meta /\ disk'.legacy = disk.legacy
  /\ \A i \in Indices : disk'.items[i] \in {disk.items[i], Nil}
  /\ \A i \in Queued(md') : disk'.items[i] = disk.items[i]
  /\ Found # Nil => Queued(md') \subseteq InUse(Found)
  /\ Found = Nil => Queued(md') = {}
  /\ pending' \in Seq(Elements)
  /\ hit \subseteq hit' /\ hit' \subseteq hit \cup At(Indices)
  /\ Recoverable \subseteq At(Queued(md')) \cup Range(pending') \cup hit'
  /\ fails' # fails => "load" \in FailOps \/ "recover" \in FailOps
  /\ \/ phase' = "run" /\ fails' # fails /\ pending' = <<>>
        /\ cpc' = [c \in Consumers |-> "read"]
     \/ phase' \in {"requeue", "requeueLegacy"} /\ UNCHANGED cpc

\* When no call fails nothing that the storage lists is left behind.
StartWell ==
  /\ phase' \in {"requeue", "requeueLegacy"}
  /\ Found = Nil => /\ md' = ZeroMetadata /\ pending' = <<>>
                    /\ \A i \in Indices : disk'.items[i] = disk.items[i]
  /\ Found # Nil => /\ md'.r = Found.r /\ md'.w = Found.w /\ md'.used = Found.used
                    /\ pending' = Retrieved(Found.cdi)
                    /\ \A i \in Range(Found.cdi) : disk'.items[i] = Nil
                    /\ \A i \in Indices \ Range(Found.cdi) : disk'.items[i] = disk.items[i]

\* Start is as StartEffect says and, when no call fails, as StartWell.
LEMMA Starts ==
  ASSUME IInv, Start
  PROVE  StartEffect /\ (fails' = fails => StartWell)
<1> USE DEF IInv, Core
<1>1. /\ disk \in Disks /\ fails \in 0..MaxFailures /\ fails \in Nat /\ phase = "down" /\ pending = <<>>
      /\ Found # Nil => Found \in Metadata /\ WellFormed(Found)
  BY BoundAssumption DEF TypeOK, MetaInv, PhaseInv, Starting, Start, Found, Disks
<1>2. Found # Nil => /\ Queued(Found) \subseteq InUse(Found) /\ Queued(Found) \cap Range(Found.cdi) = {}
                     /\ InUse(Found) \subseteq Indices /\ Found.cdi \in Seq(Indices)
  BY <1>1, InUseBelow, BoundAssumption DEF WellFormed, Queued, InUse, Metadata
<1>3. /\ Recoverable \subseteq At(Indices)
      /\ Found # Nil => Recoverable = At(InUse(Found))
      /\ Found = Nil => Recoverable = {}
  BY <1>2, ZenonT(30) DEF Recoverable, At
<1>4. CASE /\ CanFail("load") /\ md' = ZeroMetadata /\ fails' = fails + 1
           /\ hit' = hit \cup Recoverable
           /\ Serve /\ UNCHANGED <<disk, pending>>
  <2>1. fails + 1 \in 0..MaxFailures /\ fails' # fails /\ "load" \in FailOps
    BY <1>1, <1>4, BoundAssumption DEF CanFail
  <2>2. md' \in Metadata /\ WellFormed(md') /\ Queued(md') = {}
    BY <1>4, EmptyMetadata
  <2>3. pending' \in Seq(Elements) /\ pending' = <<>>
    BY <1>1, <1>4
  <2>4. phase' = "run" /\ cpc' = [c \in Consumers |-> "read"]
    BY <1>4 DEF Serve
  <2> QED
    BY <1>1, <1>3, <1>4, <2>1, <2>2, <2>3, <2>4 DEF StartEffect
<1>5. ASSUME NEW indices \in Seq(Indices), NEW next \in {"requeue", "requeueLegacy"},
             NEW earlier \in 0..MaxFailures, NEW unread \in SUBSET Indices,
             Retrieve(indices, next, earlier, unread),
             earlier >= fails, earlier # fails => "load" \in FailOps,
             md' \in Metadata, WellFormed(md'),
             Found # Nil => Queued(md') \subseteq InUse(Found),
             Found # Nil => InUse(Found) \subseteq Queued(md') \cup Range(indices) \cup unread,
             Found = Nil => md' = ZeroMetadata /\ indices = <<>>,
             Queued(md') \cap Range(indices) = {}
      PROVE  /\ StartEffect
             /\ fails' = fails /\ (earlier = fails /\ Found # Nil =>
                                     /\ md'.r = Found.r /\ md'.w = Found.w /\ md'.used = Found.used
                                     /\ indices = Found.cdi) => StartWell
  <2>1. /\ RetrieveEffect(indices)
        /\ hit \cup At(unread) \subseteq hit' /\ hit' \subseteq hit \cup At(Indices)
        /\ At(Range(indices)) \subseteq Range(pending') \cup hit'
        /\ phase' = next /\ UNCHANGED cpc
        /\ fails' \in 0..MaxFailures /\ fails' >= earlier
        /\ fails' # earlier => "recover" \in FailOps
        /\ fails' = earlier => /\ pending' = Retrieved(indices)
                               /\ \A i \in Range(indices) : disk'.items[i] = Nil
    BY ZenonT(30), <1>5, Retrieval
  <2>2. Queued(md') \subseteq Indices /\ (Found = Nil => Queued(md') = {})
    BY <1>2, <1>5, EmptyMetadata
  <2>3. fails' # fails => "load" \in FailOps \/ "recover" \in FailOps
    BY ZenonT(30), <1>5, <2>1
  <2>4. fails' = fails => fails' = earlier /\ earlier = fails
    <3>1. fails' \in 0..MaxFailures /\ fails' >= earlier /\ earlier \in 0..MaxFailures /\ earlier >= fails
      BY ZenonT(30), <1>5, <2>1
    <3> HIDE DEF IInv, Core
    <3> QED
      BY <1>1, <3>1
  <2>a. Recoverable \subseteq At(Queued(md')) \cup Range(pending') \cup hit'
    <3>1. \A I, J, K, L : I \subseteq J \cup K \cup L => At(I) \subseteq At(J) \cup At(K) \cup At(L)
      BY ZenonT(30) DEF At
    <3>2. CASE Found # Nil
      <4>1. At(InUse(Found)) \subseteq At(Queued(md')) \cup At(Range(indices)) \cup At(unread)
        BY <1>5, <3>1, <3>2, ZenonT(30)
      <4> QED
        BY <1>3, <2>1, <3>2, <4>1, ZenonT(30)
    <3> QED
      BY <1>3, <3>2, ZenonT(30)
  <2>5. StartEffect
    BY <1>5, <2>1, <2>2, <2>3, <2>a DEF StartEffect, RetrieveEffect
  <2>6. Retrieved(<<>>) = <<>> /\ Range(<<>>) = {}
    BY DEF Retrieved, Range
  <2>7. ASSUME fails' = fails,
               Found # Nil => /\ md'.r = Found.r /\ md'.w = Found.w /\ md'.used = Found.used
                              /\ indices = Found.cdi
        PROVE  StartWell
    BY ZenonT(30), <1>5, <2>1, <2>4, <2>6, <2>7 DEF StartWell, RetrieveEffect
  <2> QED
    BY <2>4, <2>5, <2>7
<1>6. CASE /\ disk.meta # Nil /\ md' = disk.meta /\ Retrieve(disk.meta.cdi, "requeue", fails, {})
  <2>1. Found = disk.meta /\ Found # Nil
    BY <1>6 DEF Found
  <2>2. InUse(Found) \subseteq Queued(md') \cup Range(disk.meta.cdi) \cup {}
    BY <1>6, <2>1, ZenonT(30) DEF InUse
  <2>3. md' \in Metadata /\ WellFormed(md') /\ disk.meta.cdi \in Seq(Indices) /\ fails \in 0..MaxFailures
    BY <1>1, <1>2, <1>6, <2>1, ZenonT(30)
  <2>4. /\ Queued(md') \subseteq InUse(Found) /\ Queued(md') \cap Range(disk.meta.cdi) = {}
        /\ {} \in SUBSET Indices
    BY <1>2, <1>6, <2>1, ZenonT(30)
  <2>5. fails >= fails
    BY <1>1
  <2>6. /\ md'.r = Found.r /\ md'.w = Found.w /\ md'.used = Found.used /\ disk.meta.cdi = Found.cdi
    BY <1>6, <2>1, ZenonT(30)
  <2>7. Retrieve(disk.meta.cdi, "requeue", fails, {})
    BY <1>6
  <2> QED
    BY <1>5, <2>1, <2>2, <2>3, <2>4, <2>5, <2>6, <2>7, ZenonT(30)
<1>7. CASE /\ disk.meta = Nil /\ disk.legacy = Nil /\ md' = ZeroMetadata
           /\ Retrieve(<<>>, "requeueLegacy", fails, {})
  <2> DEFINE none == <<>>
  <2>1. Found = Nil /\ none \in Seq(Indices) /\ none = <<>> /\ Retrieve(none, "requeueLegacy", fails, {})
    BY <1>7 DEF Found
  <2>2. md' \in Metadata /\ WellFormed(md') /\ Queued(md') \cap Range(none) = {} /\ md' = ZeroMetadata
    BY <1>7, EmptyMetadata
  <2>3. fails >= fails
    BY <1>1
  <2> HIDE DEF none
  <2> QED
    BY <1>1, <1>5, <2>1, <2>2, <2>3, ZenonT(30)
<1>8. CASE /\ disk.meta = Nil /\ disk.legacy # Nil
           /\ \E indexes, dispatched \in BOOLEAN :
                LET earlier == fails + Failed(~indexes) + Failed(~dispatched)
                    unread == (IF indexes THEN {} ELSE Queued(disk.legacy))
                              \cup (IF dispatched THEN {} ELSE Range(disk.legacy.cdi)) IN
                /\ earlier = fails \/ ("load" \in FailOps /\ earlier <= MaxFailures)
                /\ md' = IF indexes THEN [disk.legacy EXCEPT !.cdi = <<>>] ELSE ZeroMetadata
                /\ Retrieve(IF dispatched THEN disk.legacy.cdi ELSE <<>>, "requeueLegacy", earlier, unread)
  <2>1. Found = disk.legacy /\ Found # Nil
    BY <1>8 DEF Found
  <2>2. PICK indexes, dispatched \in BOOLEAN :
          LET earlier == fails + Failed(~indexes) + Failed(~dispatched)
              unread == (IF indexes THEN {} ELSE Queued(disk.legacy))
                        \cup (IF dispatched THEN {} ELSE Range(disk.legacy.cdi)) IN
          /\ earlier = fails \/ ("load" \in FailOps /\ earlier <= MaxFailures)
          /\ md' = IF indexes THEN [disk.legacy EXCEPT !.cdi = <<>>] ELSE ZeroMetadata
          /\ Retrieve(IF dispatched THEN disk.legacy.cdi ELSE <<>>, "requeueLegacy", earlier, unread)
    BY ZenonT(30), <1>8
  <2> DEFINE indices == IF dispatched THEN disk.legacy.cdi ELSE <<>>
             earlier == fails + Failed(~indexes) + Failed(~dispatched)
             unread == (IF indexes THEN {} ELSE Queued(disk.legacy))
                       \cup (IF dispatched THEN {} ELSE Range(disk.legacy.cdi))
  <2>4. /\ earlier \in 0..MaxFailures /\ earlier >= fails /\ (earlier = fails => indexes /\ dispatched)
        /\ earlier # fails => "load" \in FailOps
    BY <1>1, <2>2, BoundAssumption DEF Failed
  <2>5. indices \in Seq(Indices) /\ Retrieve(indices, "requeueLegacy", earlier, unread)
    BY <1>2, <2>1, <2>2
  <2>6. /\ md' \in Metadata /\ WellFormed(md') /\ Queued(md') \subseteq Queued(Found)
        /\ earlier = fails => /\ md'.r = Found.r /\ md'.w = Found.w /\ md'.used = Found.used
                              /\ indices = Found.cdi
    <3>1. CASE ~indexes
      BY <2>2, <2>4, <3>1, EmptyMetadata
    <3>2. CASE indexes
      BY <1>1, <2>1, <2>2, <2>4, <3>2, Undispatched DEF Bare
    <3> QED
      BY <3>1, <3>2
  <2>7. Queued(md') \cap Range(indices) = {} /\ Queued(md') \subseteq InUse(Found)
    <3>1. Range(<<>>) = {}
      BY DEF Range
    <3> QED
      BY <1>2, <2>1, <2>6, <3>1
  <2>8. unread \in SUBSET Indices /\ InUse(Found) \subseteq Queued(md') \cup Range(indices) \cup unread
    <3>1. indexes => Queued(md') = Queued(Found)
      BY <1>1, <2>1, <2>2, Undispatched DEF Bare
    <3>2. Range(Found.cdi) \subseteq InUse(Found) /\ InUse(Found) = Queued(Found) \cup Range(Found.cdi)
      BY ZenonT(30) DEF InUse
    <3>3. unread \subseteq InUse(Found)
      BY <1>2, <2>1, <3>2, ZenonT(30)
    <3>4. unread \in SUBSET Indices
      BY <1>2, <2>1, <3>3, ZenonT(30)
    <3>5. InUse(Found) \subseteq Queued(md') \cup Range(indices) \cup unread
      BY <2>1, <3>1, <3>2, ZenonT(30)
    <3> QED
      BY <3>4, <3>5
  <2> HIDE DEF indices, earlier, unread
  <2> QED
    BY <1>5, <2>1, <2>4, <2>5, <2>6, <2>7, <2>8
<1> QED
  BY <1>4, <1>6, <1>7, <1>8 DEF Start

\* One element goes back into the queue, or is given up.
RequeueEffect ==
  /\ Starting /\ pending # <<>> /\ pending' = Tail(pending)
  /\ \/ Head(pending) = Nil /\ UNCHANGED <<md, disk, fails, hit>>
     \/ /\ Head(pending) \in Offers
        /\ md.w \in Indices
        /\ md' \in Metadata /\ WellFormed(md')
        /\ md'.r = md.r /\ md'.w = md.w + 1 /\ md'.cdi = md.cdi /\ md'.used = md.used
        /\ disk' \in Disks /\ fails' \in 0..MaxFailures
        /\ disk'.legacy = disk.legacy
        /\ disk'.meta \in {disk.meta, md'}
        /\ disk'.items \in {disk.items, With(disk.items, md.w, Head(pending))}
        /\ \/ /\ disk'.meta = md' /\ disk'.items = With(disk.items, md.w, Head(pending))
              /\ hit' = hit
           \/ "recover" \in FailOps /\ hit' = hit \cup {Head(pending)}

\* Requeue is as RequeueEffect says.
LEMMA Requeues ==
  ASSUME IInv, Requeue
  PROVE  /\ RequeueEffect
         /\ UNCHANGED <<phase, refClient, closes, opc, result, cpc, dpc, item, waiting, ch, finished, crashes>>
<1> USE DEF IInv, Core
<1>1. /\ Starting /\ pending # <<>> /\ pending' = Tail(pending)
      /\ UNCHANGED <<phase, refClient, closes, opc, result, cpc, dpc, item, waiting, ch, finished, crashes>>
  BY DEF Requeue, Starting, clientVars, doneVars, condVars
<1>2. CASE Head(pending) = Nil /\ UNCHANGED <<md, disk, fails, hit>>
  BY <1>1, <1>2, ZenonT(30) DEF RequeueEffect
<1>3. CASE /\ Head(pending) # Nil /\ md.w < MaxIndex /\ md' = [md EXCEPT !.w = @ + 1]
           /\ \E s \in Batch("recover", Now, {"meta", "item"}, md', md.w, Head(pending)) :
                /\ Becomes(s)
                /\ hit' = IF s.ok THEN hit ELSE hit \cup {Head(pending)}
  <2>1. md \in Metadata /\ WellFormed(md) /\ Head(pending) \in Elements /\ Head(pending) \in Offers
    <3>1. pending \in Seq(Elements)
      BY DEF TypeOK
    <3>2. Head(pending) \in Elements
      BY <1>1, <3>1
    <3> QED
      BY <1>3, <3>2 DEF TypeOK, MetaInv, Elements
  <2>2. md.w \in Indices /\ md.w + 1 \in 0..MaxIndex
    BY <1>3, <2>1, BoundAssumption DEF Metadata, Indices
  <2>3. md' \in Metadata /\ md'.r = md.r /\ md'.w = md.w + 1 /\ md'.cdi = md.cdi /\ md'.used = md.used
    BY <1>3, <2>1, <2>2 DEF Metadata
  <2>4. WellFormed(md')
    BY <2>1, <2>3, BoundAssumption DEF WellFormed, Metadata
  <2>5. PICK s \in Batch("recover", Now, {"meta", "item"}, md', md.w, Head(pending)) :
          /\ Becomes(s)
          /\ hit' = IF s.ok THEN hit ELSE hit \cup {Head(pending)}
    BY <1>3
  <2>6. AfterBatch("recover", Now, {"meta", "item"}, md', md.w, Head(pending), s)
    BY <2>1, <2>2, <2>3, <2>5, NowTyped, BatchOutcome
  <2>7. disk' = s.disk /\ fails' = s.fails /\ disk' \in Disks /\ fails' \in 0..MaxFailures
    BY <2>5, <2>6 DEF Becomes, AfterBatch, Outcomes
  <2>8. ~Closed
    BY <1>1 DEF Starting, OpenInv
  <2>9. /\ disk'.legacy = disk.legacy
        /\ disk'.meta \in {disk.meta, md'}
        /\ disk'.items \in {disk.items, With(disk.items, md.w, Head(pending))}
        /\ s.ok => disk'.meta = md' /\ disk'.items = With(disk.items, md.w, Head(pending))
        /\ ~s.ok => "recover" \in FailOps
    BY <2>6, <2>7, <2>8, NowTyped DEF AfterBatch
  <2> QED
    BY <1>1, <2>1, <2>2, <2>3, <2>4, <2>5, <2>7, <2>9, ZenonT(30) DEF RequeueEffect
<1> QED
  BY <1>1, <1>2, <1>3 DEF Requeue

\* The end of Start: the dispatched list is empty in memory, and in the storage it
\* is left as it is or, after the legacy format, saved.
ServeEffect ==
  /\ Starting /\ pending = <<>> /\ pending' = pending
  /\ md' \in Metadata /\ WellFormed(md')
  /\ md'.r = md.r /\ md'.w = md.w /\ md'.used = md.used
  /\ disk' \in Disks /\ fails' \in 0..MaxFailures
  /\ disk'.items = disk.items
  /\ \/ /\ phase = "requeue" /\ md'.cdi = <<>>
        /\ disk'.meta = disk.meta /\ disk'.legacy = disk.legacy
     \/ /\ phase = "requeueLegacy" /\ md' = md
        /\ \/ disk'.meta \in {disk.meta, md} /\ disk'.legacy = disk.legacy /\ "recover" \in FailOps
           \/ disk'.meta = md /\ disk'.legacy = Nil
  /\ phase' = "run" /\ cpc' = [c \in Consumers |-> "read"]

\* RequeueDone and MigrateLegacy are as ServeEffect says.
LEMMA Serves ==
  ASSUME IInv, RequeueDone \/ MigrateLegacy
  PROVE  /\ ServeEffect
         /\ UNCHANGED <<refClient, closes, opc, result, dpc, item, waiting, ch, finished, hit, crashes>>
<1> USE DEF IInv, Core
<1>1. /\ Starting /\ pending = <<>> /\ pending' = pending /\ phase' = "run"
      /\ cpc' = [c \in Consumers |-> "read"]
      /\ UNCHANGED <<refClient, closes, opc, result, dpc, item, waiting, ch, finished, hit, crashes>>
  BY DEF RequeueDone, MigrateLegacy, Serve, Starting, clientVars, doneVars, condVars, outcome
<1>2. md \in Metadata /\ WellFormed(md) /\ disk \in Disks /\ fails \in 0..MaxFailures /\ ~Closed
  BY <1>1 DEF OpenInv, TypeOK, Disks, MetaInv, Starting
<1>3. CASE RequeueDone
  <2>1. md' = Bare(md) /\ UNCHANGED <<disk, fails>> /\ phase = "requeue"
    BY <1>3 DEF RequeueDone, Bare
  <2>2. /\ md' \in Metadata /\ WellFormed(md')
        /\ md'.r = md.r /\ md'.w = md.w /\ md'.used = md.used /\ md'.cdi = <<>>
    BY <1>2, <2>1, Undispatched
  <2> QED
    BY <1>1, <1>2, <2>1, <2>2 DEF ServeEffect
<1>4. CASE MigrateLegacy
  <2>1. PICK s \in Batch("recover", Now, {"meta"}, md, 0, Nil) :
          \/ s.ok /\ Becomes([s EXCEPT !.disk.legacy = Nil])
          \/ s.ok /\ CanFail("recover") /\ Becomes([s EXCEPT !.fails = @ + 1])
          \/ ~s.ok /\ Becomes(s)
    BY <1>4, ZenonT(30) DEF MigrateLegacy
  <2>2. phase = "requeueLegacy" /\ md' = md
    BY <1>4 DEF MigrateLegacy
  <2>3. AfterBatch("recover", Now, {"meta"}, md, 0, Nil, s)
    <3>1. 0 \in Indices /\ Nil \in Elements
      BY BoundAssumption DEF Indices, Elements
    <3> QED
      BY <1>2, <2>1, <3>1, NowTyped, BatchOutcome
  <2>4. /\ s \in Outcomes /\ s.disk.items = disk.items /\ s.disk.legacy = disk.legacy
        /\ s.disk.meta \in {disk.meta, md}
        /\ s.ok => s.disk.meta = md /\ s.fails = fails
        /\ ~s.ok => "recover" \in FailOps
    BY <1>2, <2>3, NowTyped DEF AfterBatch
  <2>5. CASE s.ok /\ Becomes([s EXCEPT !.disk.legacy = Nil])
    <3>1. disk' = [s.disk EXCEPT !.legacy = Nil] /\ fails' = s.fails
      BY <2>4, <2>5 DEF Becomes, Outcomes
    <3>2. /\ disk' \in Disks /\ disk'.items = s.disk.items /\ disk'.meta = s.disk.meta
          /\ disk'.legacy = Nil /\ fails' \in 0..MaxFailures
      BY <2>4, <3>1 DEF Outcomes, Disks
    <3> QED
      BY <1>1, <1>2, <2>2, <2>4, <2>5, <3>2 DEF ServeEffect
  <2>6. CASE s.ok /\ CanFail("recover") /\ Becomes([s EXCEPT !.fails = @ + 1])
    <3>1. disk' = s.disk /\ fails' = s.fails + 1 /\ "recover" \in FailOps
      BY <2>4, <2>6 DEF Becomes, Outcomes, CanFail
    <3>2. fails' \in 0..MaxFailures
      BY <1>2, <2>4, <2>6, <3>1, BoundAssumption DEF CanFail
    <3> QED
      BY <1>1, <1>2, <2>2, <2>4, <3>1, <3>2 DEF ServeEffect, Outcomes
  <2>7. CASE ~s.ok /\ Becomes(s)
    <3>1. disk' = s.disk /\ fails' \in 0..MaxFailures /\ disk' \in Disks
      BY <2>4, <2>7 DEF Becomes, Outcomes
    <3> QED
      BY <1>1, <1>2, <2>2, <2>4, <2>7, <3>1 DEF ServeEffect
  <2> QED
    BY <2>1, <2>5, <2>6, <2>7
<1> QED
  BY <1>3, <1>4

\* The steps of Start, before there are consumers, keep the invariant.
LEMMA StartKeeps ==
  ASSUME IInv, StartStep
  PROVE  Core'
<1> USE DEF IInv, Core
<1>1. ~Serving /\ (\A i \in Indices : dpc[i] = "no")
  BY DEF StartStep, Start, Requeue, RequeueDone, MigrateLegacy, Serving, PhaseInv
<1>2. /\ UNCHANGED <<opc, result, dpc, item, waiting, ch, finished, crashes>>
      /\ closes' = closes
  <2>1. CASE Start
    BY <2>1 DEF Start, doneVars, condVars
  <2>2. CASE Requeue
    BY <2>2, Requeues
  <2>3. CASE RequeueDone \/ MigrateLegacy
    BY <2>3, Serves
  <2> QED
    BY <2>1, <2>2, <2>3 DEF StartStep
<1>3. DoneInv'
  BY <1>1, <1>2 DEF DoneInv
<1>4. \A o \in Offers : opc'[o] \in {"new", "returned"}
  BY <1>1, <1>2 DEF PhaseInv
<1>6. ASSUME /\ md' \in Metadata /\ WellFormed(md') /\ disk' \in Disks /\ pending' \in Seq(Elements)
             /\ refClient' \in Nat /\ fails' \in 0..MaxFailures /\ hit' \subseteq Offers
             /\ disk'.meta \in {disk.meta, md'} /\ disk'.legacy \in {disk.legacy, Nil}
             /\ \/ phase' = "run" /\ cpc' = [c \in Consumers |-> "read"] /\ pending' = <<>>
                \/ phase' \in {"requeue", "requeueLegacy"} /\ UNCHANGED cpc
      PROVE  Core'
  <2>1. cpc' \in [Consumers -> {"read", "loop", "sending", "relock", "asleep", "busy", "exited"}]
    BY <1>6 DEF TypeOK
  <2>2. md'.r <= md'.w
    BY <1>6 DEF WellFormed
  <2>3. finished \subseteq Offers /\ phase' \in {"run", "requeue", "requeueLegacy"}
    BY <1>6 DEF TypeOK
  <2>4. TypeOK'
    BY <1>2, <1>6, <2>1, <2>2, <2>3 DEF TypeOK, Disks
  <2>5. MetaInv'
    BY <1>6, ZenonT(30) DEF MetaInv
  <2>6. PhaseInv'
    <3>1. \A c \in Consumers : cpc[c] = "exited"
      BY <1>1 DEF PhaseInv
    <3> QED
      BY <1>1, <1>2, <1>4, <1>6, <3>1 DEF PhaseInv, Starting, Serving
  <2> QED
    BY <1>3, <2>4, <2>5, <2>6
<1>7. hit \subseteq Offers
  BY DEF TypeOK
<1>8. CASE Start
  <2>1. StartEffect /\ refClient' \in Nat
    <3>1. StartEffect /\ refClient' = 1
      BY <1>8, Starts, ZenonT(30) DEF Start
    <3> QED
      BY <3>1
  <2>2. At(Indices) \subseteq Offers
    BY DEF At, TypeOK, Elements
  <2>3. hit' \subseteq Offers
    BY <1>7, <2>1, <2>2, ZenonT(30) DEF StartEffect
  <2> QED
    BY <1>6, <2>1, <2>3 DEF StartEffect
<1>9. CASE Requeue
  <2>1. RequeueEffect /\ UNCHANGED <<phase, refClient, cpc>>
    BY <1>9, Requeues
  <2>2. refClient' \in Nat /\ phase' \in {"requeue", "requeueLegacy"}
    BY <2>1 DEF RequeueEffect, Starting, TypeOK
  <2>3. pending' \in Seq(Elements)
    BY <2>1 DEF RequeueEffect, TypeOK
  <2>4. CASE Head(pending) = Nil /\ UNCHANGED <<md, disk, fails, hit>>
    <3>1. md \in Metadata /\ WellFormed(md) /\ disk \in Disks /\ fails \in 0..MaxFailures
      BY DEF TypeOK, MetaInv, Disks
    <3>2. /\ md' = md /\ disk' = disk /\ fails' = fails /\ hit' = hit
          /\ refClient' \in Nat /\ UNCHANGED cpc
      BY ZenonT(30), <2>1, <2>2, <2>4
    <3>3. disk'.meta \in {disk.meta, md'} /\ disk'.legacy \in {disk.legacy, Nil}
      BY ZenonT(30), <3>2
    <3>4. md' \in Metadata /\ WellFormed(md') /\ disk' \in Disks /\ fails' \in 0..MaxFailures
      BY ZenonT(30), <3>1, <3>2
    <3> QED
      BY ZenonT(30), <1>6, <1>7, <2>2, <2>3, <3>2, <3>3, <3>4
  <2>5. CASE ~(Head(pending) = Nil /\ UNCHANGED <<md, disk, fails, hit>>)
    BY <1>6, <1>7, <2>1, <2>2, <2>3, <2>5, ZenonT(30) DEF RequeueEffect
  <2> QED
    BY <2>4, <2>5
<1>10. CASE RequeueDone \/ MigrateLegacy
  <2>1. ServeEffect /\ UNCHANGED <<refClient, hit>>
    BY ZenonT(30), <1>10, Serves
  <2>2. refClient' \in Nat /\ pending' = <<>> /\ pending' \in Seq(Elements)
    BY <2>1 DEF ServeEffect, TypeOK
  <2> QED
    BY <1>6, <1>7, <2>1, <2>2 DEF ServeEffect
<1> QED
  BY <1>8, <1>9, <1>10 DEF StartStep

\* Shutdown, and the end of the process, keep the invariant.
LEMMA EndKeeps ==
  ASSUME IInv, StopRetries \/ Shutdown \/ ProcessEnds
  PROVE  Core'
<1> USE DEF IInv, Core
<1>1. CASE StopRetries
  <2>1. /\ phase = "run" /\ phase' = "stopping"
        /\ UNCHANGED <<md, disk, pending, refClient, closes, opc, result, cpc, dpc, item, waiting, ch,
                       finished, hit, crashes, fails>>
    BY ZenonT(30), <1>1 DEF StopRetries, clientVars, doneVars, condVars, outcome
  <2>2. TypeOK' /\ MetaInv' /\ DoneInv'
    BY <2>1 DEF TypeOK, MetaInv, DoneInv
  <2> QED
    BY <2>1, <2>2 DEF PhaseInv, Starting, Serving
<1>2. CASE Shutdown
  <2>1. /\ phase = "stopping" /\ phase' = "stopped"
        /\ refClient' = refClient - 1 /\ closes' = IF refClient = 1 THEN closes + 1 ELSE closes
        /\ cpc' = [c \in Consumers |-> IF cpc[c] = "asleep" THEN "read" ELSE cpc[c]]
        /\ UNCHANGED <<md, disk, pending, opc, result, dpc, item, waiting, ch,
                       finished, hit, crashes, fails>>
    BY <1>2 DEF Shutdown, UnrefClient, doneVars, condVars, outcome
  <2>4. refClient' \in Nat /\ closes' \in Nat
    BY <2>1 DEF OpenInv, TypeOK
  <2>5. cpc' \in [Consumers -> {"read", "loop", "sending", "relock", "asleep", "busy", "exited"}]
    BY ZenonT(30), <2>1 DEF TypeOK
  <2>6. TypeOK' /\ MetaInv' /\ DoneInv'
    BY <2>1, <2>4, <2>5 DEF TypeOK, MetaInv, DoneInv
  <2>7. PhaseInv'
    BY <2>1 DEF PhaseInv, Starting, Serving
  <2> QED
    BY <2>6, <2>7
<1>3. CASE ProcessEnds
  <2>1. /\ md' \in Metadata /\ WellFormed(md') /\ md'.r <= md'.w
    BY <1>3, EmptyMetadata, ZenonT(30) DEF ProcessEnds, WellFormed
  <2>2. /\ phase' = "down" /\ pending' = <<>> /\ refClient' = 0 /\ closes' = 0 /\ waiting' = 0 /\ ch' = 0
        /\ dpc' = [i \in Indices |-> "no"] /\ item' = [i \in Indices |-> Nil]
        /\ cpc' = [c \in Consumers |-> "exited"]
        /\ UNCHANGED <<disk, finished, hit, fails>>
    BY <1>3, ZenonT(30) DEF ProcessEnds, outcome
  <2>3. crashes' \in 0..MaxCrashes
    BY <1>3, BoundAssumption DEF ProcessEnds, TypeOK
  <2>4. /\ opc' \in [Offers -> {"new", "returned"}]
        /\ result' \in [Offers -> {"none", "nil", "full", "ctx", "error", "crashed"}]
    BY <1>3 DEF ProcessEnds, TypeOK
  <2>5. <<>> \in Seq(Elements) /\ 0 \in 0..Slots /\ Nil \in Elements
    BY BoundAssumption DEF Elements
  <2>6. opc' \in [Offers -> {"new", "select", "woken", "cancelled", "drain", "returned"}]
    BY <2>4
  <2>7. TypeOK'
    BY <2>1, <2>2, <2>3, <2>4, <2>5, <2>6 DEF TypeOK
  <2>9. MetaInv' /\ PhaseInv' /\ DoneInv'
    BY <2>1, <2>2, <2>4, ZenonT(30) DEF MetaInv, PhaseInv, DoneInv, Starting, Serving
  <2> QED
    BY <2>7, <2>9
<1> QED
  BY <1>1, <1>2, <1>3

\* The metadata that an earlier version has left.
LegacyMetadata == [ZeroMetadata EXCEPT !.r = 1, !.w = Len(Legacy), !.cdi = <<0>>]

\* They are well formed.
LEMMA LegacyFormat ==
  ASSUME Legacy # <<>>
  PROVE  /\ LegacyMetadata \in Metadata /\ WellFormed(LegacyMetadata)
         /\ LegacyMetadata.r = 1 /\ LegacyMetadata.w = Len(Legacy) /\ Range(LegacyMetadata.cdi) = {0}
<1> DEFINE one == <<0>>
<1>1. Len(Legacy) \in 1..MaxIndex /\ 0 \in Indices /\ 1 \in 0..MaxIndex /\ Len(Legacy) \in 0..MaxIndex
  BY LegacyAssumption, BoundAssumption DEF Indices
<1>2. one \in Seq(Indices) /\ Len(one) = 1 /\ Range(one) = {0}
  BY <1>1 DEF Range
<1>3. LegacyMetadata = [ZeroMetadata EXCEPT !.r = 1, !.w = Len(Legacy), !.cdi = one]
  BY DEF LegacyMetadata
<1> HIDE DEF one
<1>4. /\ LegacyMetadata \in Metadata /\ LegacyMetadata.r = 1
      /\ LegacyMetadata.w = Len(Legacy) /\ LegacyMetadata.cdi = one
  BY <1>1, <1>2, <1>3, EmptyMetadata, ZenonT(30) DEF Metadata
<1>5. WellFormed(LegacyMetadata)
  <2>1. 1 <= Len(Legacy)
    BY <1>1, BoundAssumption
  <2>2. Range(one) \subseteq 0..(1 - 1)
    BY <1>2
  <2>3. \A j, k \in 1..Len(one) : j = k
    BY <1>2
  <2> QED
    BY <1>4, <2>1, <2>2, <2>3 DEF WellFormed
<1> QED
  BY <1>2, <1>4, <1>5

\* The first process starts in a state that satisfies the invariant.
LEMMA InitHolds == Init => Core
<1> SUFFICES ASSUME Init PROVE Core
  OBVIOUS
<1> USE DEF Init
<1>1. ZeroMetadata \in Metadata /\ WellFormed(ZeroMetadata)
  BY EmptyMetadata
<1>2. disk.legacy \in Metadata \cup {Nil} /\ (disk.legacy # Nil => WellFormed(disk.legacy))
  <2>1. CASE Legacy # <<>>
    BY <2>1, LegacyFormat DEF LegacyMetadata
  <2>2. CASE Legacy = <<>>
    BY <2>2
  <2> QED
    BY <2>1, <2>2
<1>3. disk \in Disks
  <2>1. [i \in Indices |-> IF i < Len(Legacy) THEN Legacy[i + 1] ELSE Nil] \in [Indices -> Elements]
    <3>1. \A i \in Indices : i < Len(Legacy) => Legacy[i + 1] \in Offers
      BY LegacyAssumption, BoundAssumption DEF Indices
    <3> QED
      BY <3>1 DEF Elements
  <2> QED
    BY <1>2, <2>1 DEF Disks
<1>4. <<>> \in Seq(Elements) /\ 0 \in 0..Slots /\ 0 \in 0..MaxCrashes /\ 0 \in 0..MaxFailures /\ Nil \in Elements
  BY BoundAssumption DEF Elements
<1>5. TypeOK
  BY <1>1, <1>3, <1>4 DEF TypeOK, Disks, WellFormed
<1>7. MetaInv
  BY <1>1, <1>2 DEF MetaInv
<1>8. PhaseInv /\ DoneInv
  BY DEF PhaseInv, DoneInv, Starting, Serving
<1> QED
  BY <1>5, <1>7, <1>8 DEF Core

\* Every step keeps the invariant.
LEMMA StepKeeps == IInv /\ [Next]_vars => Core'
<1>1. ASSUME IInv, UNCHANGED vars PROVE Core'
  BY <1>1, ZenonT(30) DEF vars, clientVars, condVars, doneVars, outcome, IInv, Core, TypeOK, MetaInv, PhaseInv,
              DoneInv, Starting, Serving, WellFormed
<1> QED
  BY <1>1, StartKeeps, OfferKeeps, SpaceKeeps, ConsumerKeeps, DoneKeeps, EndKeeps
  DEF Next, OfferStep, Terminated
=============================================================================
