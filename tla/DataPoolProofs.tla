--------------------------- MODULE DataPoolProofs ---------------------------
(***************************************************************************)
(* Data is not deleted while somebody uses it, for every well-built graph  *)
(* in which, where pooling is enabled, the fan-outs with several read-only *)
(* consumers are called by components (PoolingSheltered).                  *)
(*                                                                         *)
(* CountInv says what the counter of an object counts: the owner, if there *)
(* is one, and those who keep the object.  PoolInv says that whoever will  *)
(* still use an object is covered by one of them.  The lemmas say what a   *)
(* call and a return do to either, and that no step breaks them.           *)
(***************************************************************************)
EXTENDS DataFlowProofs, FiniteSetTheorems

\* The provers of a step, in this order, and their time in seconds.
USE SMTT(30), ZenonT(30), Z3T(30)

(***************************************************************************)
(* References.  At most one call owns an object; each reference is that of *)
(* the owner, or of a consumer that keeps the object.                      *)
(***************************************************************************)
HasOwner(o) == \E i \in DOMAIN stack : stack[i].unref /\ stack[i].obj = o

Keepers(o) == {h \in kept : h.obj = o}

OneOwner ==
  /\ \A i \in DOMAIN stack : stack[i].unref => data[stack[i].obj].owned
  /\ \A i, j \in DOMAIN stack : stack[i].unref /\ stack[j].unref /\ i # j => stack[i].obj # stack[j].obj

Counted ==
  /\ \A h \in kept : h.ref < data[h.obj].taken
  /\ \A o \in DOMAIN data :
       /\ IsFiniteSet(Keepers(o))
       /\ ~data[o].owned \/ HasOwner(o) => data[o].refs = Cardinality(Keepers(o)) + 1
       /\ data[o].owned /\ ~HasOwner(o) => data[o].refs = Cardinality(Keepers(o))

CountInv == OneOwner /\ Counted

(***************************************************************************)
(* Pooling.  Whoever will still use an object that is owned was called,    *)
(* directly or not, by the owner; an object that nobody owns has one user. *)
(***************************************************************************)
Several(n) == \E j, k \in ReadOnly(n) : j # k

Covered ==
  \A i \in DOMAIN stack :
    /\ Node(stack[i].node).kind # "fanout" \/ Several(stack[i].node) => data[stack[i].obj].owned
    /\ Pending(stack[i]) /\ data[stack[i].obj].owned =>
         \E j \in 1..i : stack[j].unref /\ stack[j].obj = stack[i].obj
    /\ Pending(stack[i]) /\ ~data[stack[i].obj].owned =>
         \A j \in DOMAIN stack : j # i /\ Pending(stack[j]) => stack[j].obj # stack[i].obj

PoolInv ==
  /\ \A o \in DOMAIN data : Reset \in data[o].changes => config.pooling /\ data[o].refs = 0
  /\ config.pooling => Covered

PoolingSheltered == \A c \in Configs : c.pooling => Sheltered(c.nodes)

\* The stack and the objects around a call, pointwise.
LEMMA CallCounts ==
  ASSUME FlowTypeOK, CallsInOrder, CountInv, stack # <<>>, UNCHANGED <<config, mutates, kept>>,
         NEW k \in Top.todo, NEW d \in Seq(Objects), DOMAIN data \subseteq DOMAIN d,
         NEW o \in DOMAIN d, NEW path \in SUBSET Nat,
         Call(Called(k), k, d, o, path),
         \A p \in DOMAIN data : d[p].owned = data[p].owned /\ d[p].refs = data[p].refs /\ d[p].taken = data[p].taken,
         \A p \in DOMAIN d : p \notin DOMAIN data => ~d[p].owned /\ d[p].refs = 1
  PROVE  CountInv'
<1>1. PICK L \in Nat \ {0} : L = Len(stack) /\ DOMAIN stack = 1..L /\ Top = stack[L]
  BY TopIsCall, ZenonT(30)
<1>2. PICK C \in BOOLEAN : C = (Node(Entry(k)).kind # "fanout")
  BY ZenonT(30)
<1>3. /\ DOMAIN stack' = 1..(L + 1) /\ DOMAIN data' = DOMAIN d
      /\ \A i \in 1..L : stack'[i].unref = stack[i].unref /\ stack'[i].obj = stack[i].obj
      /\ stack'[L + 1].obj = o
      /\ stack'[L + 1].unref <=> (C /\ ~d[o].owned)
      /\ \A p \in DOMAIN d : /\ data'[p].refs = d[p].refs /\ data'[p].taken = d[p].taken
                             /\ data'[p].owned <=> (d[p].owned \/ (p = o /\ C))
  <2>1. /\ \A i \in 1..(L - 1) : stack'[i] = stack[i]
        /\ stack'[L].unref = stack[L].unref /\ stack'[L].obj = stack[L].obj
    BY <1>1, CallEffect
  <2>2. \A i \in 1..L : i = L \/ i \in 1..(L - 1)
    OBVIOUS
  <2>3. \A i \in 1..L : stack'[i].unref = stack[i].unref /\ stack'[i].obj = stack[i].obj
    BY <2>1, <2>2
  <2>4. /\ DOMAIN stack' = 1..(L + 1) /\ DOMAIN data' = DOMAIN d
        /\ stack'[L + 1].obj = o
        /\ \A p \in DOMAIN d : data'[p].refs = d[p].refs /\ data'[p].taken = d[p].taken
    BY <1>1, CallEffect
  <2>u. stack'[Len(stack) + 1].unref = (Node(Entry(k)).kind # "fanout" /\ ~d[o].owned)
    BY CallEffect, ZenonT(30)
  <2>5. stack'[L + 1].unref <=> (C /\ ~d[o].owned)
    BY <1>1, <1>2, <2>u, ZenonT(30)
  <2>6. \A p \in DOMAIN d : data'[p].owned = (d[p].owned \/ (p = o /\ Node(Entry(k)).kind # "fanout"))
    BY CallEffect
  <2>7. \A p \in DOMAIN d : data'[p].owned <=> (d[p].owned \/ (p = o /\ C))
    BY <1>2, <2>6, ZenonT(30)
  <2> QED
    BY <2>3, <2>4, <2>5, <2>7
<1>4. /\ \A i \in 1..L : stack[i].obj \in DOMAIN data
      /\ \A h \in kept : h.obj \in DOMAIN data
  BY <1>1 DEF CallsInOrder
<1>5. \A i \in 1..(L + 1) : i = L + 1 \/ i \in 1..L
  OBVIOUS
<1>6. /\ \A i \in 1..L : stack[i].unref => data[stack[i].obj].owned
      /\ \A i, j \in 1..L : stack[i].unref /\ stack[j].unref /\ i # j => stack[i].obj # stack[j].obj
  BY <1>1 DEF CountInv, OneOwner
<1>7. \A i \in 1..(L + 1) : stack'[i].unref => data'[stack'[i].obj].owned
  <2>1. ASSUME NEW i \in 1..L, stack'[i].unref PROVE data'[stack'[i].obj].owned
    <3>1. stack[i].unref /\ stack'[i].obj = stack[i].obj /\ stack[i].obj \in DOMAIN data
      BY <1>3, <1>4, <2>1
    <3>2. data[stack[i].obj].owned
      BY <1>6, <3>1
    <3> QED
      BY <1>3, <3>1, <3>2
  <2>2. stack'[L + 1].unref => data'[stack'[L + 1].obj].owned
    BY <1>3
  <2> QED
    BY <1>5, <2>1, <2>2
<1>8. \A i \in 1..L : stack[i].unref /\ stack'[L + 1].unref => stack[i].obj # o
  BY <1>3, <1>4, <1>6
<1>9. OneOwner'
  <2>1. ASSUME NEW i \in 1..L, NEW j \in 1..L, stack'[i].unref, stack'[j].unref, i # j
        PROVE  stack'[i].obj # stack'[j].obj
    <3>1. stack[i].unref /\ stack[j].unref /\ stack'[i].obj = stack[i].obj /\ stack'[j].obj = stack[j].obj
      BY <1>3, <2>1, ZenonT(30)
    <3>2. stack[i].unref /\ stack[j].unref /\ i # j => stack[i].obj # stack[j].obj
      BY <1>6, ZenonT(30)
    <3> QED
      BY <2>1, <3>1, <3>2, ZenonT(30)
  <2>2. ASSUME NEW i \in 1..L, stack'[i].unref, stack'[L + 1].unref
        PROVE  stack'[i].obj # stack'[L + 1].obj
    BY <1>3, <1>8, <2>2, ZenonT(30)
  <2>3. \A i, j \in 1..(L + 1) : stack'[i].unref /\ stack'[j].unref /\ i # j => stack'[i].obj # stack'[j].obj
    BY <1>5, <2>1, <2>2, ZenonT(30)
  <2> QED
    BY <1>3, <1>7, <2>3, ZenonT(30) DEF OneOwner
<1>10. \A p : Keepers(p)' = Keepers(p)
  BY DEF Keepers
<1>11. \A p : HasOwner(p)' <=> HasOwner(p) \/ (p = o /\ C /\ ~d[o].owned)
  <2>1. ASSUME NEW p, HasOwner(p)'
        PROVE  HasOwner(p) \/ (p = o /\ C /\ ~d[o].owned)
    <3>1. PICK i \in 1..(L + 1) : stack'[i].unref /\ stack'[i].obj = p
      BY <1>3, <2>1 DEF HasOwner
    <3> QED
      BY <1>1, <1>3, <1>5, <3>1 DEF HasOwner
  <2>2. ASSUME NEW p, HasOwner(p)
        PROVE  HasOwner(p)'
    <3>1. PICK i \in 1..L : stack[i].unref /\ stack[i].obj = p
      BY <1>1, <2>2 DEF HasOwner
    <3>2. i \in 1..(L + 1)
      OBVIOUS
    <3> QED
      BY <1>3, <3>1, <3>2, ZenonT(30) DEF HasOwner
  <2>3. ASSUME C, ~d[o].owned
        PROVE  HasOwner(o)'
    <3>1. L + 1 \in 1..(L + 1)
      OBVIOUS
    <3> QED
      BY <1>3, <2>3, <3>1 DEF HasOwner
  <2> QED
    BY <2>1, <2>2, <2>3
<1>12. \A p \in DOMAIN d : p \notin DOMAIN data => Keepers(p) = {}
  BY <1>4 DEF Keepers
<1>13. ASSUME NEW p \in DOMAIN d
       PROVE  /\ IsFiniteSet(Keepers(p))
              /\ ~data'[p].owned \/ HasOwner(p)' => data'[p].refs = Cardinality(Keepers(p)) + 1
              /\ data'[p].owned /\ ~HasOwner(p)' => data'[p].refs = Cardinality(Keepers(p))
  <2>1. CASE p \in DOMAIN data
    <3>1. /\ IsFiniteSet(Keepers(p))
          /\ ~data[p].owned \/ HasOwner(p) => data[p].refs = Cardinality(Keepers(p)) + 1
          /\ data[p].owned /\ ~HasOwner(p) => data[p].refs = Cardinality(Keepers(p))
      BY <2>1 DEF CountInv, Counted
    <3> QED
      BY <1>3, <1>11, <2>1, <3>1
  <2>2. CASE p \notin DOMAIN data
    <3>1. Keepers(p) = {} /\ IsFiniteSet(Keepers(p)) /\ Cardinality(Keepers(p)) = 0
      BY <1>12, <2>2, FS_EmptySet, ZenonT(30)
    <3>2. ~HasOwner(p)
      BY <1>1, <1>4, <2>2 DEF HasOwner
    <3>3. data'[p].refs = 1 /\ (data'[p].owned <=> p = o /\ C) /\ (HasOwner(p)' <=> p = o /\ C)
      BY <1>3, <1>11, <2>2, <3>2
    <3> QED
      BY <3>1, <3>3
  <2> QED
    BY <2>1, <2>2
<1>14. \A h \in kept : h.ref < data'[h.obj].taken
  BY <1>3, <1>4 DEF CountInv, Counted
<1>15. Counted'
  BY <1>3, <1>10, <1>13, <1>14 DEF Counted
<1> QED
  BY <1>9, <1>15 DEF CountInv

\* Nothing about owners and references changes.
LEMMA SameCounts ==
  ASSUME CallsInOrder, CountInv, kept' = kept, DOMAIN stack' = DOMAIN stack, DOMAIN data' = DOMAIN data,
         \A i \in DOMAIN stack : stack'[i].unref = stack[i].unref /\ stack'[i].obj = stack[i].obj,
         \A p \in DOMAIN data : /\ data'[p].owned = data[p].owned /\ data'[p].refs = data[p].refs
                                /\ data'[p].taken = data[p].taken
  PROVE  CountInv'
<1>1. OneOwner'
  BY DEF CountInv, OneOwner, CallsInOrder
<1>2. \A p : Keepers(p)' = Keepers(p) /\ (HasOwner(p)' <=> HasOwner(p))
  BY DEF Keepers, HasOwner
<1>3. Counted'
  BY <1>2 DEF CountInv, Counted, CallsInOrder
<1> QED
  BY <1>1, <1>3 DEF CountInv

\* A call returns: the owner's reference goes with it.
LEMMA PopCounts ==
  ASSUME FlowTypeOK, CallsInOrder, CountInv, stack # <<>>, UNCHANGED <<config, mutates>>,
         NEW d \in Seq(Objects), DOMAIN d = DOMAIN data, Pop(d),
         \A p \in DOMAIN data :
           /\ d[p].owned = data[p].owned
           /\ IsFiniteSet(Keepers(p)')
           /\ Cardinality(Keepers(p)') - Cardinality(Keepers(p)) = d[p].refs - data[p].refs,
         \A h \in kept' : h.ref < d[h.obj].taken /\ h.obj \in DOMAIN data
  PROVE  CountInv'
<1>1. PICK L \in Nat \ {0} : L = Len(stack) /\ DOMAIN stack = 1..L /\ Top = stack[L] /\ L \in DOMAIN stack
  BY TopIsCall, ZenonT(30)
<1>2. PICK C \in BOOLEAN : C <=> Top.unref
  BY ZenonT(30)
<1>3. /\ DOMAIN stack' = 1..(L - 1) /\ DOMAIN data' = DOMAIN data
      /\ \A i \in 1..(L - 1) : i \in 1..L /\ i # L /\ stack'[i] = stack[i]
  BY <1>1, PopEffect
<1>4. \A p \in DOMAIN data :
        /\ data'[p].owned = data[p].owned /\ data'[p].taken = d[p].taken
        /\ C /\ p = Top.obj => data'[p].refs = d[p].refs - 1
        /\ ~(C /\ p = Top.obj) => data'[p].refs = d[p].refs
  <2>1. \A p \in DOMAIN data :
          /\ data'[p].owned = d[p].owned /\ data'[p].taken = d[p].taken
          /\ data'[p].refs = IF Top.unref /\ p = Top.obj THEN d[p].refs - 1 ELSE d[p].refs
    BY PopEffect, ZenonT(30)
  <2> QED
    BY <1>2, <2>1
<1>5. \A i \in 1..L : i = L \/ i \in 1..(L - 1)
  OBVIOUS
<1>6. /\ \A i \in 1..L : stack[i].obj \in DOMAIN data
      /\ \A i \in 1..L : stack[i].unref => data[stack[i].obj].owned
      /\ \A i, j \in 1..L : stack[i].unref /\ stack[j].unref /\ i # j => stack[i].obj # stack[j].obj
  BY <1>1 DEF CallsInOrder, CountInv, OneOwner
<1>7. OneOwner'
  <2>1. \A i \in 1..(L - 1) : stack'[i].unref => data'[stack'[i].obj].owned
    BY <1>3, <1>4, <1>6, ZenonT(30)
  <2>2. ASSUME NEW i \in 1..(L - 1), NEW j \in 1..(L - 1), stack'[i].unref, stack'[j].unref, i # j
        PROVE  stack'[i].obj # stack'[j].obj
    <3>1. stack'[i] = stack[i] /\ stack'[j] = stack[j] /\ i \in 1..L /\ j \in 1..L
      BY <1>3, ZenonT(30)
    <3> QED
      BY <1>6, <2>2, <3>1, ZenonT(30)
  <2> QED
    BY <1>3, <2>1, <2>2 DEF OneOwner
<1>8. \A p : HasOwner(p)' <=> HasOwner(p) /\ ~(C /\ p = Top.obj)
  <2>1. ASSUME NEW p, HasOwner(p)'
        PROVE  HasOwner(p) /\ ~(C /\ p = Top.obj)
    <3>1. PICK i \in 1..(L - 1) : stack'[i].unref /\ stack'[i].obj = p
      BY <1>3, <2>1 DEF HasOwner
    <3>2. i \in 1..L /\ i # L /\ stack[i].unref /\ stack[i].obj = p
      BY <1>3, <3>1
    <3>3. C => Top.obj # p
      BY <1>1, <1>2, <1>6, <3>2
    <3> QED
      BY <1>1, <3>2, <3>3 DEF HasOwner
  <2>2. ASSUME NEW p, HasOwner(p), ~(C /\ p = Top.obj)
        PROVE  HasOwner(p)'
    <3>1. PICK i \in 1..L : stack[i].unref /\ stack[i].obj = p
      BY <1>1, <2>2 DEF HasOwner
    <3>2. i \in 1..(L - 1)
      BY <1>1, <1>2, <1>5, <2>2, <3>1
    <3> QED
      BY <1>3, <3>1, <3>2 DEF HasOwner
  <2> QED
    BY <2>1, <2>2
<1>9. ASSUME NEW p \in DOMAIN data
      PROVE  /\ ~data'[p].owned \/ HasOwner(p)' => data'[p].refs = Cardinality(Keepers(p)') + 1
             /\ data'[p].owned /\ ~HasOwner(p)' => data'[p].refs = Cardinality(Keepers(p)')
  <2>1. PICK a \in Int : a = Cardinality(Keepers(p))
    BY FS_CardinalityType DEF CountInv, Counted
  <2>2. PICK b \in Int : b = Cardinality(Keepers(p)')
    BY FS_CardinalityType
  <2>o. data[p] \in Objects /\ d[p] \in Objects
    BY DEF FlowTypeOK
  <2>3. PICK r \in Int : r = data[p].refs
    BY <2>o DEF Objects
  <2>4. PICK s \in Int : s = d[p].refs
    BY <2>o DEF Objects
  <2>5. /\ ~data[p].owned \/ HasOwner(p) => r = a + 1
        /\ data[p].owned /\ ~HasOwner(p) => r = a
    BY <2>1, <2>3 DEF CountInv, Counted
  <2>6. b - a = s - r
    BY <2>1, <2>2, <2>3, <2>4
  <2>7. C /\ p = Top.obj => data[p].owned /\ HasOwner(p)
    BY <1>1, <1>2, <1>6 DEF HasOwner
  <2>8. /\ data'[p].owned = data[p].owned
        /\ C /\ p = Top.obj => data'[p].refs = s - 1
        /\ ~(C /\ p = Top.obj) => data'[p].refs = s
    BY <1>4, <2>4
  <2>9. /\ ~data'[p].owned \/ HasOwner(p)' => data'[p].refs = b + 1
        /\ data'[p].owned /\ ~HasOwner(p)' => data'[p].refs = b
    <3> HIDE <2>1, <2>2, <2>3, <2>4
    <3>1. CASE C /\ p = Top.obj
      BY <1>8, <2>5, <2>6, <2>7, <2>8, <3>1
    <3>2. CASE ~(C /\ p = Top.obj)
      BY <1>8, <2>5, <2>6, <2>8, <3>2
    <3> QED
      BY <3>1, <3>2
  <2> QED
    BY <2>2, <2>9
<1>10. Counted'
  BY <1>3, <1>4, <1>9 DEF Counted
<1> QED
  BY <1>7, <1>10 DEF CountInv

\* Nobody else keeps data now: the keepers of an object are the same.
LEMMA SameKeepers ==
  ASSUME CallsInOrder, CountInv, kept' = kept
  PROVE  /\ \A p \in DOMAIN data :
              /\ IsFiniteSet(Keepers(p)')
              /\ Cardinality(Keepers(p)') - Cardinality(Keepers(p)) = 0
         /\ \A h \in kept' : h.ref < data[h.obj].taken /\ h.obj \in DOMAIN data
<1>1. \A p : Keepers(p)' = Keepers(p)
  BY DEF Keepers
<1>2. \A p \in DOMAIN data : IsFiniteSet(Keepers(p)) /\ Cardinality(Keepers(p)) \in Int
  BY FS_CardinalityType DEF CountInv, Counted
<1>3. \A h \in kept' : h.ref < data[h.obj].taken /\ h.obj \in DOMAIN data
  BY DEF CountInv, Counted, CallsInOrder
<1> QED
  BY <1>1, <1>2, <1>3

\* One more keeps an object: a new reference.
LEMMA OneMoreKeeper ==
  ASSUME FlowTypeOK, CallsInOrder, CountInv, NEW g, g.obj \in DOMAIN data, g.ref = data[g.obj].taken,
         kept' = kept \union {g}
  PROVE  /\ \A p \in DOMAIN data : p # g.obj =>
              IsFiniteSet(Keepers(p)') /\ Cardinality(Keepers(p)') - Cardinality(Keepers(p)) = 0
         /\ IsFiniteSet(Keepers(g.obj)')
         /\ Cardinality(Keepers(g.obj)') - Cardinality(Keepers(g.obj)) = 1
<1>1. \A p \in DOMAIN data : IsFiniteSet(Keepers(p)) /\ Cardinality(Keepers(p)) \in Int
  BY FS_CardinalityType DEF CountInv, Counted
<1>2. \A p : p # g.obj => Keepers(p)' = Keepers(p)
  BY DEF Keepers
<1>3. Keepers(g.obj)' = Keepers(g.obj) \union {g}
  BY DEF Keepers
<1>4. g \notin kept
  <2>o. \A p \in DOMAIN data : data[p] \in Objects
    BY DEF FlowTypeOK
  <2>1. \A p \in DOMAIN data : data[p].taken \in Int
    BY <2>o DEF Objects
  <2>2. \A h \in kept : h.ref < data[h.obj].taken
    BY DEF CountInv, Counted
  <2> QED
    BY <2>1, <2>2
<1>5. g \notin Keepers(g.obj)
  BY <1>4 DEF Keepers
<1>6. IsFiniteSet(Keepers(g.obj)') /\ Cardinality(Keepers(g.obj)') = Cardinality(Keepers(g.obj)) + 1
  BY <1>1, <1>3, <1>5, FS_AddElement
<1> QED
  BY <1>1, <1>2, <1>6

\* Data that will still be used was not deleted: its reference count is not zero.
LEMMA PendingIsAlive ==
  ASSUME FlowTypeOK, CallsInOrder, CountInv, PoolInv, NEW i \in DOMAIN stack, Pending(stack[i])
  PROVE  Reset \notin data[stack[i].obj].changes
<1>1. CASE config.pooling
  <2>1. PICK o \in DOMAIN data : o = stack[i].obj
    BY DEF CallsInOrder
  <2>2. ~data[o].owned \/ HasOwner(o)
    <3>1. CASE data[o].owned
      <4>1. PICK j \in 1..i : stack[j].unref /\ stack[j].obj = o
        BY <1>1, <2>1, <3>1 DEF PoolInv, Covered
      <4>2. PICK L \in Nat : DOMAIN stack = 1..L
        BY DEF FlowTypeOK
      <4>3. j \in DOMAIN stack
        BY <4>2
      <4> QED
        BY <4>1, <4>3 DEF HasOwner
    <3> QED
      BY <3>1
  <2>3. data[o].refs = Cardinality(Keepers(o)) + 1 /\ IsFiniteSet(Keepers(o))
    BY <2>2 DEF CountInv, Counted
  <2>4. Cardinality(Keepers(o)) \in Nat
    BY <2>3, FS_CardinalityType
  <2>5. data[o].refs # 0
    BY <2>3, <2>4
  <2> QED
    BY <2>1, <2>5 DEF PoolInv
<1>2. CASE ~config.pooling
  BY <1>2 DEF PoolInv, CallsInOrder
<1> QED
  BY <1>1, <1>2

\* Neither was data that a consumer keeps.
LEMMA KeptIsAlive ==
  ASSUME FlowTypeOK, CallsInOrder, CountInv, PoolInv, NEW h \in kept
  PROVE  Reset \notin data[h.obj].changes
<1>1. PICK o \in DOMAIN data : o = h.obj
  BY DEF CallsInOrder
<1>2. IsFiniteSet(Keepers(o)) /\ Keepers(o) # {}
  BY <1>1 DEF CountInv, Counted, Keepers
<1>3. Cardinality(Keepers(o)) \in Nat /\ Cardinality(Keepers(o)) # 0
  BY <1>2, FS_CardinalityType, FS_EmptySet
<1>4. data[o].refs = Cardinality(Keepers(o)) \/ data[o].refs = Cardinality(Keepers(o)) + 1
  BY DEF CountInv, Counted
<1>5. data[o].refs # 0
  BY <1>3, <1>4
<1> QED
  BY <1>1, <1>5 DEF PoolInv

\* With pooling, only a component calls a fan-out with several read-only consumers.
LEMMA CalledByComponent ==
  ASSUME FlowTypeOK, PoolingSheltered, config.pooling, NEW n \in DOMAIN config.nodes, NEW k \in Node(n).next,
         Node(Entry(k)).kind = "fanout", Several(Entry(k))
  PROVE  Node(n).kind \in {"processor", "connector"}
<1>1. PICK f \in DOMAIN config.nodes : f = Entry(k)
  BY EntryIsComponent
<1>2. \A j \in Node(f).next : j \in ReadOnly(f) => ~Capabilities(config.nodes)[j]
  BY DEF ReadOnly, Mutable, FlowTypeOK
<1>3. \E j, l \in config.nodes[f].next : j # l /\ ~Capabilities(config.nodes)[j] /\ ~Capabilities(config.nodes)[l]
  BY <1>1, <1>2 DEF Several, ReadOnly, Node
<1>4. Sheltered(config.nodes)
  BY DEF PoolingSheltered, FlowTypeOK
<1>5. \A m \in DOMAIN config.nodes : f \in config.nodes[m].next => config.nodes[m].kind \in {"processor", "connector"}
  BY <1>1, <1>3, <1>4 DEF Sheltered, Node
<1>6. CASE Node(k).kind # "capabilities"
  BY <1>1, <1>5, <1>6, EntryIsComponent DEF Node
<1>7. CASE Node(k).kind = "capabilities"
  <2>1. k \in DOMAIN config.nodes
    BY EntryIsComponent
  <2>2. Linked(config.nodes, k)
    BY <2>1, GraphIsBuilt
  <2>3. \E m \in DOMAIN config.nodes : config.nodes[k].next = {m}
    BY <1>7, <2>2 DEF Linked, Node
  <2>4. Entry(k) \in config.nodes[k].next
    BY <1>7, <2>3 DEF Entry, Node
  <2> QED
    BY <1>1, <1>5, <1>7, <2>1, <2>4 DEF Node
<1> QED
  BY <1>6, <1>7

\* The cover after a step, in terms of the graph, which no step changes.
LEMMA CoveredLater ==
  ASSUME UNCHANGED <<config, mutates>>,
         \A i \in DOMAIN stack' :
           /\ Node(stack'[i].node).kind # "fanout" \/ Several(stack'[i].node) => data'[stack'[i].obj].owned
           /\ Pending(stack'[i]) /\ data'[stack'[i].obj].owned =>
                \E j \in 1..i : stack'[j].unref /\ stack'[j].obj = stack'[i].obj
           /\ Pending(stack'[i]) /\ ~data'[stack'[i].obj].owned =>
                \A j \in DOMAIN stack' : j # i /\ Pending(stack'[j]) => stack'[j].obj # stack'[i].obj
  PROVE  Covered'
BY DEF Covered, Pending, Several, ReadOnly, Mutable, Node

\* A call with the caller's own object.
LEMMA SameObjectPools ==
  ASSUME FlowTypeOK, CallsInOrder, CountInv, PoolInv, stack # <<>>, UNCHANGED <<config, mutates, kept>>,
         NEW k \in Top.todo, NEW d \in Seq(Objects), DOMAIN d = DOMAIN data,
         NEW path \in SUBSET Nat,
         Call(Called(k), k, d, Top.obj, path),
         \A p \in DOMAIN data : /\ d[p].owned = data[p].owned /\ d[p].refs = data[p].refs
                                /\ Reset \in d[p].changes => Reset \in data[p].changes,
         Node(Top.node).kind # "exporter",
         config.pooling => data[Top.obj].owned \/ Top.todo = {k},
         config.pooling /\ Node(Entry(k)).kind = "fanout" /\ Several(Entry(k)) => data[Top.obj].owned
  PROVE  PoolInv'
<1>1. PICK L \in Nat \ {0} : L = Len(stack) /\ DOMAIN stack = 1..L /\ Top = stack[L] /\ Top.obj \in DOMAIN data
  BY TopIsCall, ZenonT(30)
<1>2. PICK C \in BOOLEAN : C <=> (Node(Entry(k)).kind # "fanout")
  BY ZenonT(30)
<1>3. PICK o \in DOMAIN data : o = Top.obj
  BY <1>1
<1>4. /\ DOMAIN stack' = 1..(L + 1) /\ DOMAIN data' = DOMAIN data
      /\ stack'[L + 1].obj = o /\ stack'[L + 1].node = Entry(k)
      /\ stack'[L].node = stack[L].node /\ stack'[L].todo = stack[L].todo \ {k}
      /\ stack'[L].unref = stack[L].unref /\ stack'[L].obj = stack[L].obj
      /\ \A i \in 1..(L - 1) : stack'[i] = stack[i]
  BY <1>1, <1>3, CallEffect, ZenonT(30)
<1>5. stack'[L + 1].unref <=> (C /\ ~data[o].owned)
  <2>1. stack'[Len(stack) + 1].unref = (Node(Entry(k)).kind # "fanout" /\ ~d[Top.obj].owned)
    BY <1>1, CallEffect
  <2> QED
    BY <1>1, <1>2, <1>3, <2>1, ZenonT(30)
<1>6. \A p \in DOMAIN data :
        /\ data'[p].refs = data[p].refs
        /\ Reset \in data'[p].changes => Reset \in data[p].changes
        /\ data'[p].owned <=> (data[p].owned \/ (p = o /\ C))
  <2>1. \A p \in DOMAIN d :
          /\ data'[p].refs = d[p].refs /\ data'[p].changes = d[p].changes
          /\ data'[p].owned = (d[p].owned \/ (p = Top.obj /\ Node(Entry(k)).kind # "fanout"))
    BY <1>1, CallEffect
  <2> QED
    BY <1>2, <1>3, <2>1, ZenonT(30)
<1>7. \A p \in DOMAIN data' : Reset \in data'[p].changes => config'.pooling /\ data'[p].refs = 0
  BY ZenonT(30), <1>4, <1>6 DEF PoolInv
<1>8. ASSUME config.pooling PROVE Covered'
  <2>1. \A i \in 1..L : /\ i = L \/ i \in 1..(L - 1)
                        /\ i \in 1..(L + 1)
    OBVIOUS
  <2>2. \A i \in 1..L :
          /\ stack'[i].node = stack[i].node /\ stack'[i].obj = stack[i].obj /\ stack'[i].unref = stack[i].unref
          /\ Pending(stack'[i]) => Pending(stack[i])
          /\ stack[i].obj \in DOMAIN data
    <3>1. Pending(stack'[L]) => Pending(stack[L])
      BY <1>4 DEF Pending
    <3>2. \A i \in 1..(L - 1) : Pending(stack'[i]) => Pending(stack[i])
      BY <1>4 DEF Pending
    <3>3. \A i \in 1..L : stack[i].obj \in DOMAIN data
      BY ZenonT(30), <1>1 DEF CallsInOrder
    <3> QED
      BY ZenonT(30), <1>4, <2>1, <3>1, <3>2, <3>3
  <2>3. Pending(stack[L]) /\ (~data[o].owned => ~Pending(stack'[L]))
    BY <1>1, <1>3, <1>4, <1>8, ZenonT(30) DEF Pending
  <2>4. \A i \in 1..L :
          /\ Node(stack[i].node).kind # "fanout" \/ Several(stack[i].node) => data[stack[i].obj].owned
          /\ Pending(stack[i]) /\ data[stack[i].obj].owned =>
               \E j \in 1..i : stack[j].unref /\ stack[j].obj = stack[i].obj
          /\ Pending(stack[i]) /\ ~data[stack[i].obj].owned =>
               \A j \in 1..L : j # i /\ Pending(stack[j]) => stack[j].obj # stack[i].obj
    BY <1>1, <1>8 DEF PoolInv, Covered
  <2>6. \A i \in 1..(L + 1) :
          Node(stack'[i].node).kind # "fanout" \/ Several(stack'[i].node) => data'[stack'[i].obj].owned
    <3>1. ASSUME NEW i \in 1..L, Node(stack'[i].node).kind # "fanout" \/ Several(stack'[i].node)
          PROVE  data'[stack'[i].obj].owned
      BY <1>6, <2>2, <2>4, <3>1
    <3>2. Node(stack'[L + 1].node).kind # "fanout" \/ Several(stack'[L + 1].node) => data'[stack'[L + 1].obj].owned
      BY <1>2, <1>3, <1>4, <1>6, <1>8
    <3>3. \A i \in 1..(L + 1) : i = L + 1 \/ i \in 1..L
      OBVIOUS
    <3> QED
      BY <3>1, <3>2, <3>3
  <2>7. ~data[o].owned => \A i \in 1..L : Pending(stack'[i]) => stack[i].obj # o
    BY <1>1, <1>3, <2>2, <2>3, <2>4
  <2>8. \A i \in 1..(L + 1) : Pending(stack'[i]) /\ data'[stack'[i].obj].owned =>
                                \E j \in 1..i : stack'[j].unref /\ stack'[j].obj = stack'[i].obj
    <3>1. ASSUME NEW i \in 1..L, Pending(stack'[i]), data'[stack'[i].obj].owned
          PROVE  \E j \in 1..i : stack'[j].unref /\ stack'[j].obj = stack'[i].obj
      <4>1. data[stack[i].obj].owned /\ Pending(stack[i])
        BY <1>6, <2>2, <2>7, <3>1
      <4>2. PICK j \in 1..i : stack[j].unref /\ stack[j].obj = stack[i].obj
        BY <2>4, <4>1
      <4>3. j \in 1..L
        OBVIOUS
      <4> QED
        BY <2>2, <4>2, <4>3
    <3>2. ASSUME data'[o].owned
          PROVE  \E j \in 1..(L + 1) : stack'[j].unref /\ stack'[j].obj = o
      <4>1. CASE data[o].owned
        <5>0. L \in 1..L
          OBVIOUS
        <5>1. PICK j \in 1..L : stack[j].unref /\ stack[j].obj = o
          BY <1>1, <1>3, <2>3, <2>4, <4>1, <5>0
        <5> QED
          BY <2>1, <2>2, <5>1
      <4>2. CASE ~data[o].owned
        <5>1. L + 1 \in 1..(L + 1)
          OBVIOUS
        <5> QED
          BY <1>4, <1>5, <1>6, <3>2, <4>2, <5>1
      <4> QED
        BY <4>1, <4>2
    <3>3. \A i \in 1..(L + 1) : i = L + 1 \/ i \in 1..L
      OBVIOUS
    <3> QED
      BY <1>4, <3>1, <3>2, <3>3
  <2>9. \A i, j \in 1..(L + 1) : Pending(stack'[i]) /\ ~data'[stack'[i].obj].owned =>
                                 (j # i /\ Pending(stack'[j]) => stack'[j].obj # stack'[i].obj)
    <3>1. ASSUME NEW i \in 1..L, NEW j \in 1..L, Pending(stack'[i]), ~data'[stack'[i].obj].owned,
                 j # i, Pending(stack'[j])
          PROVE  stack'[j].obj # stack'[i].obj
      <4>1. /\ Pending(stack[i]) /\ Pending(stack[j]) /\ stack[i].obj \in DOMAIN data
            /\ stack'[i].obj = stack[i].obj /\ stack'[j].obj = stack[j].obj
        BY <2>2, <3>1
      <4>2. ~data[stack[i].obj].owned
        BY <1>6, <3>1, <4>1
      <4>3. \A l \in 1..L : l # i /\ Pending(stack[l]) => stack[l].obj # stack[i].obj
        BY <2>4, <4>1, <4>2
      <4>4. stack[j].obj # stack[i].obj
        BY <3>1, <4>1, <4>3
      <4> QED
        BY <4>1, <4>4
    <3>2. ASSUME NEW i \in 1..L, Pending(stack'[i]), ~data'[o].owned
          PROVE  stack'[i].obj # o
      BY <1>6, <2>2, <2>7, <3>2
    <3>3. \A i \in 1..(L + 1) : i = L + 1 \/ i \in 1..L
      OBVIOUS
    <3> QED
      BY ZenonT(30), <1>4, <3>1, <3>2, <3>3
  <2> QED
    BY <1>4, <2>6, <2>8, <2>9, CoveredLater
<1> QED
  BY <1>7, <1>8 DEF PoolInv

\* A call with a clone.
LEMMA FreshObjectPools ==
  ASSUME FlowTypeOK, CallsInOrder, CountInv, PoolInv, stack # <<>>, UNCHANGED <<config, mutates, kept>>,
         NEW k \in Top.todo, NEW d \in Seq(Objects), DOMAIN data \subseteq DOMAIN d,
         NEW o \in DOMAIN d, o \notin DOMAIN data, DOMAIN d = DOMAIN data \union {o},
         d[o].changes = data[Top.obj].changes, ~d[o].owned,
         \A p \in DOMAIN data : d[p] = data[p],
         NEW path \in SUBSET Nat,
         Call(Called(k), k, d, o, path),
         config.pooling /\ Node(Entry(k)).kind = "fanout" => ~Several(Entry(k))
  PROVE  PoolInv'
<1>1. PICK L \in Nat \ {0} : L = Len(stack) /\ DOMAIN stack = 1..L /\ Top = stack[L] /\ L \in DOMAIN stack
  BY TopIsCall, ZenonT(30)
<1>2. PICK C \in BOOLEAN : C <=> (Node(Entry(k)).kind # "fanout")
  BY ZenonT(30)
<1>3. /\ DOMAIN stack' = 1..(L + 1) /\ DOMAIN data' = DOMAIN data \union {o}
      /\ stack'[L + 1].obj = o /\ stack'[L + 1].node = Entry(k)
      /\ stack'[L].node = stack[L].node /\ stack'[L].todo = stack[L].todo \ {k}
      /\ stack'[L].unref = stack[L].unref /\ stack'[L].obj = stack[L].obj
      /\ \A i \in 1..(L - 1) : stack'[i] = stack[i]
  BY <1>1, CallEffect, ZenonT(30)
<1>4. stack'[L + 1].unref <=> C
  <2>1. stack'[Len(stack) + 1].unref = (Node(Entry(k)).kind # "fanout" /\ ~d[o].owned)
    BY CallEffect
  <2> QED
    BY <1>1, <1>2, <2>1
<1>5. /\ \A p \in DOMAIN data : /\ data'[p].refs = data[p].refs /\ data'[p].changes = data[p].changes
                                /\ data'[p].owned <=> data[p].owned
      /\ data'[o].changes = data[Top.obj].changes
      /\ data'[o].owned <=> C
  <2>1. \A p \in DOMAIN d :
          /\ data'[p].refs = d[p].refs /\ data'[p].changes = d[p].changes
          /\ data'[p].owned = (d[p].owned \/ (p = o /\ Node(Entry(k)).kind # "fanout"))
    BY CallEffect
  <2> QED
    BY <1>2, <2>1, ZenonT(30)
<1>6. Pending(stack[L])
  BY <1>1 DEF Pending
<1>7. \A p \in DOMAIN data' : Reset \in data'[p].changes => config'.pooling /\ data'[p].refs = 0
  <2>1. Reset \notin data[Top.obj].changes
    BY <1>1, <1>6, PendingIsAlive
  <2> QED
    BY ZenonT(30), <1>3, <1>5, <2>1 DEF PoolInv
<1>8. ASSUME config.pooling PROVE Covered'
  <2>1. \A i \in 1..L : /\ i = L \/ i \in 1..(L - 1)
                        /\ i \in 1..(L + 1)
    OBVIOUS
  <2>2. \A i \in 1..L :
          /\ stack'[i].node = stack[i].node /\ stack'[i].obj = stack[i].obj /\ stack'[i].unref = stack[i].unref
          /\ Pending(stack'[i]) => Pending(stack[i])
          /\ stack[i].obj \in DOMAIN data /\ stack[i].obj # o
    <3>1. Pending(stack'[L]) => Pending(stack[L])
      BY <1>6
    <3>2. \A i \in 1..(L - 1) : Pending(stack'[i]) => Pending(stack[i])
      BY <1>3
    <3>3. \A i \in 1..L : stack[i].obj \in DOMAIN data
      BY <1>1 DEF CallsInOrder
    <3> QED
      BY <1>3, <2>1, <3>1, <3>2, <3>3
  <2>4. \A i \in 1..L :
          /\ Node(stack[i].node).kind # "fanout" \/ Several(stack[i].node) => data[stack[i].obj].owned
          /\ Pending(stack[i]) /\ data[stack[i].obj].owned =>
               \E j \in 1..i : stack[j].unref /\ stack[j].obj = stack[i].obj
          /\ Pending(stack[i]) /\ ~data[stack[i].obj].owned =>
               \A j \in 1..L : j # i /\ Pending(stack[j]) => stack[j].obj # stack[i].obj
    BY <1>1, <1>8 DEF PoolInv, Covered
  <2>5. \A i \in 1..(L + 1) : i = L + 1 \/ i \in 1..L
    OBVIOUS
  <2>6. \A i \in 1..(L + 1) :
          Node(stack'[i].node).kind # "fanout" \/ Several(stack'[i].node) => data'[stack'[i].obj].owned
    <3>1. ASSUME NEW i \in 1..L, Node(stack'[i].node).kind # "fanout" \/ Several(stack'[i].node)
          PROVE  data'[stack'[i].obj].owned
      <4>1. data[stack[i].obj].owned
        BY <2>2, <2>4, <3>1
      <4> QED
        BY <1>5, <2>2, <4>1
    <3>2. Node(stack'[L + 1].node).kind # "fanout" \/ Several(stack'[L + 1].node) => data'[stack'[L + 1].obj].owned
      BY <1>2, <1>3, <1>5, <1>8
    <3> QED
      BY <2>5, <3>1, <3>2
  <2>7. \A i \in 1..(L + 1) : Pending(stack'[i]) /\ data'[stack'[i].obj].owned =>
                                \E j \in 1..i : stack'[j].unref /\ stack'[j].obj = stack'[i].obj
    <3>1. ASSUME NEW i \in 1..L, Pending(stack'[i]), data'[stack'[i].obj].owned
          PROVE  \E j \in 1..i : stack'[j].unref /\ stack'[j].obj = stack'[i].obj
      <4>1. data[stack[i].obj].owned /\ Pending(stack[i])
        BY <1>5, <2>2, <3>1
      <4>2. PICK j \in 1..i : stack[j].unref /\ stack[j].obj = stack[i].obj
        BY <2>4, <4>1
      <4>3. j \in 1..L
        OBVIOUS
      <4> QED
        BY <2>2, <4>2, <4>3, ZenonT(30)
    <3>2. ASSUME data'[o].owned
          PROVE  \E j \in 1..(L + 1) : stack'[j].unref /\ stack'[j].obj = o
      <4>1. L + 1 \in 1..(L + 1)
        OBVIOUS
      <4> QED
        BY <1>3, <1>4, <1>5, <3>2, <4>1
    <3> QED
      BY <1>3, <2>5, <3>1, <3>2
  <2>8. \A i, j \in 1..(L + 1) : Pending(stack'[i]) /\ ~data'[stack'[i].obj].owned =>
                                 (j # i /\ Pending(stack'[j]) => stack'[j].obj # stack'[i].obj)
    <3>1. ASSUME NEW i \in 1..L, NEW j \in 1..L, Pending(stack'[i]), ~data'[stack'[i].obj].owned,
                 j # i, Pending(stack'[j])
          PROVE  stack'[j].obj # stack'[i].obj
      <4>1. /\ Pending(stack[i]) /\ Pending(stack[j]) /\ stack[i].obj \in DOMAIN data
            /\ stack'[i].obj = stack[i].obj /\ stack'[j].obj = stack[j].obj
        BY <2>2, <3>1
      <4>2. ~data[stack[i].obj].owned
        BY <1>5, <3>1, <4>1
      <4>3. \A l \in 1..L : l # i /\ Pending(stack[l]) => stack[l].obj # stack[i].obj
        BY <2>4, <4>1, <4>2
      <4>4. stack[j].obj # stack[i].obj
        BY <3>1, <4>1, <4>3
      <4> QED
        BY <4>1, <4>4, ZenonT(30)
    <3>2. \A i \in 1..L : stack'[i].obj # o
      BY <2>2
    <3> QED
      BY <1>3, <2>5, <3>1, <3>2
  <2> QED
    BY <1>3, <2>6, <2>7, <2>8, CoveredLater, ZenonT(30)
<1> QED
  BY <1>7, <1>8 DEF PoolInv

\* Fewer calls use data, and owners stay owners.
LEMMA FewerCovered ==
  ASSUME FlowTypeOK, Covered, UNCHANGED <<config, mutates>>, NEW M \in Nat, DOMAIN stack' = 1..M,
         DOMAIN stack' \subseteq DOMAIN stack,
         \A i \in DOMAIN stack' :
           /\ stack'[i].node = stack[i].node /\ stack'[i].obj = stack[i].obj /\ stack'[i].unref = stack[i].unref
           /\ Pending(stack'[i]) => Pending(stack[i])
           /\ data'[stack[i].obj].owned = data[stack[i].obj].owned
  PROVE  Covered'
<1>1. \A i \in 1..M : \A j \in 1..i : j \in 1..M
  OBVIOUS
<1>2. \A i \in 1..M :
        Node(stack'[i].node).kind # "fanout" \/ Several(stack'[i].node) => data'[stack'[i].obj].owned
  BY DEF Covered
<1>3. ASSUME NEW i \in 1..M, Pending(stack'[i]), data'[stack'[i].obj].owned
      PROVE  \E j \in 1..i : stack'[j].unref /\ stack'[j].obj = stack'[i].obj
  <2>1. PICK j \in 1..i : stack[j].unref /\ stack[j].obj = stack[i].obj
    BY <1>3 DEF Covered
  <2>2. j \in 1..M
    BY <1>1
  <2> QED
    BY <2>1, <2>2
<1>4. ASSUME NEW i \in 1..M, NEW j \in 1..M, Pending(stack'[i]), ~data'[stack'[i].obj].owned,
             j # i, Pending(stack'[j])
      PROVE  stack'[j].obj # stack'[i].obj
  <2>1. /\ i \in DOMAIN stack /\ j \in DOMAIN stack /\ Pending(stack[i]) /\ Pending(stack[j])
        /\ ~data[stack[i].obj].owned
    BY <1>4
  <2>2. stack[j].obj # stack[i].obj
    BY <1>4, <2>1 DEF Covered
  <2> QED
    BY <2>2
<1> QED
  BY <1>2, <1>3, <1>4, CoveredLater

\* A call returns.
LEMMA PopPools ==
  ASSUME FlowTypeOK, CallsInOrder, CountInv, PoolInv, stack # <<>>, UNCHANGED <<config, mutates>>,
         NEW d \in Seq(Objects), DOMAIN d = DOMAIN data, Pop(d),
         \A p \in DOMAIN data :
           /\ d[p].owned = data[p].owned
           /\ Reset \in d[p].changes => Reset \in data[p].changes
           /\ d[p].refs = data[p].refs \/ (Pending(Top) /\ p = Top.obj)
  PROVE  PoolInv'
<1>1. PICK L \in Nat \ {0} : L = Len(stack) /\ DOMAIN stack = 1..L /\ Top = stack[L] /\ L \in DOMAIN stack
  BY TopIsCall, ZenonT(30)
<1>2. /\ DOMAIN stack' = 1..(L - 1) /\ DOMAIN data' = DOMAIN data
      /\ \A i \in 1..(L - 1) : i \in 1..L /\ stack'[i] = stack[i]
  BY <1>1, PopEffect
<1>3. \A p \in DOMAIN data :
        /\ data'[p].owned = data[p].owned
        /\ ~(Top.unref /\ p = Top.obj) => data'[p].refs = d[p].refs /\ data'[p].changes = d[p].changes
        /\ Top.unref /\ p = Top.obj =>
             \/ d[p].refs # 1 /\ data'[p].changes = d[p].changes
             \/ d[p].refs = 1 /\ data'[p].refs = 0 /\ (config.pooling \/ data'[p].changes = d[p].changes)
  <2>1. \A p \in DOMAIN data :
          /\ data'[p].owned = d[p].owned
          /\ data'[p].refs = IF Top.unref /\ p = Top.obj THEN d[p].refs - 1 ELSE d[p].refs
          /\ data'[p].changes = IF Top.unref /\ p = Top.obj /\ d[p].refs = 1 /\ config.pooling
                                THEN d[p].changes \union {Reset} ELSE d[p].changes
    BY PopEffect, ZenonT(30)
  <2> SUFFICES ASSUME NEW p \in DOMAIN data
               PROVE  /\ data'[p].owned = data[p].owned
                      /\ ~(Top.unref /\ p = Top.obj) => data'[p].refs = d[p].refs /\ data'[p].changes = d[p].changes
                      /\ Top.unref /\ p = Top.obj =>
                           \/ d[p].refs # 1 /\ data'[p].changes = d[p].changes
                           \/ d[p].refs = 1 /\ data'[p].refs = 0 /\ (config.pooling \/ data'[p].changes = d[p].changes)
    OBVIOUS
  <2>2. data'[p].owned = data[p].owned
    BY <2>1, Zenon
  <2>3. ~(Top.unref /\ p = Top.obj) => data'[p].refs = d[p].refs /\ data'[p].changes = d[p].changes
    BY <2>1, Zenon
  <2>4. Top.unref /\ p = Top.obj /\ d[p].refs # 1 => data'[p].changes = d[p].changes
    BY <2>1, Zenon
  <2>5. Top.unref /\ p = Top.obj /\ d[p].refs = 1 /\ ~config.pooling => data'[p].changes = d[p].changes
    BY <2>1, Zenon
  <2>6. Top.unref /\ p = Top.obj /\ d[p].refs = 1 => data'[p].refs = 1 - 1
    BY <2>1, Zenon
  <2> QED
    BY <2>2, <2>3, <2>4, <2>5, <2>6
<1>4. Pending(Top) => Reset \notin data[Top.obj].changes
  BY <1>1, PendingIsAlive
<1>5. Top.unref => Reset \notin data[Top.obj].changes
  <2> SUFFICES ASSUME Top.unref PROVE Reset \notin data[Top.obj].changes
    OBVIOUS
  <2>1. PICK o \in DOMAIN data : o = Top.obj
    BY <1>1 DEF CallsInOrder
  <2>2. HasOwner(o)
    BY <1>1, <2>1 DEF HasOwner
  <2>3. data[o].refs = Cardinality(Keepers(o)) + 1 /\ Cardinality(Keepers(o)) \in Nat
    BY <2>2, FS_CardinalityType DEF CountInv, Counted
  <2>4. data[o].refs # 0
    BY <2>3
  <2> QED
    BY <2>1, <2>4 DEF PoolInv
<1>6. ASSUME NEW p \in DOMAIN data, Reset \in data'[p].changes
      PROVE  config.pooling /\ data'[p].refs = 0
  <2>1. CASE Top.unref /\ p = Top.obj
    BY <1>3, <1>5, <1>6, <2>1
  <2>2. CASE ~(Top.unref /\ p = Top.obj)
    <3>1. data'[p].refs = d[p].refs /\ Reset \in data[p].changes
      BY <1>3, <1>6, <2>2
    <3>2. d[p].refs = data[p].refs
      BY <1>4, <3>1
    <3> QED
      BY <3>1, <3>2, ZenonT(30) DEF PoolInv
  <2> QED
    BY <2>1, <2>2
<1>7. config.pooling => Covered'
  <2>1. \A i \in DOMAIN stack' :
          /\ stack'[i].node = stack[i].node /\ stack'[i].obj = stack[i].obj /\ stack'[i].unref = stack[i].unref
          /\ Pending(stack'[i]) => Pending(stack[i])
          /\ data'[stack[i].obj].owned = data[stack[i].obj].owned
    BY <1>1, <1>2, <1>3, ZenonT(30) DEF CallsInOrder
  <2>2. DOMAIN stack' \subseteq DOMAIN stack /\ DOMAIN stack' = 1..(L - 1) /\ L - 1 \in Nat
    BY <1>1, <1>2
  <2> QED
    BY <2>1, <2>2, FewerCovered, ZenonT(30) DEF PoolInv
<1> QED
  BY <1>2, <1>6, <1>7, ZenonT(30) DEF PoolInv

\* A fan-out calls a consumer that declared that it changes data.
LEMMA FanOutMutablePools ==
  ASSUME FlowInv, CountInv, PoolInv, PoolingSheltered, FanOutMutable
  PROVE  CountInv' /\ PoolInv'
<1>1. PICK k \in Top.todo \intersect Mutable(Top.node) :
        LET o == Top.obj
            asIs == /\ Top.todo \intersect Mutable(Top.node) = {k}
                    /\ ReadOnly(Top.node) = {}
                    /\ ~data[o].readOnly
        IN IF asIs THEN Call(Called(k), k, data, o, Top.path)
           ELSE Call(Called(k), k, Append(data, New(data[o].changes)), Len(data) + 1, Top.path)
  BY DEF FanOutMutable
<1>2. /\ stack # <<>> /\ Node(Top.node).kind = "fanout" /\ UNCHANGED <<config, mutates, kept>>
      /\ Pending(Top) /\ k \in Top.todo
  BY <1>1, ZenonT(30) DEF FanOutMutable, Pending
<1>3. /\ FlowTypeOK /\ CallsInOrder /\ data \in Seq(Objects) /\ Top.obj \in DOMAIN data
      /\ Top.node \in DOMAIN config.nodes /\ Top.todo \subseteq Node(Top.node).next
      /\ DOMAIN data = 1..Len(data) /\ Len(data) \in Nat /\ Top.path \in SUBSET Nat
  BY <1>2, TopIsCall, TopPath DEF FlowInv, FlowTypeOK
<1>4. config.pooling /\ Node(Entry(k)).kind = "fanout" => ~Several(Entry(k))
  BY <1>2, <1>3, CalledByComponent
<1>5. CASE Call(Called(k), k, Append(data, New(data[Top.obj].changes)), Len(data) + 1, Top.path)
  <2>1. PICK d, o : d = Append(data, New(data[Top.obj].changes)) /\ o = Len(data) + 1
    BY ZenonT(30)
  <2>2. /\ d \in Seq(Objects) /\ DOMAIN d = 1..(Len(data) + 1) /\ d[o] = New(data[Top.obj].changes)
        /\ \A p \in DOMAIN data : d[p] = data[p]
    BY <1>3, <2>1, CloneAppended
  <2>3. o \in DOMAIN d /\ o \notin DOMAIN data /\ DOMAIN d = DOMAIN data \union {o} /\ DOMAIN data \subseteq DOMAIN d
    BY <1>3, <2>1, <2>2
  <2>4. Call(Called(k), k, d, o, Top.path)
    BY <1>5, <2>1
  <2>5. d[o].changes = data[Top.obj].changes /\ ~d[o].owned /\ d[o].refs = 1
    BY <2>2 DEF New
  <2>6. /\ d \in Seq(Objects) /\ \A p \in DOMAIN data : d[p] = data[p]
        /\ \A p \in DOMAIN data : d[p].owned = data[p].owned /\ d[p].refs = data[p].refs /\ d[p].taken = data[p].taken
        /\ \A p \in DOMAIN d : p \notin DOMAIN data => ~d[p].owned /\ d[p].refs = 1
    BY <2>2, <2>3, <2>5, ZenonT(30)
  <2> HIDE <2>1, <2>2
  <2>7. CountInv'
    BY <1>2, <1>3, <2>3, <2>4, <2>6, CallCounts, ZenonT(30)
  <2>8. PoolInv'
    BY <1>2, <1>3, <1>4, <2>3, <2>4, <2>5, <2>6, FreshObjectPools, ZenonT(30)
  <2> QED
    BY <2>7, <2>8
<1>6. CASE /\ Top.todo \intersect Mutable(Top.node) = {k}
           /\ ReadOnly(Top.node) = {}
           /\ Call(Called(k), k, data, Top.obj, Top.path)
  <2>1. Top.todo = {k}
    BY <1>3, <1>6, ZenonT(30) DEF ReadOnly, Mutable
  <2>2. CountInv'
    BY <1>2, <1>3, <1>6, CallCounts, ZenonT(30)
  <2>3. PoolInv'
    BY <1>2, <1>3, <1>4, <1>6, <2>1, SameObjectPools, ZenonT(30)
  <2> QED
    BY <2>2, <2>3
<1> QED
  BY <1>1, <1>5, <1>6

\* A fan-out calls a consumer that only reads.
LEMMA FanOutReadOnlyPools ==
  ASSUME FlowInv, CountInv, PoolInv, PoolingSheltered, FanOutReadOnly
  PROVE  CountInv' /\ PoolInv'
<1>1. PICK k \in Top.todo :
        LET several == \E j \in ReadOnly(Top.node) : j # k
        IN Call(Called(k), k, MarkReadOnly(data, Top.obj, several), Top.obj, Top.path)
  BY ZenonT(30) DEF FanOutReadOnly
<1>2. /\ stack # <<>> /\ Node(Top.node).kind = "fanout" /\ UNCHANGED <<config, mutates, kept>>
      /\ Pending(Top) /\ Top.todo \intersect Mutable(Top.node) = {}
  BY <1>1, ZenonT(30) DEF FanOutReadOnly, Pending
<1>3. /\ FlowTypeOK /\ CallsInOrder /\ Top.obj \in DOMAIN data
      /\ Top.node \in DOMAIN config.nodes /\ Top.todo \subseteq Node(Top.node).next
      /\ Top.path \in SUBSET Nat
  BY <1>2, TopIsCall, TopPath DEF FlowInv, FlowTypeOK
<1>4. PICK b \in BOOLEAN : b = (\E j \in ReadOnly(Top.node) : j # k)
  BY ZenonT(30)
<1>5. PICK d : d = MarkReadOnly(data, Top.obj, b)
  OBVIOUS
<1>6. Call(Called(k), k, d, Top.obj, Top.path)
  BY <1>1, <1>4, <1>5, ZenonT(30)
<1>7. /\ d \in Seq(Objects) /\ DOMAIN d = DOMAIN data /\ DOMAIN data \subseteq DOMAIN d /\ Top.obj \in DOMAIN d
      /\ \A p \in DOMAIN data : /\ d[p].owned = data[p].owned /\ d[p].refs = data[p].refs
                                /\ d[p].taken = data[p].taken /\ d[p].changes = data[p].changes
      /\ \A p \in DOMAIN d : p \notin DOMAIN data => ~d[p].owned /\ d[p].refs = 1
  BY <1>3, <1>5, Marked
<1>8. config.pooling => data[Top.obj].owned \/ Top.todo = {k}
  <2>1. \A j \in Top.todo : j \in ReadOnly(Top.node)
    BY <1>2, <1>3 DEF ReadOnly
  <2>2. config.pooling /\ Several(Top.node) => data[Top.obj].owned
    BY ZenonT(30), <1>2, <1>3, TopIsCall DEF PoolInv, Covered
  <2> QED
    BY <2>1, <2>2 DEF Several
<1>9. config.pooling /\ Node(Entry(k)).kind = "fanout" => ~Several(Entry(k))
  BY <1>2, <1>3, CalledByComponent
<1> HIDE <1>1, <1>4, <1>5
<1>10. CountInv'
  BY <1>2, <1>3, <1>6, <1>7, CallCounts, ZenonT(30)
<1>11. PoolInv'
  BY <1>2, <1>3, <1>6, <1>7, <1>8, <1>9, SameObjectPools, ZenonT(30)
<1> QED
  BY <1>10, <1>11

\* A processor or a connector works on the data and passes it on.
LEMMA ProcessPools ==
  ASSUME FlowInv, CountInv, PoolInv, Process
  PROVE  CountInv' /\ PoolInv'
<1>1. PICK k \in Top.todo :
        Call(Called(k), k, Write(data, Top.obj, Top.node), Top.obj,
             Top.path \union {n \in {Top.node} : Node(n).mutates})
  BY ZenonT(30) DEF Process
<1>2. /\ stack # <<>> /\ Node(Top.node).kind \in {"processor", "connector"}
      /\ UNCHANGED <<config, mutates, kept>> /\ Pending(Top)
  BY <1>1, ZenonT(30) DEF Process, Pending
<1>3. /\ FlowTypeOK /\ CallsInOrder /\ Top.obj \in DOMAIN data
      /\ Top.node \in DOMAIN config.nodes /\ Top.node \in Nat \ {0} /\ Top.todo \subseteq Node(Top.node).next
      /\ Top.path \in SUBSET Nat
  BY <1>2, TopIsCall, TopPath DEF FlowInv
<1>4. PICK d : d = Write(data, Top.obj, Top.node)
  OBVIOUS
<1>0. PICK path : path = Top.path \union {n \in {Top.node} : Node(n).mutates}
  BY ZenonT(30)
<1>5. Call(Called(k), k, d, Top.obj, path)
  BY ZenonT(30), <1>0, <1>1, <1>4
<1>6. /\ d \in Seq(Objects) /\ DOMAIN d = DOMAIN data
      /\ \A p \in DOMAIN data : /\ d[p].owned = data[p].owned /\ d[p].refs = data[p].refs
                                /\ d[p].taken = data[p].taken
                                /\ p # Top.obj => d[p].changes = data[p].changes
      /\ d[Top.obj].changes = data[Top.obj].changes \union {n \in {Top.node} : Node(n).mutates}
  BY <1>3, <1>4, Written
<1>7. path \in SUBSET Nat
  BY ZenonT(30), <1>0, <1>3
<1>8. Top.todo = {k}
  <2>1. k \in Node(Top.node).next
    BY ZenonT(30), <1>3
  <2>2. Node(Top.node).next = {k}
    BY ZenonT(30), <1>2, <1>3, <2>1, PassedOn
  <2> QED
    BY ZenonT(30), <1>3, <2>2
<1>9. config.pooling => data[Top.obj].owned
  BY <1>2, <1>3, TopIsCall DEF PoolInv, Covered
<1>10. /\ d \in Seq(Objects) /\ DOMAIN d = DOMAIN data /\ DOMAIN data \subseteq DOMAIN d /\ Top.obj \in DOMAIN d
       /\ \A p \in DOMAIN data : /\ d[p].owned = data[p].owned /\ d[p].refs = data[p].refs
                                 /\ d[p].taken = data[p].taken
                                 /\ Reset \in d[p].changes => Reset \in data[p].changes
       /\ \A p \in DOMAIN d : p \notin DOMAIN data => ~d[p].owned /\ d[p].refs = 1
  BY <1>3, <1>6 DEF Reset
<1>11. Node(Top.node).kind # "exporter"
  BY <1>2
<1> HIDE <1>0, <1>1, <1>4, <1>6
<1>12. CountInv'
  BY <1>2, <1>3, <1>5, <1>7, <1>10, CallCounts, ZenonT(30)
<1>13. PoolInv'
  BY <1>2, <1>3, <1>5, <1>7, <1>8, <1>9, <1>10, <1>11, SameObjectPools
<1> QED
  BY <1>12, <1>13

\* A processor drops the data.
LEMMA DropPools ==
  ASSUME FlowInv, CountInv, PoolInv, Drop
  PROVE  CountInv' /\ PoolInv'
<1>1. /\ DOMAIN stack' = DOMAIN stack
      /\ \A i \in DOMAIN stack :
           /\ stack'[i].node = stack[i].node /\ stack'[i].obj = stack[i].obj
           /\ stack'[i].unref = stack[i].unref /\ stack'[i].todo \subseteq stack[i].todo
  BY DropEffect DEF FlowInv
<1>2. UNCHANGED <<config, mutates, data, kept>>
  BY DEF Drop
<1>3. FlowTypeOK /\ CallsInOrder
  BY DEF FlowInv
<1>4. \A i \in DOMAIN stack : Pending(stack'[i]) => Pending(stack[i])
  BY <1>1 DEF Pending
<1>5. CountInv'
  BY <1>1, <1>2, <1>3, SameCounts
<1>6. PICK M \in Nat : DOMAIN stack = 1..M
  BY <1>3 DEF FlowTypeOK
<1>7. config.pooling => Covered'
  BY <1>1, <1>2, <1>3, <1>4, <1>6, FewerCovered DEF PoolInv
<1>8. PoolInv'
  BY <1>2, <1>7 DEF PoolInv
<1> QED
  BY <1>5, <1>8

\* What was kept is changed.
LEMMA ModifyPools ==
  ASSUME FlowInv, CountInv, PoolInv, NEW h \in kept, Modify(h)
  PROVE  CountInv' /\ PoolInv'
<1>1. FlowTypeOK /\ CallsInOrder /\ h.obj \in DOMAIN data /\ h.by \in DOMAIN config.nodes
  BY ZenonT(30) DEF FlowInv, CallsInOrder
<1>2. UNCHANGED <<config, mutates, stack, kept>>
  BY ZenonT(30) DEF Modify
<1>3. /\ DOMAIN data' = DOMAIN data
      /\ \A p \in DOMAIN data :
           /\ data'[p].owned = data[p].owned /\ data'[p].refs = data[p].refs /\ data'[p].taken = data[p].taken
           /\ p # h.obj => data'[p].changes = data[p].changes
      /\ data'[h.obj].changes = data[h.obj].changes \union {n \in {h.by} : Node(n).mutates}
  BY <1>1, Written DEF Modify
<1>4. h.by # Reset
  BY <1>1, GraphIsBuilt DEF Reset
<1>5. \A p \in DOMAIN data : Reset \in data'[p].changes => Reset \in data[p].changes
  BY <1>3, <1>4
<1>6. CountInv'
  BY <1>1, <1>2, <1>3, SameCounts
<1>7. PICK M \in Nat : DOMAIN stack = 1..M
  BY <1>1 DEF FlowTypeOK
<1>8. \A i \in DOMAIN stack : data'[stack[i].obj].owned = data[stack[i].obj].owned
  BY <1>1, <1>3 DEF CallsInOrder
<1>9. config.pooling => Covered'
  BY <1>1, <1>2, <1>7, <1>8, FewerCovered DEF PoolInv
<1>10. PoolInv'
  BY <1>2, <1>3, <1>5, <1>9 DEF PoolInv
<1> QED
  BY <1>6, <1>10

\* What was kept is released.
LEMMA ReleasePools ==
  ASSUME FlowInv, CountInv, PoolInv, NEW h \in kept, Release(h)
  PROVE  CountInv' /\ PoolInv'
<1>1. FlowTypeOK /\ CallsInOrder /\ h.obj \in DOMAIN data /\ data \in Seq(Objects)
  BY DEF FlowInv, CallsInOrder, FlowTypeOK
<1>2. UNCHANGED <<config, mutates, stack>> /\ kept' = kept \ {h}
  BY DEF Release
<1>3. /\ DOMAIN data' = DOMAIN data
      /\ \A p \in DOMAIN data :
           /\ data'[p].owned = data[p].owned /\ data'[p].taken = data[p].taken
           /\ p # h.obj => data'[p].refs = data[p].refs /\ data'[p].changes = data[p].changes
           /\ \/ data'[p].changes = data[p].changes
              \/ data[p].refs = 1 /\ config.pooling /\ data'[p].changes = data[p].changes \union {Reset}
      /\ data'[h.obj].refs = data[h.obj].refs - 1
  BY <1>1, Unreffed DEF Release
<1>4. OneOwner'
  BY <1>1, <1>2, <1>3 DEF CountInv, OneOwner, CallsInOrder
<1>5. Counted'
  <2>1. \A g \in kept' : g.ref < data'[g.obj].taken
    BY <1>1, <1>2, <1>3 DEF CountInv, Counted, CallsInOrder
  <2>2. \A p : HasOwner(p)' <=> HasOwner(p)
    BY <1>2 DEF HasOwner
  <2>3. \A p \in DOMAIN data : p # h.obj => Keepers(p)' = Keepers(p)
    BY <1>2 DEF Keepers
  <2>4. Keepers(h.obj)' = Keepers(h.obj) \ {h} /\ h \in Keepers(h.obj) /\ IsFiniteSet(Keepers(h.obj))
    BY <1>1, <1>2, ZenonT(30) DEF Keepers, CountInv, Counted
  <2>5. /\ IsFiniteSet(Keepers(h.obj)') /\ Cardinality(Keepers(h.obj)) \in Nat
        /\ Cardinality(Keepers(h.obj)') = Cardinality(Keepers(h.obj)) - 1
    BY <2>4, FS_RemoveElement, FS_CardinalityType
  <2>6. ASSUME NEW p \in DOMAIN data
        PROVE  /\ IsFiniteSet(Keepers(p)')
               /\ ~data[p].owned \/ HasOwner(p) => data'[p].refs = Cardinality(Keepers(p)') + 1
               /\ data[p].owned /\ ~HasOwner(p) => data'[p].refs = Cardinality(Keepers(p)')
    <3>1. CASE p = h.obj
      BY <1>3, <2>5, <3>1 DEF CountInv, Counted
    <3>2. CASE p # h.obj
      BY <1>3, <2>3, <3>2 DEF CountInv, Counted
    <3> QED
      BY <3>1, <3>2, ZenonT(30)
  <2> QED
    BY <1>3, <2>1, <2>2, <2>6, ZenonT(30) DEF Counted
<1>6. Reset \notin data[h.obj].changes
  BY <1>1, KeptIsAlive
<1>7. \A p \in DOMAIN data : Reset \in data'[p].changes => config.pooling /\ data'[p].refs = 0
  <2>1. Reset \in data'[h.obj].changes => config.pooling /\ data[h.obj].refs = 1
    BY <1>1, <1>3, <1>6
  <2>2. Reset \in data'[h.obj].changes => config.pooling /\ data'[h.obj].refs = 0
    BY <1>3, <2>1
  <2> QED
    BY <1>3, <2>2, ZenonT(30) DEF PoolInv
<1>8. PICK M \in Nat : DOMAIN stack = 1..M
  BY <1>1 DEF FlowTypeOK
<1>9. \A i \in DOMAIN stack : data'[stack[i].obj].owned = data[stack[i].obj].owned
  BY <1>1, <1>3 DEF CallsInOrder
<1>10. config.pooling => Covered'
  BY ZenonT(30), <1>1, <1>2, <1>8, <1>9, FewerCovered DEF PoolInv
<1>11. PoolInv'
  BY <1>2, <1>3, <1>7, <1>10 DEF PoolInv
<1> QED
  BY ZenonT(30), <1>4, <1>5, <1>11 DEF CountInv

\* A call returns that leaves the references as they were.
LEMMA QuietPopPools ==
  ASSUME FlowTypeOK, CallsInOrder, CountInv, PoolInv, stack # <<>>, UNCHANGED <<config, mutates, kept>>,
         NEW d \in Seq(Objects), DOMAIN d = DOMAIN data, Pop(d),
         \A p \in DOMAIN data :
           /\ d[p].owned = data[p].owned /\ d[p].refs = data[p].refs /\ d[p].taken = data[p].taken
           /\ Reset \in d[p].changes => Reset \in data[p].changes
  PROVE  CountInv' /\ PoolInv'
<1>1. \A p \in DOMAIN data : data[p] \in Objects
  BY DEF FlowTypeOK
<1>2. \A p \in DOMAIN data : d[p].refs - data[p].refs = 0
  BY <1>1 DEF Objects
<1>3. /\ \A p \in DOMAIN data :
           /\ IsFiniteSet(Keepers(p)')
           /\ Cardinality(Keepers(p)') - Cardinality(Keepers(p)) = d[p].refs - data[p].refs
      /\ \A h \in kept' : h.ref < d[h.obj].taken /\ h.obj \in DOMAIN data
  BY <1>2, SameKeepers, ZenonT(30)
<1>4. CountInv'
  BY <1>3, PopCounts
<1>5. PoolInv'
  BY PopPools
<1> QED
  BY <1>4, <1>5

\* An exporter uses the data and returns.
LEMMA ExportPools ==
  ASSUME FlowInv, CountInv, PoolInv, Export
  PROVE  CountInv' /\ PoolInv'
<1>1. stack # <<>> /\ UNCHANGED <<config, mutates, kept>>
  BY DEF Export
<1>2. /\ FlowTypeOK /\ CallsInOrder /\ Top.obj \in DOMAIN data /\ Top.node \in DOMAIN config.nodes
      /\ Top.node \in Nat \ {0} /\ data \in Seq(Objects)
  BY <1>1, TopIsCall DEF FlowInv, FlowTypeOK
<1>3. CASE Node(Top.node).keeps
  <2>1. Pop(data)
    BY <1>3 DEF Export
  <2> QED
    BY <1>1, <1>2, <2>1, QuietPopPools
<1>4. CASE ~Node(Top.node).keeps
  <2>1. PICK d : d = Write(data, Top.obj, Top.node)
    OBVIOUS
  <2>2. Pop(d)
    BY <1>4, <2>1 DEF Export
  <2>3. /\ d \in Seq(Objects) /\ DOMAIN d = DOMAIN data
        /\ \A p \in DOMAIN data : /\ d[p].owned = data[p].owned /\ d[p].refs = data[p].refs
                                  /\ d[p].taken = data[p].taken
                                  /\ p # Top.obj => d[p].changes = data[p].changes
        /\ d[Top.obj].changes = data[Top.obj].changes \union {n \in {Top.node} : Node(n).mutates}
    BY <1>2, <2>1, Written
  <2>4. \A p \in DOMAIN data : Reset \in d[p].changes => Reset \in data[p].changes
    BY <1>2, <2>3 DEF Reset
  <2> HIDE <2>1
  <2> QED
    BY <1>1, <1>2, <2>2, <2>3, <2>4, QuietPopPools
<1> QED
  BY <1>3, <1>4

\* A fan-out, a processor or a connector returns.
LEMMA ReturnPools ==
  ASSUME FlowInv, CountInv, PoolInv, Return
  PROVE  CountInv' /\ PoolInv'
<1>1. /\ stack # <<>> /\ UNCHANGED <<config, mutates, kept>> /\ Pop(data) /\ data \in Seq(Objects)
      /\ FlowTypeOK /\ CallsInOrder
  BY DEF Return, FlowInv, FlowTypeOK
<1> QED
  BY <1>1, QuietPopPools, ZenonT(30)

\* A memory queue takes a reference and keeps the data.
LEMMA KeepPools ==
  ASSUME FlowInv, CountInv, PoolInv, Keep
  PROVE  CountInv' /\ PoolInv'
<1>1. /\ stack # <<>> /\ UNCHANGED <<config, mutates>> /\ kept' = kept \union {Kept} /\ Pending(Top)
  BY DEF Keep, Pending
<1>2. FlowTypeOK /\ CallsInOrder /\ Top.obj \in DOMAIN data /\ data \in Seq(Objects)
  BY <1>1, TopIsCall DEF FlowInv, FlowTypeOK
<1>3. PICK g : g = Kept
  OBVIOUS
<1>4. g.obj = Top.obj /\ g.ref = data[g.obj].taken /\ kept' = kept \union {g}
  BY <1>1, <1>3 DEF Kept
<1>5. PICK d : d = Ref(data, Top.obj)
  OBVIOUS
<1>6. Pop(d)
  BY ZenonT(30), <1>5 DEF Keep
<1>7. /\ d \in Seq(Objects) /\ DOMAIN d = DOMAIN data
      /\ \A p \in DOMAIN data :
           /\ d[p].owned = data[p].owned /\ d[p].changes = data[p].changes
           /\ p # Top.obj => d[p].refs = data[p].refs /\ d[p].taken = data[p].taken
      /\ d[Top.obj].refs = data[Top.obj].refs + 1 /\ d[Top.obj].taken = data[Top.obj].taken + 1
  BY <1>2, <1>5, Referred
<1> HIDE <1>3, <1>5
<1>8. \A p \in DOMAIN data : data[p] \in Objects
  BY <1>2
<1>9. /\ \A p \in DOMAIN data : data[p].refs \in Int /\ data[p].taken \in Nat
      /\ \A h \in kept : h.ref \in Nat
  BY ZenonT(30), <1>2, <1>8 DEF Objects, FlowTypeOK
<1>10. \A p \in DOMAIN data :
         /\ p # Top.obj => d[p].refs - data[p].refs = 0
         /\ p = Top.obj => d[p].refs - data[p].refs = 1
  BY <1>7, <1>9
<1>11. \A p \in DOMAIN data :
         /\ d[p].owned = data[p].owned
         /\ IsFiniteSet(Keepers(p)')
         /\ Cardinality(Keepers(p)') - Cardinality(Keepers(p)) = d[p].refs - data[p].refs
  BY <1>2, <1>4, <1>7, <1>10, OneMoreKeeper
<1>12. \A h \in kept' : h.ref < d[h.obj].taken /\ h.obj \in DOMAIN data
  <2>1. g.ref < d[g.obj].taken /\ g.obj \in DOMAIN data
    BY <1>2, <1>4, <1>7, <1>9
  <2>2. ASSUME NEW h \in kept
        PROVE  h.ref < d[h.obj].taken /\ h.obj \in DOMAIN data
    <3>1. h.obj \in DOMAIN data /\ h.ref < data[h.obj].taken
      BY <1>2 DEF CallsInOrder, CountInv, Counted
    <3>2. PICK p \in DOMAIN data : p = h.obj
      BY ZenonT(30), <3>1
    <3>3. CASE p = Top.obj
      <4>1. h.ref \in Nat /\ data[p].taken \in Nat /\ d[p].taken = data[p].taken + 1
        BY ZenonT(30), <1>7, <1>9, <3>2, <3>3
      <4> QED
        BY <3>1, <3>2, <4>1
    <3>4. CASE p # Top.obj
      BY ZenonT(30), <1>7, <3>1, <3>2, <3>4
    <3> QED
      BY <3>3, <3>4
  <2> QED
    BY <1>4, <2>1, <2>2
<1>13. CountInv'
  BY <1>1, <1>2, <1>6, <1>7, <1>11, <1>12, PopCounts, ZenonT(30)
<1>14. PoolInv'
  BY <1>1, <1>2, <1>6, <1>7, PopPools
<1> QED
  BY <1>13, <1>14

\* A new object is received.
LEMMA ReceivePools ==
  ASSUME FlowInv, CountInv, PoolInv, PoolingSheltered, Receive
  PROVE  CountInv' /\ PoolInv'
<1> DEFINE f == [node |-> 1, obj |-> 1, path |-> {}, todo |-> Node(1).next, unref |-> FALSE]
           x == New({})
<1>1. f.node = 1 /\ f.obj = 1 /\ f.unref = FALSE
  OBVIOUS
<1>2. x.owned = FALSE /\ x.refs = 1 /\ x.changes = {}
  BY DEF New
<1>3. stack' = <<f>> /\ data' = <<x>> /\ kept' = {} /\ kept = {} /\ UNCHANGED <<config, mutates>>
  BY DEF Receive
<1> HIDE DEF f, x
<1>4. DOMAIN stack' = {1} /\ stack'[1] = f /\ DOMAIN data' = {1} /\ data'[1] = x
  BY <1>3
<1>5. OneOwner'
  BY <1>1, <1>4 DEF OneOwner
<1>6. Counted'
  <2>1. \A p : Keepers(p)' = {}
    BY <1>3 DEF Keepers
  <2>2. IsFiniteSet({}) /\ Cardinality({}) = 0
    BY FS_EmptySet
  <2>3. 1 = Cardinality({}) + 1
    BY <2>2
  <2>4. \A p \in DOMAIN data' : IsFiniteSet(Keepers(p)') /\ ~data'[p].owned /\ data'[p].refs = Cardinality(Keepers(p)') + 1
    BY ZenonT(30), <1>2, <1>4, <2>1, <2>2, <2>3
  <2> QED
    BY <1>3, <2>4 DEF Counted
<1>7. config.pooling => ~Several(1)
  <2> SUFFICES ASSUME config.pooling, Several(1) PROVE FALSE
    OBVIOUS
  <2>1. FlowTypeOK /\ 1 \in DOMAIN config.nodes /\ config.nodes[1].kind = "fanout"
    BY GraphIsBuilt DEF FlowInv
  <2>2. Sheltered(config.nodes)
    BY <2>1 DEF PoolingSheltered, FlowTypeOK
  <2>3. \E j, k \in config.nodes[1].next : j # k /\ ~Capabilities(config.nodes)[j] /\ ~Capabilities(config.nodes)[k]
    BY <2>1 DEF Several, ReadOnly, Mutable, Node, FlowTypeOK
  <2> QED
    BY <2>1, <2>2, <2>3 DEF Sheltered
<1>8. Node(1).kind = "fanout"
  BY ZenonT(30), GraphIsBuilt DEF FlowInv, Node
<1>9. config.pooling => Covered'
  BY <1>1, <1>2, <1>3, <1>4, <1>7, <1>8, CoveredLater
<1>10. PoolInv'
  BY ZenonT(30), <1>2, <1>3, <1>4, <1>9 DEF PoolInv
<1> QED
  BY <1>5, <1>6, <1>10 DEF CountInv

\* Nothing is referred to in the initial states.
LEMMA PoolInitHolds == FlowInit => CountInv /\ PoolInv
BY DEF FlowInit, CountInv, OneOwner, Counted, PoolInv, Covered

\* No step of the data flow breaks the count of the references, nor the pooling.
LEMMA PoolKeeps ==
  ASSUME FlowInv, CountInv, PoolInv, PoolingSheltered, [FlowNext]_flowVars
  PROVE  CountInv' /\ PoolInv'
<1>1. CASE UNCHANGED flowVars
  <2>1. config' = config /\ mutates' = mutates /\ stack' = stack /\ data' = data /\ kept' = kept
    BY <1>1 DEF flowVars
  <2>2. FlowTypeOK /\ CallsInOrder
    BY DEF FlowInv
  <2>3. CountInv'
    BY <2>1, <2>2, SameCounts
  <2>4. PICK M \in Nat : DOMAIN stack = 1..M
    BY <2>2 DEF FlowTypeOK
  <2>5. config.pooling => Covered'
    BY <2>1, <2>2, <2>4, FewerCovered DEF PoolInv
  <2>6. PoolInv'
    BY <2>1, <2>5 DEF PoolInv
  <2> QED
    BY <2>3, <2>6
<1> QED
  BY <1>1, ReceivePools, FanOutMutablePools, FanOutReadOnlyPools, ProcessPools, DropPools, ExportPools,
     KeepPools, ReturnPools, ModifyPools, ReleasePools DEF FlowNext

\* While the references are counted, what is used is alive.
LEMMA AliveFollows ==
  ASSUME FlowInv, CountInv, PoolInv
  PROVE  UsedIsAlive
<1>1. FlowTypeOK /\ CallsInOrder
  BY DEF FlowInv
<1>2. ASSUME NEW u \in Uses, Component(u)
      PROVE  Reset \notin data[u.obj].changes
  <2>1. CASE u \in kept
    BY <1>1, <2>1, KeptIsAlive
  <2>2. CASE u \notin kept
    <3>1. stack # <<>> /\ u.by = Top.node /\ u.obj = Top.obj
      BY <1>2, <2>2, UseIsCallOrKept
    <3>2. Pending(Top)
      BY <1>2, <3>1, UserIsPending DEF Component
    <3> QED
      BY <1>1, <3>1, <3>2, TopIsCall, PendingIsAlive
  <2> QED
    BY <2>1, <2>2
<1>3. ASSUME NEW o \in DOMAIN data
      PROVE  data[o].refs >= 0
  <2>1. Cardinality(Keepers(o)) \in Nat
    BY FS_CardinalityType DEF CountInv, Counted
  <2>2. data[o].refs = Cardinality(Keepers(o)) \/ data[o].refs = Cardinality(Keepers(o)) + 1
    BY DEF CountInv, Counted
  <2> QED
    BY <2>1, <2>2
<1> QED
  BY <1>2, <1>3 DEF UsedIsAlive
=============================================================================
