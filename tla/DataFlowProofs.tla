--------------------------- MODULE DataFlowProofs ---------------------------
(***************************************************************************)
(* Whoever changes data is alone with it, and whoever uses data finds the  *)
(* changes of its own way, for every well-built graph and all declarations *)
(* of its components.                                                      *)
(*                                                                         *)
(* FlowInv says of all calls in progress what the properties say of the    *)
(* innermost one.  The lemmas about the graph show that a need to change   *)
(* data reaches every fan-out before it; the others say what a step does   *)
(* to stack and objects, and that no step breaks FlowInv.                  *)
(***************************************************************************)
EXTENDS DataFlow, TLAPS

\* The provers of a step, in this order, and their time in seconds.
USE SMTT(30), ZenonT(30), Z3T(30)

\* A call that will still use its object: there is a consumer to call, or it exports.
Pending(c) == c.todo # {} \/ Node(c.node).kind = "exporter"

\* A component behind the node, or the node itself, changes the data it is called with.
Needs(n) == IF Node(n).kind = "processor" THEN mutates[Node(n).of] ELSE mutates[n]

Frames == [node : Nat, obj : Nat, path : SUBSET Nat, todo : SUBSET Nat, unref : BOOLEAN]
Objects == [readOnly : BOOLEAN, owned : BOOLEAN, refs : Int, taken : Nat, changes : SUBSET Nat]

FlowTypeOK ==
  /\ config \in Configs
  /\ mutates = Capabilities(config.nodes)
  /\ stack \in Seq(Frames)
  /\ data \in Seq(Objects)
  /\ kept \subseteq [by : Nat, obj : Nat, path : SUBSET Nat, ref : Nat]

\* Only the innermost call is one of an exporter, and only exporters keep data.
CallsInOrder ==
  /\ \A i \in DOMAIN stack :
       /\ stack[i].node \in DOMAIN config.nodes
       /\ stack[i].obj \in DOMAIN data
       /\ stack[i].todo \subseteq Node(stack[i].node).next
       /\ Node(stack[i].node).kind # "capabilities"
       /\ Node(stack[i].node).kind = "exporter" => i = Len(stack)
  /\ \A h \in kept :
       /\ h.by \in DOMAIN config.nodes
       /\ h.obj \in DOMAIN data
       /\ Node(h.by).kind = "exporter"

\* Data that somebody is going to change is in no other hands: the strengthening of
\* WriterIsAlone from the innermost call to all of them.
Alone ==
  /\ \A i \in DOMAIN stack :
       Pending(stack[i]) /\ Needs(stack[i].node) =>
         /\ ~data[stack[i].obj].readOnly
         /\ \A h \in kept : h.obj # stack[i].obj
         /\ \A j \in DOMAIN stack : j # i /\ Pending(stack[j]) => stack[j].obj # stack[i].obj
  /\ \A h \in kept :
       Node(h.by).mutates =>
         /\ ~data[h.obj].readOnly
         /\ \A g \in kept : g # h => g.obj # h.obj
         /\ \A j \in DOMAIN stack : Pending(stack[j]) => stack[j].obj # h.obj

\* An object in use shows the changes made on the way to its user.
Changes ==
  /\ \A i \in DOMAIN stack : Pending(stack[i]) => data[stack[i].obj].changes \ {Reset} = stack[i].path
  /\ \A h \in kept : data[h.obj].changes \ {h.by, Reset} = h.path \ {h.by}

FlowInv == FlowTypeOK /\ CallsInOrder /\ Alone /\ Changes


(***************************************************************************)
(* The graph.                                                              *)
(***************************************************************************)
\* What WellBuilt says of the configuration at hand, and the capabilities of its nodes.
LEMMA GraphIsBuilt ==
  ASSUME FlowTypeOK
  PROVE  /\ config.nodes \in Seq(Nodes) /\ 1 \in DOMAIN config.nodes /\ config.nodes[1].kind = "fanout"
         /\ \A n \in DOMAIN config.nodes :
              /\ n \in Nat \ {0}
              /\ config.nodes[n] \in Nodes
              /\ Linked(config.nodes, n)
              /\ mutates[n] = Capability(config.nodes, mutates, n)
<1>1. /\ WellBuilt(config.nodes)
      /\ \A n \in DOMAIN config.nodes : mutates[n] = Capability(config.nodes, mutates, n)
  BY ConfigsAssumption DEF FlowTypeOK
<1>2. \A g \in Seq(Nodes) : /\ g # <<>> => 1 \in DOMAIN g
                            /\ \A n \in DOMAIN g : n \in Nat \ {0} /\ g[n] \in Nodes
  OBVIOUS
<1> QED
  BY <1>1, <1>2 DEF WellBuilt

\* Where a call goes, through the capabilities node of a pipeline.
LEMMA EntryIsComponent ==
  ASSUME FlowTypeOK, NEW n \in DOMAIN config.nodes, NEW k \in Node(n).next
  PROVE  /\ k \in DOMAIN config.nodes
         /\ Entry(k) \in DOMAIN config.nodes
         /\ Node(Entry(k)).kind # "capabilities"
         /\ Node(k).kind # "capabilities" => Entry(k) = k
         /\ Node(k).kind = "capabilities" => Node(Entry(k)).of = k /\ Node(Entry(k)).kind \in {"processor", "fanout"}
         /\ Node(n).kind # "fanout" => Node(n).kind = "capabilities" \/ Node(k).kind # "capabilities"
<1> DEFINE g == config.nodes
<1>1. Linked(g, n) /\ k \in g[n].next
  BY GraphIsBuilt DEF Node
<1>2. k \in DOMAIN g
  BY <1>1 DEF Linked
<1>0. Linked(g, k) /\ g[n].kind \in Kinds /\ g[k].kind \in Kinds
  BY <1>2, GraphIsBuilt DEF Nodes
<1>3. CASE g[k].kind # "capabilities"
  <2>1. Entry(k) = k
    BY <1>3 DEF Entry, Node
  <2> QED
    BY <1>2, <1>3, <2>1 DEF Node
<1>4. CASE g[k].kind = "capabilities"
  <2>1. PICK j \in DOMAIN g : g[k].next = {j}
    BY <1>0, <1>4 DEF Linked
  <2>2. Entry(k) = j
    BY <1>4, <2>1 DEF Entry, Node
  <2>3. g[j].kind \in {"processor", "fanout"} /\ g[j].of = k
    BY <1>0, <1>4, <2>1 DEF Linked
  <2>4. g[n].kind \in {"fanout", "capabilities"}
    BY <1>0, <1>1, <1>4 DEF Linked, Kinds
  <2> QED
    BY <1>2, <1>4, <2>2, <2>3, <2>4 DEF Node
<1> QED
  BY <1>3, <1>4

\* Whoever declares that it changes data is known to.
LEMMA NeedsItself ==
  ASSUME FlowTypeOK, NEW n \in DOMAIN config.nodes, Node(n).mutates,
         Node(n).kind \in {"processor", "connector", "exporter"}
  PROVE  Needs(n)
<1> DEFINE g == config.nodes
<1>1. n \in Nat \ {0} /\ Linked(g, n) /\ mutates[n] = Capability(g, mutates, n)
  BY GraphIsBuilt
<1>2. CASE g[n].kind = "processor"
  <2>1. g[n].of \in DOMAIN g /\ g[g[n].of].kind = "capabilities"
    BY <1>1, <1>2 DEF Linked
  <2>2. mutates[g[n].of] = Capability(g, mutates, g[n].of)
    BY <2>1, GraphIsBuilt
  <2>3. Capability(g, mutates, g[n].of) = PipelineCapabilities(g, mutates, g[n].of)
    BY <2>1 DEF Capability
  <2>4. PipelineCapabilities(g, mutates, g[n].of)
    BY <1>2 DEF PipelineCapabilities, Node
  <2> QED
    BY <1>2, <2>2, <2>3, <2>4 DEF Needs, Node
<1>3. CASE g[n].kind = "connector"
  BY <1>1, <1>3, ZenonT(30) DEF Capability, AggregateCap, Needs, Node
<1>4. CASE g[n].kind = "exporter"
  BY <1>1, <1>4 DEF Capability, Needs, Node
<1> QED
  BY <1>2, <1>3, <1>4 DEF Node

\* A fan-out passes the need on only if all its consumers have it.
LEMMA FanOutNeeds ==
  ASSUME FlowTypeOK, NEW n \in DOMAIN config.nodes, Node(n).kind = "fanout"
  PROVE  Needs(n) <=> Node(n).next # {} /\ \A k \in Node(n).next : mutates[k]
<1>1. mutates[n] = Capability(config.nodes, mutates, n)
  BY GraphIsBuilt
<1>2. Capability(config.nodes, mutates, n) = FanOutCapabilities(config.nodes, mutates, n)
  BY DEF Capability, Node
<1> QED
  BY <1>1, <1>2, ZenonT(30) DEF Needs, Node, FanOutCapabilities

\* The fan-out at the end of a pipeline needs no more than the pipeline.
LEMMA PipelineNeeds ==
  ASSUME FlowTypeOK, NEW p \in DOMAIN config.nodes, NEW f \in DOMAIN config.nodes,
         Node(p).kind = "capabilities", Node(f).kind = "fanout", Node(f).of = p, mutates[f]
  PROVE  mutates[p]
<1>1. mutates[p] = Capability(config.nodes, mutates, p)
  BY GraphIsBuilt
<1>2. Capability(config.nodes, mutates, p) = PipelineCapabilities(config.nodes, mutates, p)
  BY DEF Capability, Node
<1>3. PipelineCapabilities(config.nodes, mutates, p)
  BY DEF PipelineCapabilities, Node
<1> QED
  BY <1>1, <1>2, <1>3

\* A fan-out knows of the needs behind the consumers that it calls.
LEMMA ConsumerNeeds ==
  ASSUME FlowTypeOK, NEW n \in DOMAIN config.nodes, Node(n).kind = "fanout", NEW k \in Node(n).next,
         Needs(Entry(k))
  PROVE  mutates[k]
<1>1. k \in DOMAIN config.nodes /\ Entry(k) \in DOMAIN config.nodes
  BY EntryIsComponent
<1>2. CASE Node(k).kind = "capabilities"
  <2>1. Node(Entry(k)).of = k /\ Node(Entry(k)).kind \in {"processor", "fanout"}
    BY <1>2, EntryIsComponent
  <2>2. CASE Node(Entry(k)).kind = "processor"
    BY <2>1, <2>2 DEF Needs
  <2>3. CASE Node(Entry(k)).kind = "fanout"
    BY <1>1, <1>2, <2>1, <2>3, PipelineNeeds DEF Needs
  <2> QED
    BY <2>1, <2>2, <2>3
<1>3. CASE Node(k).kind # "capabilities"
  <2>1. Entry(k) = k
    BY <1>3, EntryIsComponent
  <2>2. Node(k).kind # "processor"
    BY GraphIsBuilt DEF Linked, Node
  <2> QED
    BY <2>1, <2>2 DEF Needs
<1> QED
  BY <1>2, <1>3

\* A processor or a connector has one consumer, and the needs of that.
LEMMA PassedOn ==
  ASSUME FlowTypeOK, NEW n \in DOMAIN config.nodes, Node(n).kind \in {"processor", "connector"},
         NEW k \in Node(n).next
  PROVE  /\ Entry(k) = k
         /\ Node(n).next = {k}
         /\ Needs(k) => Needs(n)
<1> DEFINE g == config.nodes
<1>1. Linked(g, n) /\ k \in g[n].next /\ k \in DOMAIN g /\ mutates[n] = Capability(g, mutates, n)
  BY GraphIsBuilt, EntryIsComponent DEF Node
<1>2. Entry(k) = k
  BY EntryIsComponent
<1>3. g[n].next = {k}
  BY <1>1 DEF Linked, Node
<1>4. CASE g[n].kind = "processor"
  <2>1. g[n].of \in DOMAIN g /\ g[g[n].of].kind = "capabilities"
    BY <1>1, <1>4 DEF Linked
  <2>2. g[k].kind \in {"processor", "fanout"} /\ g[k].of = g[n].of
    BY <1>1, <1>4 DEF Linked
  <2>3. CASE g[k].kind = "processor"
    BY <1>2, <1>3, <1>4, <2>2, <2>3 DEF Needs, Node
  <2>4. CASE g[k].kind = "fanout"
    <3>1. mutates[k] => mutates[g[n].of]
      BY <1>1, <2>1, <2>2, <2>4, PipelineNeeds DEF Node
    <3> QED
      BY <1>2, <1>3, <1>4, <2>4, <3>1 DEF Needs, Node
  <2> QED
    BY <2>2, <2>3, <2>4
<1>5. CASE g[n].kind = "connector"
  <2>1. g[k].kind = "fanout"
    BY <1>1, <1>5 DEF Linked
  <2>2. mutates[n] = AggregateCap(g, mutates, n)
    BY <1>1, <1>5 DEF Capability
  <2>3. Needs(k) => \E j \in g[k].next : mutates[j]
    BY <1>1, <2>1, FanOutNeeds DEF Node
  <2>4. (\E j \in g[k].next : mutates[j]) => mutates[n]
    BY <1>1, <2>2, ZenonT(30) DEF AggregateCap
  <2> QED
    BY <1>2, <1>3, <1>5, <2>3, <2>4 DEF Needs, Node
<1> QED
  BY <1>4, <1>5 DEF Node

(***************************************************************************)
(* What the steps do to the stack and to the objects.                      *)
(***************************************************************************)
\* What Append does to a stack, pointwise.
LEMMA Pushed ==
  ASSUME NEW S, NEW s \in Seq(S), s # <<>>, NEW a \in S, NEW b \in S,
         NEW t, t = Append([s EXCEPT ![Len(s)] = a], b)
  PROVE  /\ t \in Seq(S) /\ Len(t) = Len(s) + 1 /\ DOMAIN t = 1..(Len(s) + 1)
         /\ t[Len(s)] = a /\ t[Len(s) + 1] = b
         /\ \A i \in 1..(Len(s) - 1) : t[i] = s[i]
<1> DEFINE r == [s EXCEPT ![Len(s)] = a]
<1>1. Len(s) \in 1..Len(s) /\ s \in [1..Len(s) -> S] /\ Len(s) \in Nat
  OBVIOUS
<1>2. r \in [1..Len(s) -> S] /\ r[Len(s)] = a /\ \A i \in 1..(Len(s) - 1) : r[i] = s[i]
  <2>1. \A n \in Nat : \A f \in [1..n -> S] : n \in 1..n =>
          /\ [f EXCEPT ![n] = a] \in [1..n -> S]
          /\ [f EXCEPT ![n] = a][n] = a
          /\ \A i \in 1..(n - 1) : [f EXCEPT ![n] = a][i] = f[i]
    OBVIOUS
  <2> QED
    BY <1>1, <2>1, ZenonT(30)
<1>3. t = Append(r, b)
  OBVIOUS
<1> HIDE DEF r
<1>4. r \in Seq(S) /\ Len(r) = Len(s)
  BY <1>1, <1>2
<1>5. /\ t \in Seq(S) /\ Len(t) = Len(r) + 1 /\ t[Len(r) + 1] = b
      /\ \A i \in 1..Len(r) : t[i] = r[i]
  BY <1>3, <1>4
<1>6. DOMAIN t = 1..Len(t)
  BY <1>5
<1>7. \A i \in 1..(Len(s) - 1) : i \in 1..Len(r) /\ r[i] = s[i]
  BY <1>1, <1>2, <1>4
<1>8. t[Len(s)] = a
  BY <1>1, <1>2, <1>4, <1>5, ZenonT(30)
<1> QED
  BY <1>4, <1>5, <1>6, <1>7, <1>8

\* What SubSeq does to a stack, pointwise.
LEMMA Popped ==
  ASSUME NEW S, NEW s \in Seq(S), s # <<>>, NEW n, n = Len(s) - 1, NEW t, t = SubSeq(s, 1, n)
  PROVE  /\ t \in Seq(S) /\ Len(t) = Len(s) - 1 /\ DOMAIN t = 1..(Len(s) - 1)
         /\ \A i \in 1..(Len(s) - 1) : t[i] = s[i]
<1>1. Len(s) \in Nat \ {0} /\ DOMAIN s = 1..Len(s)
  OBVIOUS
<1> QED
  BY <1>1

\* The innermost call is a call in progress.
LEMMA TopIsCall ==
  ASSUME FlowTypeOK, CallsInOrder, stack # <<>>
  PROVE  /\ Len(stack) \in Nat \ {0} /\ DOMAIN stack = 1..Len(stack) /\ Len(stack) \in DOMAIN stack
         /\ Top \in Frames /\ Top = stack[Len(stack)]
         /\ Top.node \in DOMAIN config.nodes /\ Top.obj \in DOMAIN data
         /\ Top.todo \subseteq Node(Top.node).next
         /\ Node(Top.node).kind # "capabilities"
         /\ Node(Top.node) \in Nodes /\ Top.node \in Nat \ {0}
         /\ DOMAIN data = 1..Len(data) /\ Len(data) \in Nat
<1>1. Len(stack) \in Nat \ {0} /\ DOMAIN stack = 1..Len(stack) /\ Len(stack) \in DOMAIN stack /\ Top \in Frames
  BY DEF FlowTypeOK, Top
<1>2. DOMAIN data = 1..Len(data) /\ Len(data) \in Nat
  BY DEF FlowTypeOK
<1>3. Top.node \in DOMAIN config.nodes /\ Top.obj \in DOMAIN data /\ Top.todo \subseteq Node(Top.node).next
      /\ Node(Top.node).kind # "capabilities"
  BY <1>1 DEF CallsInOrder, Top
<1>4. Node(Top.node) \in Nodes /\ Top.node \in Nat \ {0}
  BY <1>3, GraphIsBuilt DEF Node
<1> QED
  BY <1>1, <1>2, <1>3, <1>4 DEF Top

\* A consumer is called.
LEMMA CallEffect ==
  ASSUME FlowTypeOK, CallsInOrder, stack # <<>>, UNCHANGED <<config, mutates, kept>>,
         NEW k \in Top.todo, NEW d \in Seq(Objects), DOMAIN data \subseteq DOMAIN d,
         NEW o \in DOMAIN d, NEW path \in SUBSET Nat,
         Call(Called(k), k, d, o, path)
  PROVE  /\ Len(stack') = Len(stack) + 1 /\ DOMAIN stack' = 1..(Len(stack) + 1)
         /\ stack' \in Seq(Frames)
         /\ \A i \in 1..(Len(stack) - 1) : stack'[i] = stack[i]
         /\ stack'[Len(stack)] \in Frames
         /\ stack'[Len(stack)].node = Top.node /\ stack'[Len(stack)].obj = Top.obj
         /\ stack'[Len(stack)].path = Top.path /\ stack'[Len(stack)].unref = Top.unref
         /\ stack'[Len(stack)].todo = Top.todo \ {k}
         /\ stack'[Len(stack) + 1] \in Frames
         /\ stack'[Len(stack) + 1].node = Entry(k) /\ stack'[Len(stack) + 1].obj = o
         /\ stack'[Len(stack) + 1].path = path /\ stack'[Len(stack) + 1].todo = Node(Entry(k)).next
         /\ stack'[Len(stack) + 1].unref = (Node(Entry(k)).kind # "fanout" /\ ~d[o].owned)
         /\ data' \in Seq(Objects) /\ DOMAIN data' = DOMAIN d
         /\ \A p \in DOMAIN d :
              /\ data'[p].readOnly = d[p].readOnly /\ data'[p].refs = d[p].refs
              /\ data'[p].taken = d[p].taken /\ data'[p].changes = d[p].changes
              /\ data'[p].owned = (d[p].owned \/ (p = o /\ Node(Entry(k)).kind # "fanout"))
<1> DEFINE n == Entry(k)
           first == Node(n).kind # "fanout" /\ ~d[o].owned
           new == [node |-> n, obj |-> o, path |-> path, todo |-> Node(n).next, unref |-> first]
           old == Called(k)
<1>1. /\ Top \in Frames /\ stack \in Seq(Frames)
      /\ Top.node \in DOMAIN config.nodes /\ k \in Node(Top.node).next
  BY TopIsCall DEF FlowTypeOK
<1>2. /\ n \in DOMAIN config.nodes /\ n \in Nat /\ Node(n) \in Nodes
  BY <1>1, EntryIsComponent, GraphIsBuilt DEF Node
<1>3. o \in Nat
  OBVIOUS
<1>4. old \in Frames /\ old.node = Top.node /\ old.obj = Top.obj /\ old.path = Top.path
      /\ old.unref = Top.unref /\ old.todo = Top.todo \ {k}
  BY <1>1, ZenonT(30) DEF Called, Frames
<1>5. Node(n).next \in SUBSET Nat
  BY <1>2 DEF Nodes
<1>6. new \in Frames
  BY <1>2, <1>3, <1>5 DEF Frames
<1>7. /\ stack' = Append([stack EXCEPT ![Len(stack)] = old], new)
      /\ data' = [d EXCEPT ![o].owned = @ \/ first]
  BY DEF Call
<1>8. d[o] \in Objects
  OBVIOUS
<1>9. data' \in Seq(Objects) /\ DOMAIN data' = DOMAIN d
  <2>1. [d[o] EXCEPT !.owned = @ \/ first] \in Objects
    BY <1>8, ZenonT(30) DEF Objects
  <2>2. data' = [d EXCEPT ![o] = [d[o] EXCEPT !.owned = @ \/ first]]
    BY <1>7
  <2>3. \A x \in Objects : [d EXCEPT ![o] = x] \in Seq(Objects) /\ DOMAIN [d EXCEPT ![o] = x] = DOMAIN d
    OBVIOUS
  <2> QED
    BY <2>1, <2>2, <2>3
<1>10. \A p \in DOMAIN d :
              /\ data'[p].readOnly = d[p].readOnly /\ data'[p].refs = d[p].refs
              /\ data'[p].taken = d[p].taken /\ data'[p].changes = d[p].changes
              /\ data'[p].owned = (d[p].owned \/ (p = o /\ Node(Entry(k)).kind # "fanout"))
  <2> SUFFICES ASSUME NEW p \in DOMAIN d
               PROVE  /\ data'[p].readOnly = d[p].readOnly /\ data'[p].refs = d[p].refs
                      /\ data'[p].taken = d[p].taken /\ data'[p].changes = d[p].changes
                      /\ data'[p].owned = (d[p].owned \/ (p = o /\ Node(Entry(k)).kind # "fanout"))
    OBVIOUS
  <2>1. d[p] \in Objects
    OBVIOUS
  <2>2. CASE p # o
    BY <1>7, <2>1, <2>2 DEF Objects
  <2>3. CASE p = o
    BY <1>7, <2>1, <2>3, ZenonT(30) DEF Objects
  <2> QED
    BY <2>2, <2>3
<1> HIDE DEF old, new
<1>11. /\ stack' \in Seq(Frames) /\ Len(stack') = Len(stack) + 1 /\ DOMAIN stack' = 1..(Len(stack) + 1)
       /\ stack'[Len(stack)] = old /\ stack'[Len(stack) + 1] = new
       /\ \A i \in 1..(Len(stack) - 1) : stack'[i] = stack[i]
  BY <1>1, <1>4, <1>6, <1>7, Pushed
<1>12. new.node = n /\ new.obj = o /\ new.path = path /\ new.todo = Node(n).next /\ new.unref = first
  BY DEF new
<1> QED
  BY <1>4, <1>6, <1>9, <1>10, <1>11, <1>12

\* A call returns.
LEMMA PopEffect ==
  ASSUME FlowTypeOK, CallsInOrder, stack # <<>>, UNCHANGED <<config, mutates>>,
         NEW d \in Seq(Objects), DOMAIN d = DOMAIN data, Pop(d)
  PROVE  /\ Len(stack') = Len(stack) - 1 /\ DOMAIN stack' = 1..(Len(stack) - 1)
         /\ stack' \in Seq(Frames)
         /\ \A i \in 1..(Len(stack) - 1) : stack'[i] = stack[i]
         /\ data' \in Seq(Objects) /\ DOMAIN data' = DOMAIN data
         /\ \A p \in DOMAIN data :
              /\ data'[p].readOnly = d[p].readOnly /\ data'[p].owned = d[p].owned
              /\ data'[p].taken = d[p].taken
              /\ data'[p].refs = IF Top.unref /\ p = Top.obj THEN d[p].refs - 1 ELSE d[p].refs
              /\ data'[p].changes = IF Top.unref /\ p = Top.obj /\ d[p].refs = 1 /\ config.pooling
                                    THEN d[p].changes \union {Reset} ELSE d[p].changes
<1>1. /\ Len(stack') = Len(stack) - 1 /\ DOMAIN stack' = 1..(Len(stack) - 1)
      /\ stack' \in Seq(Frames)
      /\ \A i \in 1..(Len(stack) - 1) : stack'[i] = stack[i]
  <2>1. stack \in Seq(Frames) /\ stack' = SubSeq(stack, 1, Len(stack) - 1)
    BY DEF Pop, Below, FlowTypeOK
  <2>2. PICK n, t : n = Len(stack) - 1 /\ t = SubSeq(stack, 1, n)
    BY ZenonT(30)
  <2>3. /\ t \in Seq(Frames) /\ Len(t) = Len(stack) - 1 /\ DOMAIN t = 1..(Len(stack) - 1)
        /\ \A i \in 1..(Len(stack) - 1) : t[i] = stack[i]
    BY <2>1, <2>2, Popped
  <2>4. stack' = t
    BY <2>1, <2>2
  <2> QED
    BY <2>3, <2>4
<1>2. Top.obj \in DOMAIN d
  BY TopIsCall
<1>3. CASE ~Top.unref
  BY <1>1, <1>3 DEF Pop
<1>4. CASE Top.unref
  <2> DEFINE o == Top.obj
             x == [d[o] EXCEPT !.refs = @ - 1,
                     !.changes = IF d[o].refs = 1 /\ config.pooling THEN @ \union {Reset} ELSE @]
  <2>1. data' = [d EXCEPT ![o] = x]
    BY <1>2, <1>4, ZenonT(30) DEF Pop, Unref
  <2>2. d[o] \in Objects
    BY <1>2
  <2>0. d[o].changes \union {Reset} \in SUBSET Nat /\ d[o].refs - 1 \in Int
    BY <2>2 DEF Objects, Reset
  <2>3. /\ x \in Objects /\ x.readOnly = d[o].readOnly /\ x.owned = d[o].owned /\ x.taken = d[o].taken
        /\ x.refs = d[o].refs - 1
        /\ x.changes = IF d[o].refs = 1 /\ config.pooling THEN d[o].changes \union {Reset} ELSE d[o].changes
    BY <2>0, <2>2, ZenonT(30) DEF Objects
  <2> HIDE DEF x
  <2>4. data' \in Seq(Objects) /\ DOMAIN data' = DOMAIN d
    BY <1>2, <2>1, <2>3
  <2>5. data'[o] = x /\ \A p \in DOMAIN d : p # o => data'[p] = d[p]
    BY <1>2, <2>1
  <2> QED
    BY <1>1, <1>4, <2>3, <2>4, <2>5, ZenonT(30)
<1> QED
  BY <1>3, <1>4, ZenonT(30)

\* The stack stays in order when a consumer is called.
LEMMA CallInOrder ==
  ASSUME FlowTypeOK, CallsInOrder, stack # <<>>, UNCHANGED <<config, mutates, kept>>,
         NEW k \in Top.todo, NEW d \in Seq(Objects), DOMAIN data \subseteq DOMAIN d,
         NEW o \in DOMAIN d, NEW path \in SUBSET Nat,
         Call(Called(k), k, d, o, path)
  PROVE  FlowTypeOK' /\ CallsInOrder'
<1>1. /\ DOMAIN stack' = 1..(Len(stack) + 1) /\ Len(stack') = Len(stack) + 1
      /\ stack' \in Seq(Frames) /\ data' \in Seq(Objects) /\ DOMAIN data' = DOMAIN d
      /\ \A i \in 1..(Len(stack) - 1) : stack'[i] = stack[i]
      /\ stack'[Len(stack)].node = Top.node /\ stack'[Len(stack)].obj = Top.obj
      /\ stack'[Len(stack)].todo = Top.todo \ {k}
      /\ stack'[Len(stack) + 1].node = Entry(k) /\ stack'[Len(stack) + 1].obj = o
      /\ stack'[Len(stack) + 1].todo = Node(Entry(k)).next
  BY CallEffect
<1>2. FlowTypeOK'
  BY <1>1 DEF FlowTypeOK
<1>3. /\ Len(stack) \in Nat \ {0} /\ DOMAIN stack = 1..Len(stack)
      /\ Top.node \in DOMAIN config.nodes /\ Top.obj \in DOMAIN data
      /\ Top.todo \subseteq Node(Top.node).next /\ Node(Top.node).kind # "capabilities"
  BY TopIsCall
<1>4. Entry(k) \in DOMAIN config.nodes /\ Node(Entry(k)).kind # "capabilities"
  BY <1>3, EntryIsComponent
<1>5. Node(Top.node).kind # "exporter"
  BY <1>3, GraphIsBuilt DEF Linked, Node
<1>6. ASSUME NEW i \in DOMAIN stack'
      PROVE  /\ stack'[i].node \in DOMAIN config.nodes
             /\ stack'[i].obj \in DOMAIN data'
             /\ stack'[i].todo \subseteq Node(stack'[i].node).next
             /\ Node(stack'[i].node).kind # "capabilities"
             /\ Node(stack'[i].node).kind = "exporter" => i = Len(stack')
  <2>1. CASE i \in 1..(Len(stack) - 1)
    <3>1. i \in DOMAIN stack /\ i # Len(stack) /\ stack'[i] = stack[i]
      BY <1>1, <1>3, <2>1
    <3> QED
      BY <1>1, <3>1 DEF CallsInOrder
  <2>2. CASE i = Len(stack)
    BY <1>1, <1>3, <1>5, <2>2, ZenonT(30)
  <2>3. CASE i = Len(stack) + 1
    BY <1>1, <1>4, <2>3
  <2> QED
    BY <1>1, <1>3, <2>1, <2>2, <2>3
<1>7. \A h \in kept : h.by \in DOMAIN config.nodes /\ h.obj \in DOMAIN data' /\ Node(h.by).kind = "exporter"
  BY <1>1 DEF CallsInOrder
<1> QED
  BY <1>2, <1>6, <1>7 DEF CallsInOrder, Node

\* The invariants after a step, in terms of the graph, which no step changes.
LEMMA GraphStays ==
  ASSUME UNCHANGED <<config, mutates>>,
         \A i \in DOMAIN stack' :
           /\ Pending(stack'[i]) /\ Needs(stack'[i].node) =>
                /\ ~data'[stack'[i].obj].readOnly
                /\ \A h \in kept' : h.obj # stack'[i].obj
                /\ \A j \in DOMAIN stack' : j # i /\ Pending(stack'[j]) => stack'[j].obj # stack'[i].obj
           /\ Pending(stack'[i]) => data'[stack'[i].obj].changes \ {Reset} = stack'[i].path,
         \A h \in kept' :
           /\ Node(h.by).mutates =>
                /\ ~data'[h.obj].readOnly
                /\ \A g \in kept' : g # h => g.obj # h.obj
                /\ \A j \in DOMAIN stack' : Pending(stack'[j]) => stack'[j].obj # h.obj
           /\ data'[h.obj].changes \ {h.by, Reset} = h.path \ {h.by}
  PROVE  Alone' /\ Changes'
BY DEF Alone, Changes, Pending, Needs, Node, Reset

\* A call with the caller's own object: the caller is done with it, or neither of the
\* two changes it.
LEMMA SameObject ==
  ASSUME FlowInv, stack # <<>>, UNCHANGED <<config, mutates, kept>>,
         NEW k \in Top.todo, NEW d \in Seq(Objects), DOMAIN d = DOMAIN data,
         NEW path \in SUBSET Nat,
         Call(Called(k), k, d, Top.obj, path),
         path = d[Top.obj].changes \ {Reset},
         \A p \in DOMAIN data : p # Top.obj =>
           d[p].readOnly = data[p].readOnly /\ d[p].changes = data[p].changes,
         \/ /\ Top.todo = {k}
            /\ Needs(Entry(k)) => Needs(Top.node)
            /\ d[Top.obj].readOnly = data[Top.obj].readOnly
            /\ Needs(Top.node) \/ d[Top.obj].changes = data[Top.obj].changes
         \/ /\ ~Needs(Entry(k)) /\ ~Needs(Top.node)
            /\ d[Top.obj].changes = data[Top.obj].changes
  PROVE  FlowInv'
<1> DEFINE o == Top.obj
<1>0. PICK L \in Nat \ {0} : L = Len(stack) /\ DOMAIN stack = 1..L /\ L \in DOMAIN stack
  BY TopIsCall, ZenonT(30) DEF FlowInv
<1>1. FlowTypeOK' /\ CallsInOrder'
  BY TopIsCall, CallInOrder, ZenonT(30) DEF FlowInv
<1>2. /\ Top = stack[L] /\ Top.obj \in DOMAIN data
      /\ Pending(stack[L])
  BY <1>0, TopIsCall DEF FlowInv, Pending
<1>3. /\ DOMAIN stack' = 1..(L + 1)
      /\ \A i \in 1..(L - 1) : stack'[i] = stack[i]
      /\ stack'[L].node = Top.node /\ stack'[L].obj = o /\ stack'[L].path = Top.path
      /\ stack'[L].todo = Top.todo \ {k}
      /\ stack'[L + 1].node = Entry(k) /\ stack'[L + 1].obj = o /\ stack'[L + 1].path = path
      /\ DOMAIN data' = DOMAIN data
      /\ \A p \in DOMAIN data : data'[p].readOnly = d[p].readOnly /\ data'[p].changes = d[p].changes
  <2>1. Top.obj \in DOMAIN d /\ DOMAIN data \subseteq DOMAIN d
    BY <1>2
  <2> QED
    BY <1>0, <2>1, CallEffect DEF FlowInv
<1>4. ASSUME NEW i \in 1..(L - 1), Pending(stack[i])
      PROVE  /\ i \in DOMAIN stack /\ i # L
             /\ Needs(stack[i].node) \/ Needs(Top.node) => stack[i].obj # o
  <2>1. i \in DOMAIN stack /\ L \in DOMAIN stack /\ i # L
    BY <1>0
  <2>2. Needs(stack[i].node) => stack[i].obj # stack[L].obj
    BY <1>0, <1>2, <1>4, <2>1 DEF FlowInv, Alone
  <2>3. Needs(stack[L].node) => stack[i].obj # stack[L].obj
    BY <1>0, <1>2, <1>4, <2>1 DEF FlowInv, Alone
  <2> QED
    BY <1>0, <1>2, <2>1, <2>2, <2>3
<1>5. ASSUME NEW h \in kept
      PROVE  Node(h.by).mutates \/ Needs(Top.node) => h.obj # o
  <2>1. Node(h.by).mutates => h.obj # stack[L].obj
    BY <1>0, <1>2 DEF FlowInv, Alone
  <2>2. Needs(stack[L].node) => h.obj # stack[L].obj
    BY <1>0, <1>2 DEF FlowInv, Alone
  <2> QED
    BY <1>0, <1>2, <2>1, <2>2
<1>6. Pending(stack'[L]) => ~Needs(Entry(k)) /\ ~Needs(Top.node) /\ d[Top.obj].changes = data[Top.obj].changes
  <2>1. Pending(stack'[L]) => Top.todo # {k}
    BY <1>0, <1>2, <1>3, GraphIsBuilt, TopIsCall, ZenonT(30) DEF Pending, Linked, Node, FlowInv
  <2> QED
    BY <2>1
<1>7. ASSUME NEW i \in DOMAIN stack', Pending(stack'[i])
      PROVE  /\ Needs(stack'[i].node) =>
                  /\ ~data'[stack'[i].obj].readOnly
                  /\ \A h \in kept' : h.obj # stack'[i].obj
                  /\ \A j \in DOMAIN stack' : j # i /\ Pending(stack'[j]) => stack'[j].obj # stack'[i].obj
             /\ data'[stack'[i].obj].changes \ {Reset} = stack'[i].path
  <2>1. CASE i \in 1..(L - 1)
    <3>1. stack'[i] = stack[i] /\ Pending(stack[i]) /\ i \in DOMAIN stack /\ stack[i].obj \in DOMAIN data
      <4>1. stack'[i] = stack[i] /\ i \in DOMAIN stack
        BY <1>0, <1>2, <1>3, <2>1
      <4> QED
        BY <1>7, <4>1 DEF FlowInv, CallsInOrder
    <3>2. data[stack[i].obj].changes \ {Reset} = stack[i].path
      BY <3>1 DEF FlowInv, Changes
    <3>3. Needs(Top.node) => stack[i].obj # o
      BY <1>4, <2>1, <3>1
    <3>4. data'[stack[i].obj].changes = data[stack[i].obj].changes
      BY <1>3, <3>1, <3>3
    <3>5. ASSUME Needs(stack[i].node)
          PROVE  /\ ~data'[stack[i].obj].readOnly
                 /\ \A h \in kept' : h.obj # stack[i].obj
                 /\ \A j \in DOMAIN stack' : j # i /\ Pending(stack'[j]) => stack'[j].obj # stack[i].obj
      <4>1. stack[i].obj # o
        BY <1>4, <2>1, <3>1, <3>5
      <4>2. /\ ~data[stack[i].obj].readOnly
            /\ \A h \in kept : h.obj # stack[i].obj
            /\ \A j \in DOMAIN stack : j # i /\ Pending(stack[j]) => stack[j].obj # stack[i].obj
        BY <3>1, <3>5 DEF FlowInv, Alone
      <4>3. \A j \in DOMAIN stack' : j # i /\ Pending(stack'[j]) => stack'[j].obj # stack[i].obj
        BY <1>0, <1>2, <1>3, <4>1, <4>2
      <4> QED
        BY <1>3, <3>1, <4>1, <4>2, <4>3
    <3> QED
      BY <3>1, <3>2, <3>4, <3>5
  <2>2. CASE i = L
    <3>1. ~Needs(stack'[i].node) /\ data'[o].changes = data[o].changes
      BY <1>0, <1>2, <1>3, <1>6, <1>7, <2>2
    <3>2. data[o].changes \ {Reset} = Top.path
      BY <1>0, <1>2 DEF FlowInv, Changes
    <3> QED
      BY <1>3, <2>2, <3>1, <3>2
  <2>3. CASE i = L + 1
    <3>1. data'[o].changes \ {Reset} = path
      BY <1>0, <1>2, <1>3
    <3>2. ASSUME Needs(Entry(k))
          PROVE  /\ ~data'[o].readOnly
                 /\ \A h \in kept' : h.obj # o
                 /\ \A j \in DOMAIN stack' : j # i /\ Pending(stack'[j]) => stack'[j].obj # o
      <4>1. Needs(Top.node) /\ d[o].readOnly = data[o].readOnly
        BY <3>2
      <4>2. ~data[o].readOnly /\ \A h \in kept : h.obj # o
        BY <1>0, <1>2, <4>1 DEF FlowInv, Alone
      <4>3. \A j \in 1..(L - 1) : Pending(stack'[j]) => stack'[j].obj # o
        BY <1>3, <1>4, <4>1
      <4>4. \A j \in DOMAIN stack' : j # i /\ Pending(stack'[j]) => stack'[j].obj # o
        BY <1>0, <1>2, <1>3, <1>6, <2>3, <3>2, <4>3
      <4> QED
        BY <1>0, <1>2, <1>3, <4>1, <4>2, <4>4
    <3> QED
      BY <1>3, <2>3, <3>1, <3>2
  <2> QED
    BY <1>0, <1>2, <1>3, <2>1, <2>2, <2>3
<1>8. ASSUME NEW h \in kept
      PROVE  /\ Node(h.by).mutates =>
                  /\ ~data'[h.obj].readOnly
                  /\ \A g \in kept : g # h => g.obj # h.obj
                  /\ \A j \in DOMAIN stack' : Pending(stack'[j]) => stack'[j].obj # h.obj
             /\ data'[h.obj].changes \ {h.by, Reset} = h.path \ {h.by}
  <2>1. h.obj \in DOMAIN data
    BY DEF FlowInv, CallsInOrder
  <2>2. data[h.obj].changes \ {h.by, Reset} = h.path \ {h.by}
    BY DEF FlowInv, Changes
  <2>3. data'[h.obj].changes = data[h.obj].changes
    BY <1>3, <1>5, <2>1
  <2>4. ASSUME Node(h.by).mutates
        PROVE  /\ ~data'[h.obj].readOnly
               /\ \A g \in kept : g # h => g.obj # h.obj
               /\ \A j \in DOMAIN stack' : Pending(stack'[j]) => stack'[j].obj # h.obj
    <3>1. h.obj # o
      BY <1>5, <2>4
    <3>2. /\ ~data[h.obj].readOnly
          /\ \A g \in kept : g # h => g.obj # h.obj
          /\ \A j \in DOMAIN stack : Pending(stack[j]) => stack[j].obj # h.obj
      BY <2>4 DEF FlowInv, Alone
    <3>3. \A j \in DOMAIN stack' : Pending(stack'[j]) => stack'[j].obj # h.obj
      BY <1>0, <1>2, <1>3, <3>1, <3>2
    <3> QED
      BY <1>3, <2>1, <3>1, <3>2, <3>3
  <2> QED
    BY <2>2, <2>3, <2>4
<1>9. Alone' /\ Changes'
  BY <1>7, <1>8, GraphStays
<1> QED
  BY <1>1, <1>9 DEF FlowInv

\* The clone that a fan-out makes is an object of its own.
LEMMA CloneAppended ==
  ASSUME FlowTypeOK, NEW p \in DOMAIN data, NEW d, d = Append(data, New(data[p].changes))
  PROVE  /\ d \in Seq(Objects) /\ DOMAIN d = 1..(Len(data) + 1)
         /\ d[Len(data) + 1] = New(data[p].changes)
         /\ \A q \in DOMAIN data : d[q] = data[q]
<1>1. data \in Seq(Objects) /\ data[p] \in Objects
  BY DEF FlowTypeOK
<1>2. New(data[p].changes) \in Objects
  BY <1>1 DEF New, Objects
<1>3. \A x \in Objects : /\ Append(data, x) \in Seq(Objects)
                         /\ DOMAIN Append(data, x) = 1..(Len(data) + 1)
                         /\ Append(data, x)[Len(data) + 1] = x
                         /\ \A q \in DOMAIN data : Append(data, x)[q] = data[q]
  BY <1>1
<1> QED
  BY <1>2, <1>3

\* A call with a clone.
LEMMA FreshObject ==
  ASSUME FlowInv, stack # <<>>, UNCHANGED <<config, mutates, kept>>,
         NEW k \in Top.todo, NEW d \in Seq(Objects), DOMAIN data \subseteq DOMAIN d,
         NEW o \in DOMAIN d, o \notin DOMAIN data, DOMAIN d = DOMAIN data \union {o}, d[o] = New(data[Top.obj].changes),
         \A p \in DOMAIN data : d[p] = data[p],
         Call(Called(k), k, d, o, Top.path)
  PROVE  FlowInv'
<1>0. PICK L \in Nat \ {0} : L = Len(stack) /\ DOMAIN stack = 1..L /\ L \in DOMAIN stack
  BY TopIsCall, ZenonT(30) DEF FlowInv
<1>1. /\ Top = stack[L] /\ Top.obj \in DOMAIN data
      /\ Pending(stack[L]) /\ Top \in Frames
  BY <1>0, TopIsCall DEF FlowInv, Pending
<1>4. Top.path \in SUBSET Nat
  BY <1>1 DEF Frames
<1>5. FlowTypeOK' /\ CallsInOrder'
  BY <1>4, CallInOrder DEF FlowInv
<1>6. /\ DOMAIN stack' = 1..(L + 1)
      /\ \A i \in 1..(L - 1) : stack'[i] = stack[i]
      /\ stack'[L].node = Top.node /\ stack'[L].obj = Top.obj /\ stack'[L].path = Top.path
      /\ stack'[L].todo = Top.todo \ {k}
      /\ stack'[L + 1].node = Entry(k) /\ stack'[L + 1].obj = o /\ stack'[L + 1].path = Top.path
      /\ DOMAIN data' = DOMAIN d
      /\ \A p \in DOMAIN d : data'[p].readOnly = d[p].readOnly /\ data'[p].changes = d[p].changes
  BY <1>0, <1>4, CallEffect DEF FlowInv
<1>7. /\ \A p \in DOMAIN data : data'[p].readOnly = data[p].readOnly /\ data'[p].changes = data[p].changes
      /\ ~data'[o].readOnly /\ data'[o].changes = data[Top.obj].changes
  <2>1. \A p \in DOMAIN data : p \in DOMAIN d /\ d[p] = data[p]
    BY <1>4
  <2>2. ~d[o].readOnly /\ d[o].changes = data[Top.obj].changes
    BY DEF New
  <2> QED
    BY <1>4, <1>6, <2>1, <2>2
<1>8. \A i \in DOMAIN stack : stack[i].obj \in DOMAIN data /\ stack[i].obj # o
  BY <1>4 DEF FlowInv, CallsInOrder
<1>9. \A h \in kept : h.obj \in DOMAIN data /\ h.obj # o
  BY <1>4 DEF FlowInv, CallsInOrder
<1>10. ASSUME NEW i \in 1..L
       PROVE  /\ i \in DOMAIN stack /\ i \in DOMAIN stack'
              /\ stack'[i].node = stack[i].node /\ stack'[i].obj = stack[i].obj /\ stack'[i].path = stack[i].path
              /\ Pending(stack'[i]) => Pending(stack[i])
  <2>0. i \in DOMAIN stack /\ i \in DOMAIN stack'
    BY <1>0, <1>1, <1>6
  <2>1. CASE i = L
    BY <1>0, <1>1, <1>6, <2>0, <2>1
  <2>2. CASE i # L
    <3>1. i \in 1..(L - 1)
      BY <1>0, <2>2
    <3>2. stack'[i] = stack[i]
      BY <1>6, <3>1
    <3> QED
      BY <2>0, <3>2
  <2> QED
    BY <2>1, <2>2
<1>11. ASSUME NEW i \in DOMAIN stack', Pending(stack'[i])
       PROVE  /\ Needs(stack'[i].node) =>
                   /\ ~data'[stack'[i].obj].readOnly
                   /\ \A h \in kept' : h.obj # stack'[i].obj
                   /\ \A j \in DOMAIN stack' : j # i /\ Pending(stack'[j]) => stack'[j].obj # stack'[i].obj
              /\ data'[stack'[i].obj].changes \ {Reset} = stack'[i].path
  <2>1. CASE i \in 1..L
    <3>1. /\ i \in DOMAIN stack /\ stack'[i].node = stack[i].node /\ stack'[i].obj = stack[i].obj
          /\ stack'[i].path = stack[i].path /\ Pending(stack[i])
      BY <1>10, <1>11, <2>1
    <3>2. /\ stack[i].obj \in DOMAIN data /\ stack[i].obj # o
          /\ data[stack[i].obj].changes \ {Reset} = stack[i].path
      BY <1>8, <3>1 DEF FlowInv, Changes
    <3>3. ASSUME Needs(stack[i].node)
          PROVE  /\ ~data[stack[i].obj].readOnly
                 /\ \A h \in kept : h.obj # stack[i].obj
                 /\ \A j \in DOMAIN stack' : j # i /\ Pending(stack'[j]) => stack'[j].obj # stack[i].obj
      <4>1. /\ ~data[stack[i].obj].readOnly
            /\ \A h \in kept : h.obj # stack[i].obj
            /\ \A j \in DOMAIN stack : j # i /\ Pending(stack[j]) => stack[j].obj # stack[i].obj
        BY <3>1, <3>3 DEF FlowInv, Alone
      <4>2. \A j \in 1..L : j # i /\ Pending(stack'[j]) => stack'[j].obj # stack[i].obj
        BY <1>10, <4>1
      <4>3. \A j \in DOMAIN stack' : j \in 1..L \/ j = L + 1
        BY <1>0, <1>1, <1>6
      <4> QED
        BY <1>6, <3>2, <4>1, <4>2, <4>3
    <3> QED
      BY <1>7, <3>1, <3>2, <3>3
  <2>2. CASE i = L + 1
    <3>1. data[Top.obj].changes \ {Reset} = Top.path
      BY <1>0, <1>1 DEF FlowInv, Changes
    <3>2. \A j \in DOMAIN stack' : j # i => j \in 1..L
      BY <1>0, <1>1, <1>6, <2>2
    <3>3. \A j \in DOMAIN stack' : j # i => stack'[j].obj # o
      BY <1>8, <1>10, <3>2
    <3> QED
      BY <1>6, <1>7, <1>9, <2>2, <3>1, <3>3
  <2> QED
    BY <1>0, <1>1, <1>6, <2>1, <2>2
<1>12. ASSUME NEW h \in kept
       PROVE  /\ Node(h.by).mutates =>
                   /\ ~data'[h.obj].readOnly
                   /\ \A g \in kept : g # h => g.obj # h.obj
                   /\ \A j \in DOMAIN stack' : Pending(stack'[j]) => stack'[j].obj # h.obj
              /\ data'[h.obj].changes \ {h.by, Reset} = h.path \ {h.by}
  <2>1. data[h.obj].changes \ {h.by, Reset} = h.path \ {h.by} /\ h.obj \in DOMAIN data /\ h.obj # o
    BY <1>9 DEF FlowInv, Changes
  <2>2. ASSUME Node(h.by).mutates
        PROVE  /\ ~data[h.obj].readOnly
               /\ \A g \in kept : g # h => g.obj # h.obj
               /\ \A j \in DOMAIN stack' : Pending(stack'[j]) => stack'[j].obj # h.obj
    <3>1. /\ ~data[h.obj].readOnly
          /\ \A g \in kept : g # h => g.obj # h.obj
          /\ \A j \in DOMAIN stack : Pending(stack[j]) => stack[j].obj # h.obj
      BY <2>2 DEF FlowInv, Alone
    <3>2. \A j \in 1..L : Pending(stack'[j]) => stack'[j].obj # h.obj
      BY <1>10, <3>1
    <3>3. \A j \in DOMAIN stack' : j \in 1..L \/ j = L + 1
      BY <1>0, <1>1, <1>6
    <3> QED
      BY <1>6, <2>1, <3>1, <3>2, <3>3
  <2> QED
    BY <1>7, <2>1, <2>2
<1>13. Alone' /\ Changes'
  BY <1>11, <1>12, GraphStays
<1> QED
  BY <1>5, <1>13 DEF FlowInv

\* A component's work on an object.
LEMMA Written ==
  ASSUME FlowTypeOK, NEW o \in DOMAIN data, NEW n \in DOMAIN config.nodes, NEW d, d = Write(data, o, n)
  PROVE  /\ d \in Seq(Objects) /\ DOMAIN d = DOMAIN data
         /\ \A p \in DOMAIN data :
              /\ d[p].readOnly = data[p].readOnly /\ d[p].owned = data[p].owned
              /\ d[p].refs = data[p].refs /\ d[p].taken = data[p].taken
              /\ p # o => d[p].changes = data[p].changes
         /\ d[o].changes = data[o].changes \/ (Node(n).mutates /\ n \in Nat \ {0})
         /\ d[o].changes = data[o].changes \union {m \in {n} : Node(m).mutates}
<1> DEFINE c == IF Node(n).mutates THEN data[o].changes \union {n} ELSE data[o].changes
           x == [data[o] EXCEPT !.changes = c]
<1>1. data \in Seq(Objects) /\ data[o] \in Objects /\ n \in Nat \ {0}
  BY GraphIsBuilt DEF FlowTypeOK
<1>2. c \in SUBSET Nat
  BY <1>1 DEF Objects
<1>3. d = [data EXCEPT ![o] = x]
  BY DEF Write
<1> HIDE DEF c
<1>4. /\ x \in Objects /\ x.readOnly = data[o].readOnly /\ x.owned = data[o].owned
      /\ x.refs = data[o].refs /\ x.taken = data[o].taken /\ x.changes = c
  BY <1>1, <1>2 DEF Objects
<1> HIDE DEF x
<1>5. d \in Seq(Objects) /\ DOMAIN d = DOMAIN data /\ d[o] = x /\ \A p \in DOMAIN data : p # o => d[p] = data[p]
  BY <1>1, <1>3, <1>4
<1>6. c = data[o].changes \union {m \in {n} : Node(m).mutates}
  BY DEF c
<1>7. c = data[o].changes \/ Node(n).mutates
  BY DEF c
<1> QED
  BY <1>1, <1>4, <1>5, <1>6, <1>7, ZenonT(30)

\* The marking as read-only.
LEMMA Marked ==
  ASSUME FlowTypeOK, NEW o \in DOMAIN data, NEW b \in BOOLEAN, NEW d, d = MarkReadOnly(data, o, b)
  PROVE  /\ d \in Seq(Objects) /\ DOMAIN d = DOMAIN data
         /\ \A p \in DOMAIN data :
              /\ d[p].owned = data[p].owned /\ d[p].refs = data[p].refs
              /\ d[p].taken = data[p].taken /\ d[p].changes = data[p].changes
              /\ p # o => d[p].readOnly = data[p].readOnly
<1> DEFINE x == [data[o] EXCEPT !.readOnly = @ \/ b]
<1>1. data \in Seq(Objects) /\ data[o] \in Objects
  BY DEF FlowTypeOK
<1>2. d = [data EXCEPT ![o] = x]
  BY DEF MarkReadOnly
<1>3. /\ x \in Objects /\ x.owned = data[o].owned
      /\ x.refs = data[o].refs /\ x.taken = data[o].taken /\ x.changes = data[o].changes
  BY <1>1 DEF Objects
<1> HIDE DEF x
<1>4. d \in Seq(Objects) /\ DOMAIN d = DOMAIN data /\ d[o] = x /\ \A p \in DOMAIN data : p # o => d[p] = data[p]
  BY <1>1, <1>2, <1>3
<1> QED
  BY <1>3, <1>4

\* The innermost call uses its object as long as it has somebody to call.
LEMMA TopPath ==
  ASSUME FlowInv, stack # <<>>, Pending(Top)
  PROVE  Top.path = data[Top.obj].changes \ {Reset} /\ Top.path \in SUBSET Nat
BY TopIsCall DEF FlowInv, Changes, Frames

\* A fan-out calls a consumer that declared that it changes data.
LEMMA FanOutMutableKeeps ==
  ASSUME FlowInv, FanOutMutable
  PROVE  FlowInv'
<1>1. PICK k \in Top.todo \intersect Mutable(Top.node) :
        LET o == Top.obj
            asIs == /\ Top.todo \intersect Mutable(Top.node) = {k}
                    /\ ReadOnly(Top.node) = {}
                    /\ ~data[o].readOnly
        IN IF asIs THEN Call(Called(k), k, data, o, Top.path)
           ELSE Call(Called(k), k, Append(data, New(data[o].changes)), Len(data) + 1, Top.path)
  BY DEF FanOutMutable
<1>2. /\ stack # <<>> /\ Node(Top.node).kind = "fanout" /\ UNCHANGED <<config, mutates, kept>>
      /\ Pending(Top)
  BY <1>1 DEF FanOutMutable, Pending
<1>3. /\ FlowTypeOK /\ CallsInOrder /\ data \in Seq(Objects) /\ Top.obj \in DOMAIN data
      /\ Top.node \in DOMAIN config.nodes /\ Top.todo \subseteq Node(Top.node).next
      /\ DOMAIN data = 1..Len(data) /\ Len(data) \in Nat
      /\ Top.path = data[Top.obj].changes \ {Reset} /\ Top.path \in SUBSET Nat
  BY <1>2, TopIsCall, TopPath DEF FlowInv, FlowTypeOK
<1>4. CASE Call(Called(k), k, Append(data, New(data[Top.obj].changes)), Len(data) + 1, Top.path)
  <2>1. PICK d, o : d = Append(data, New(data[Top.obj].changes)) /\ o = Len(data) + 1
    BY ZenonT(30)
  <2>2. /\ d \in Seq(Objects) /\ DOMAIN d = 1..(Len(data) + 1) /\ d[o] = New(data[Top.obj].changes)
        /\ \A p \in DOMAIN data : d[p] = data[p]
    BY <1>3, <2>1, CloneAppended
  <2>3. o \in DOMAIN d /\ o \notin DOMAIN data /\ DOMAIN d = DOMAIN data \union {o} /\ DOMAIN data \subseteq DOMAIN d
    BY <1>3, <2>1, <2>2
  <2>4. Call(Called(k), k, d, o, Top.path)
    BY <1>4, <2>1
  <2>5. k \in Top.todo
    OBVIOUS
  <2> QED
    BY <1>2, <2>2, <2>3, <2>4, <2>5, FreshObject
<1>5. CASE /\ Top.todo \intersect Mutable(Top.node) = {k}
           /\ ReadOnly(Top.node) = {}
           /\ Call(Called(k), k, data, Top.obj, Top.path)
  <2>1. Top.todo = {k} /\ Needs(Top.node)
    <3>1. Top.todo = {k} /\ Node(Top.node).next # {} /\ \A j \in Node(Top.node).next : mutates[j]
      BY <1>3, <1>5 DEF ReadOnly, Mutable
    <3> QED
      BY <1>2, <1>3, <3>1, FanOutNeeds
  <2> QED
    BY <1>2, <1>3, <1>5, <2>1, SameObject
<1> QED
  BY <1>1, <1>4, <1>5

\* A fan-out calls a consumer that only reads.
LEMMA FanOutReadOnlyKeeps ==
  ASSUME FlowInv, FanOutReadOnly
  PROVE  FlowInv'
<1>1. PICK k \in Top.todo :
        LET several == \E j \in ReadOnly(Top.node) : j # k
        IN Call(Called(k), k, MarkReadOnly(data, Top.obj, several), Top.obj, Top.path)
  BY ZenonT(30) DEF FanOutReadOnly
<1>2. /\ stack # <<>> /\ Node(Top.node).kind = "fanout" /\ UNCHANGED <<config, mutates, kept>>
      /\ Pending(Top) /\ Top.todo \intersect Mutable(Top.node) = {}
  BY <1>1 DEF FanOutReadOnly, Pending
<1>3. /\ FlowTypeOK /\ Top.obj \in DOMAIN data
      /\ Top.node \in DOMAIN config.nodes /\ Top.todo \subseteq Node(Top.node).next
      /\ Top.path = data[Top.obj].changes \ {Reset} /\ Top.path \in SUBSET Nat
  BY <1>2, TopIsCall, TopPath DEF FlowInv, FlowTypeOK
<1>4. PICK b \in BOOLEAN : b = (\E j \in ReadOnly(Top.node) : j # k)
  BY ZenonT(30)
<1>5. PICK d : d = MarkReadOnly(data, Top.obj, b)
  OBVIOUS
<1>6. Call(Called(k), k, d, Top.obj, Top.path)
  BY <1>1, <1>4, <1>5, ZenonT(30)
<1>7. /\ d \in Seq(Objects) /\ DOMAIN d = DOMAIN data
      /\ \A p \in DOMAIN data : d[p].changes = data[p].changes /\ (p # Top.obj => d[p].readOnly = data[p].readOnly)
  BY <1>3, <1>5, Marked
<1>8. ~mutates[k] /\ k \in Node(Top.node).next
  BY <1>2, <1>3 DEF Mutable
<1>9. ~Needs(Entry(k)) /\ ~Needs(Top.node)
  BY <1>2, <1>3, <1>8, ConsumerNeeds, FanOutNeeds
<1> QED
  BY <1>2, <1>3, <1>6, <1>7, <1>9, SameObject

\* A processor or a connector works on the data and passes it on.
LEMMA ProcessKeeps ==
  ASSUME FlowInv, Process
  PROVE  FlowInv'
<1>1. PICK k \in Top.todo :
        Call(Called(k), k, Write(data, Top.obj, Top.node), Top.obj,
             Top.path \union {n \in {Top.node} : Node(n).mutates})
  BY ZenonT(30) DEF Process
<1>2. /\ stack # <<>> /\ Node(Top.node).kind \in {"processor", "connector"}
      /\ UNCHANGED <<config, mutates, kept>> /\ Pending(Top)
  BY <1>1 DEF Process, Pending
<1>3. /\ FlowTypeOK /\ Top.obj \in DOMAIN data
      /\ Top.node \in DOMAIN config.nodes /\ Top.node \in Nat \ {0} /\ Top.todo \subseteq Node(Top.node).next
      /\ Top.path = data[Top.obj].changes \ {Reset} /\ Top.path \in SUBSET Nat
  BY <1>2, TopIsCall, TopPath DEF FlowInv
<1>4. PICK d : d = Write(data, Top.obj, Top.node)
  OBVIOUS
<1>0. PICK path : path = Top.path \union {n \in {Top.node} : Node(n).mutates}
  BY ZenonT(30)
<1>5. Call(Called(k), k, d, Top.obj, path)
  BY <1>0, <1>1, <1>4
<1>6. /\ d \in Seq(Objects) /\ DOMAIN d = DOMAIN data
      /\ \A p \in DOMAIN data :
           /\ d[p].readOnly = data[p].readOnly
           /\ p # Top.obj => d[p].changes = data[p].changes
      /\ d[Top.obj].changes = data[Top.obj].changes \/ Node(Top.node).mutates
      /\ d[Top.obj].changes = data[Top.obj].changes \union {n \in {Top.node} : Node(n).mutates}
  BY <1>3, <1>4, Written
<1>7. path = d[Top.obj].changes \ {Reset} /\ path \in SUBSET Nat
  BY <1>0, <1>3, <1>6 DEF Reset
<1>8. Top.todo = {k} /\ Entry(k) = k /\ (Needs(Entry(k)) => Needs(Top.node))
  BY <1>2, <1>3, PassedOn
<1>9. Needs(Top.node) \/ d[Top.obj].changes = data[Top.obj].changes
  BY <1>2, <1>3, <1>6, NeedsItself
<1>10. /\ d \in Seq(Objects) /\ DOMAIN d = DOMAIN data
       /\ d[Top.obj].readOnly = data[Top.obj].readOnly
       /\ path = d[Top.obj].changes \ {Reset} /\ path \in SUBSET Nat
       /\ \A p \in DOMAIN data :
            /\ d[p].readOnly = data[p].readOnly
            /\ p # Top.obj => d[p].changes = data[p].changes
  BY <1>3, <1>6, <1>7
<1> HIDE <1>0, <1>1, <1>4
<1> QED
  BY <1>2, <1>5, <1>8, <1>9, <1>10, SameObject

\* A call returns; its object may be changed by the call's component, or kept.
LEMMA PopKeeps ==
  ASSUME FlowInv, stack # <<>>, UNCHANGED <<config, mutates>>,
         NEW d \in Seq(Objects), DOMAIN d = DOMAIN data, Pop(d),
         \A p \in DOMAIN data :
           /\ d[p].readOnly = data[p].readOnly
           /\ p # Top.obj \/ kept' # kept => d[p].changes = data[p].changes,
         d[Top.obj].changes = data[Top.obj].changes \/ (Pending(Top) /\ Needs(Top.node)),
         \/ kept' = kept
         \/ /\ Node(Top.node).kind = "exporter"
            /\ \E r \in Nat :
                 kept' = kept \union {[by |-> Top.node, obj |-> Top.obj, path |-> Top.path, ref |-> r]}
  PROVE  FlowInv'
<1>0. PICK L \in Nat \ {0} : L = Len(stack) /\ DOMAIN stack = 1..L /\ L \in DOMAIN stack
  BY TopIsCall, ZenonT(30) DEF FlowInv
<1>1. /\ Top = stack[L] /\ Top.obj \in DOMAIN data /\ Top \in Frames /\ FlowTypeOK
      /\ Top.node \in DOMAIN config.nodes /\ Top.node \in Nat
  BY <1>0, TopIsCall DEF FlowInv
<1>2. /\ DOMAIN stack' = 1..(L - 1) /\ Len(stack') = L - 1 /\ stack' \in Seq(Frames)
      /\ \A i \in 1..(L - 1) : stack'[i] = stack[i]
      /\ data' \in Seq(Objects) /\ DOMAIN data' = DOMAIN data
      /\ \A p \in DOMAIN data :
           /\ data'[p].readOnly = d[p].readOnly
           /\ data'[p].changes \ {Reset} = d[p].changes \ {Reset}
  <2>1. /\ DOMAIN stack' = 1..(L - 1) /\ Len(stack') = L - 1 /\ stack' \in Seq(Frames)
        /\ \A i \in 1..(L - 1) : stack'[i] = stack[i]
        /\ data' \in Seq(Objects) /\ DOMAIN data' = DOMAIN data
        /\ \A p \in DOMAIN data :
             /\ data'[p].readOnly = d[p].readOnly
             /\ data'[p].changes = d[p].changes \/ data'[p].changes = d[p].changes \union {Reset}
    BY <1>0, PopEffect, ZenonT(30) DEF FlowInv
  <2> QED
    BY <2>1
<1>3. \A i \in DOMAIN stack' : i \in DOMAIN stack /\ i # L /\ stack'[i] = stack[i]
  BY <1>0, <1>2
<1>4. \A h \in kept' :
        \/ h \in kept
        \/ /\ h.by = Top.node /\ h.obj = Top.obj /\ h.path = Top.path
           /\ Node(Top.node).kind = "exporter" /\ kept' # kept
  OBVIOUS
<1>5. \A h \in kept' \ kept : Pending(Top) /\ (Node(h.by).mutates => Needs(Top.node))
  BY <1>1, <1>4, NeedsItself DEF Pending
<1>6. FlowTypeOK'
  <2>1. kept' \subseteq [by : Nat, obj : Nat, path : SUBSET Nat, ref : Nat]
    <3>1. Top.obj \in Nat /\ Top.path \in SUBSET Nat
      BY <1>1 DEF Frames
    <3> QED
      BY <1>1, <3>1 DEF FlowTypeOK
  <2> QED
    BY <1>1, <1>2, <2>1 DEF FlowTypeOK
<1>7. CallsInOrder'
  <2>1. \A i \in DOMAIN stack' :
          /\ stack'[i].node \in DOMAIN config.nodes /\ stack'[i].obj \in DOMAIN data
          /\ stack'[i].todo \subseteq Node(stack'[i].node).next
          /\ Node(stack'[i].node).kind # "capabilities" /\ Node(stack'[i].node).kind # "exporter"
    BY <1>0, <1>3 DEF FlowInv, CallsInOrder
  <2>2. \A h \in kept' : h.by \in DOMAIN config.nodes /\ h.obj \in DOMAIN data /\ Node(h.by).kind = "exporter"
    BY <1>1, <1>4 DEF FlowInv, CallsInOrder
  <2> QED
    BY ZenonT(30), <1>2, <2>1, <2>2 DEF CallsInOrder, Node
<1>8. ASSUME NEW i \in DOMAIN stack', Pending(stack'[i])
      PROVE  /\ Needs(stack'[i].node) =>
                  /\ ~data'[stack'[i].obj].readOnly
                  /\ \A h \in kept' : h.obj # stack'[i].obj
                  /\ \A j \in DOMAIN stack' : j # i /\ Pending(stack'[j]) => stack'[j].obj # stack'[i].obj
             /\ data'[stack'[i].obj].changes \ {Reset} = stack'[i].path
  <2>1. i \in DOMAIN stack /\ i # L /\ stack'[i] = stack[i] /\ Pending(stack[i]) /\ stack[i].obj \in DOMAIN data
    BY <1>3, <1>8 DEF FlowInv, CallsInOrder
  <2>2. Pending(Top) /\ (Needs(Top.node) \/ Needs(stack[i].node)) => stack[i].obj # Top.obj
    <3>1. Pending(stack[L]) /\ Needs(stack[L].node) => stack[i].obj # stack[L].obj
      BY <1>0, <2>1 DEF FlowInv, Alone
    <3>2. Pending(stack[L]) /\ Needs(stack[i].node) => stack[i].obj # stack[L].obj
      BY <1>0, <2>1 DEF FlowInv, Alone
    <3> QED
      BY <1>1, <3>1, <3>2
  <2>3. data[stack[i].obj].changes \ {Reset} = stack[i].path
    BY <2>1 DEF FlowInv, Changes
  <2>4. d[stack[i].obj].changes = data[stack[i].obj].changes
    BY <2>1, <2>2
  <2>5. ASSUME Needs(stack[i].node)
        PROVE  /\ ~data[stack[i].obj].readOnly
               /\ \A h \in kept' : h.obj # stack[i].obj
               /\ \A j \in DOMAIN stack' : j # i /\ Pending(stack'[j]) => stack'[j].obj # stack[i].obj
    <3>1. /\ ~data[stack[i].obj].readOnly
          /\ \A h \in kept : h.obj # stack[i].obj
          /\ \A j \in DOMAIN stack : j # i /\ Pending(stack[j]) => stack[j].obj # stack[i].obj
      BY <2>1, <2>5 DEF FlowInv, Alone
    <3>2. \A h \in kept' \ kept : h.obj # stack[i].obj
      BY <1>4, <1>5, <2>2, <2>5
    <3> QED
      BY <1>3, <3>1, <3>2
  <2> QED
    BY ZenonT(30), <1>2, <2>1, <2>3, <2>4, <2>5
<1>9. ASSUME NEW h \in kept'
      PROVE  /\ Node(h.by).mutates =>
                  /\ ~data'[h.obj].readOnly
                  /\ \A g \in kept' : g # h => g.obj # h.obj
                  /\ \A j \in DOMAIN stack' : Pending(stack'[j]) => stack'[j].obj # h.obj
             /\ data'[h.obj].changes \ {h.by, Reset} = h.path \ {h.by}
  <2>1. CASE h \in kept
    <3>1. h.obj \in DOMAIN data /\ data[h.obj].changes \ {h.by, Reset} = h.path \ {h.by}
      BY <2>1 DEF FlowInv, CallsInOrder, Changes
    <3>2. Pending(Top) /\ (Needs(Top.node) \/ Node(h.by).mutates) => h.obj # Top.obj
      <4>1. Pending(stack[L]) /\ Needs(stack[L].node) => h.obj # stack[L].obj
        BY <1>0, <2>1 DEF FlowInv, Alone
      <4>2. Pending(stack[L]) /\ Node(h.by).mutates => h.obj # stack[L].obj
        BY <1>0, <2>1 DEF FlowInv, Alone
      <4> QED
        BY <1>1, <4>1, <4>2
    <3>3. d[h.obj].changes = data[h.obj].changes
      BY <3>1, <3>2
    <3>4. data'[h.obj].changes \ {h.by, Reset} = h.path \ {h.by}
      BY <1>2, <3>1, <3>3
    <3>5. ASSUME Node(h.by).mutates
          PROVE  /\ ~data[h.obj].readOnly
                 /\ \A g \in kept' : g # h => g.obj # h.obj
                 /\ \A j \in DOMAIN stack' : Pending(stack'[j]) => stack'[j].obj # h.obj
      <4>1. /\ ~data[h.obj].readOnly
            /\ \A g \in kept : g # h => g.obj # h.obj
            /\ \A j \in DOMAIN stack : Pending(stack[j]) => stack[j].obj # h.obj
        BY ZenonT(30), <2>1, <3>5 DEF FlowInv, Alone
      <4>2. \A g \in kept' \ kept : g.obj # h.obj
        BY <1>4, <1>5, <3>2, <3>5
      <4> QED
        BY ZenonT(30), <1>3, <4>1, <4>2
    <3> QED
      BY ZenonT(30), <1>2, <3>1, <3>4, <3>5
  <2>2. CASE h \notin kept
    <3>1. /\ h.by = Top.node /\ h.obj = Top.obj /\ h.path = Top.path /\ Pending(Top)
          /\ Node(h.by).mutates => Needs(Top.node)
          /\ kept' # kept
      BY <1>4, <1>5, <2>2
    <3>2. data[Top.obj].changes \ {Reset} = Top.path
      BY <3>1, TopPath
    <3>3. d[Top.obj].changes = data[Top.obj].changes
      BY ZenonT(30), <1>1, <3>1
    <3>4. data'[h.obj].changes \ {h.by, Reset} = h.path \ {h.by}
      BY <1>1, <1>2, <3>1, <3>2, <3>3
    <3>5. ASSUME Node(h.by).mutates
          PROVE  /\ ~data[Top.obj].readOnly
                 /\ \A g \in kept : g.obj # Top.obj
                 /\ \A j \in DOMAIN stack' : Pending(stack'[j]) => stack'[j].obj # Top.obj
      <4>1. Needs(Top.node)
        BY <3>1, <3>5
      <4>2. /\ ~data[stack[L].obj].readOnly
            /\ \A g \in kept : g.obj # stack[L].obj
            /\ \A j \in DOMAIN stack : j # L /\ Pending(stack[j]) => stack[j].obj # stack[L].obj
        BY <1>0, <1>1, <3>1, <4>1 DEF FlowInv, Alone
      <4> QED
        BY <1>1, <1>3, <4>2
    <3>6. \A g \in kept' : g \in kept \/ g = h
      BY <2>2
    <3> QED
      BY ZenonT(30), <1>1, <1>2, <3>1, <3>4, <3>5, <3>6
  <2> QED
    BY <2>1, <2>2
<1>10. Alone' /\ Changes'
  BY <1>8, <1>9, GraphStays
<1> QED
  BY <1>6, <1>7, <1>10 DEF FlowInv

\* A reference to an object is taken.
LEMMA Referred ==
  ASSUME FlowTypeOK, NEW o \in DOMAIN data, NEW d, d = Ref(data, o)
  PROVE  /\ d \in Seq(Objects) /\ DOMAIN d = DOMAIN data
         /\ \A p \in DOMAIN data :
              /\ d[p].readOnly = data[p].readOnly /\ d[p].owned = data[p].owned
              /\ d[p].changes = data[p].changes
              /\ p # o => d[p].refs = data[p].refs /\ d[p].taken = data[p].taken
         /\ d[o].refs = data[o].refs + 1 /\ d[o].taken = data[o].taken + 1
<1> DEFINE x == [data[o] EXCEPT !.refs = @ + 1, !.taken = @ + 1]
<1>1. data \in Seq(Objects) /\ data[o] \in Objects
  BY DEF FlowTypeOK
<1>2. d = [data EXCEPT ![o] = x]
  BY ZenonT(30) DEF Ref
<1>0. data[o].refs + 1 \in Int /\ data[o].taken + 1 \in Nat
  BY <1>1 DEF Objects
<1>3. /\ x \in Objects /\ x.readOnly = data[o].readOnly /\ x.owned = data[o].owned
      /\ x.refs = data[o].refs + 1 /\ x.taken = data[o].taken + 1 /\ x.changes = data[o].changes
  BY <1>0, <1>1, ZenonT(30) DEF Objects
<1> HIDE DEF x
<1>4. d \in Seq(Objects) /\ DOMAIN d = DOMAIN data /\ d[o] = x /\ \A p \in DOMAIN data : p # o => d[p] = data[p]
  BY <1>1, <1>2, <1>3
<1> QED
  BY <1>3, <1>4

\* A reference to an object is dropped.
LEMMA Unreffed ==
  ASSUME FlowTypeOK, NEW o \in DOMAIN data, NEW d, d = Unref(data, o)
  PROVE  /\ d \in Seq(Objects) /\ DOMAIN d = DOMAIN data
         /\ \A p \in DOMAIN data :
              /\ d[p].readOnly = data[p].readOnly /\ d[p].owned = data[p].owned
              /\ d[p].taken = data[p].taken
              /\ p # o => d[p].refs = data[p].refs /\ d[p].changes = data[p].changes
              /\ \/ d[p].changes = data[p].changes
                 \/ data[p].refs = 1 /\ config.pooling /\ d[p].changes = data[p].changes \union {Reset}
         /\ d[o].refs = data[o].refs - 1
<1> DEFINE c == IF data[o].refs = 1 /\ config.pooling THEN data[o].changes \union {Reset} ELSE data[o].changes
           x == [data[o] EXCEPT !.refs = @ - 1, !.changes = c]
<1>1. data \in Seq(Objects) /\ data[o] \in Objects
  BY DEF FlowTypeOK
<1>2. c \in SUBSET Nat
  BY <1>1 DEF Objects, Reset
<1>3. \/ c = data[o].changes
      \/ data[o].refs = 1 /\ config.pooling /\ c = data[o].changes \union {Reset}
  OBVIOUS
<1>4. d = [data EXCEPT ![o] = x]
  BY ZenonT(30) DEF Unref
<1> HIDE DEF c
<1>0. data[o].refs - 1 \in Int
  BY <1>1 DEF Objects
<1>5. /\ x \in Objects /\ x.readOnly = data[o].readOnly /\ x.owned = data[o].owned
      /\ x.refs = data[o].refs - 1 /\ x.taken = data[o].taken /\ x.changes = c
  BY <1>0, <1>1, <1>2, ZenonT(30) DEF Objects
<1> HIDE DEF x
<1>6. d \in Seq(Objects) /\ DOMAIN d = DOMAIN data /\ d[o] = x /\ \A p \in DOMAIN data : p # o => d[p] = data[p]
  BY <1>1, <1>4, <1>5
<1> QED
  BY <1>3, <1>5, <1>6

\* A processor drops the data: its call will call nobody any more.
LEMMA DropEffect ==
  ASSUME FlowTypeOK, CallsInOrder, Drop
  PROVE  /\ Len(stack') = Len(stack) /\ DOMAIN stack' = DOMAIN stack /\ stack' \in Seq(Frames)
         /\ \A i \in DOMAIN stack :
              /\ stack'[i].node = stack[i].node /\ stack'[i].obj = stack[i].obj
              /\ stack'[i].path = stack[i].path /\ stack'[i].unref = stack[i].unref
              /\ stack'[i].todo \subseteq stack[i].todo
<1> DEFINE f == [Top EXCEPT !.todo = {}]
<1>1. PICK L \in Nat \ {0} : L = Len(stack) /\ DOMAIN stack = 1..L /\ L \in DOMAIN stack
  BY TopIsCall DEF Drop
<1>2. Top \in Frames /\ stack \in Seq(Frames) /\ Top = stack[L]
  BY <1>1, TopIsCall DEF Drop, FlowTypeOK
<1>3. stack' = [stack EXCEPT ![L] = f]
  BY <1>1, <1>2 DEF Drop
<1>4. f \in Frames /\ f.node = Top.node /\ f.obj = Top.obj /\ f.path = Top.path /\ f.unref = Top.unref /\ f.todo = {}
  BY <1>2 DEF Frames
<1> HIDE DEF f
<1>5. /\ stack' \in Seq(Frames) /\ Len(stack') = Len(stack) /\ DOMAIN stack' = DOMAIN stack
      /\ stack'[L] = f /\ \A i \in DOMAIN stack : i # L => stack'[i] = stack[i]
  BY <1>1, <1>2, <1>3, <1>4
<1> QED
  BY <1>2, <1>4, <1>5

\* A step after which no more is in use, and what is shows the same changes.
LEMMA NoNewUse ==
  ASSUME FlowInv, UNCHANGED <<config, mutates>>, FlowTypeOK', CallsInOrder',
         DOMAIN stack' \subseteq DOMAIN stack, kept' \subseteq kept,
         \A i \in DOMAIN stack' : Pending(stack'[i]) =>
           /\ Pending(stack[i])
           /\ stack'[i].node = stack[i].node /\ stack'[i].obj = stack[i].obj /\ stack'[i].path = stack[i].path
           /\ data'[stack[i].obj].changes \ {Reset} = data[stack[i].obj].changes \ {Reset},
         \A h \in kept' : data'[h.obj].changes \ {h.by, Reset} = data[h.obj].changes \ {h.by, Reset},
         \A p \in DOMAIN data : data'[p].readOnly = data[p].readOnly
  PROVE  FlowInv'
<1>1. ASSUME NEW i \in DOMAIN stack', Pending(stack'[i])
      PROVE  /\ Needs(stack'[i].node) =>
                  /\ ~data'[stack'[i].obj].readOnly
                  /\ \A h \in kept' : h.obj # stack'[i].obj
                  /\ \A j \in DOMAIN stack' : j # i /\ Pending(stack'[j]) => stack'[j].obj # stack'[i].obj
             /\ data'[stack'[i].obj].changes \ {Reset} = stack'[i].path
  <2>1. /\ i \in DOMAIN stack /\ Pending(stack[i]) /\ stack[i].obj \in DOMAIN data
        /\ data[stack[i].obj].changes \ {Reset} = stack[i].path
    BY <1>1 DEF FlowInv, CallsInOrder, Changes
  <2>2. Needs(stack[i].node) =>
          /\ ~data[stack[i].obj].readOnly
          /\ \A h \in kept : h.obj # stack[i].obj
          /\ \A j \in DOMAIN stack : j # i /\ Pending(stack[j]) => stack[j].obj # stack[i].obj
    BY <2>1 DEF FlowInv, Alone
  <2> QED
    BY <1>1, <2>1, <2>2
<1>2. ASSUME NEW h \in kept'
      PROVE  /\ Node(h.by).mutates =>
                  /\ ~data'[h.obj].readOnly
                  /\ \A g \in kept' : g # h => g.obj # h.obj
                  /\ \A j \in DOMAIN stack' : Pending(stack'[j]) => stack'[j].obj # h.obj
             /\ data'[h.obj].changes \ {h.by, Reset} = h.path \ {h.by}
  <2>1. /\ h \in kept /\ h.obj \in DOMAIN data
        /\ data[h.obj].changes \ {h.by, Reset} = h.path \ {h.by}
    BY <1>2 DEF FlowInv, CallsInOrder, Changes
  <2>2. Node(h.by).mutates =>
          /\ ~data[h.obj].readOnly
          /\ \A g \in kept : g # h => g.obj # h.obj
          /\ \A j \in DOMAIN stack : Pending(stack[j]) => stack[j].obj # h.obj
    BY <2>1 DEF FlowInv, Alone
  <2> QED
    BY <2>1, <2>2
<1>3. Alone' /\ Changes'
  BY <1>1, <1>2, GraphStays
<1> QED
  BY <1>3 DEF FlowInv

\* A processor drops the data.
LEMMA DropKeeps ==
  ASSUME FlowInv, Drop
  PROVE  FlowInv'
<1>1. /\ Len(stack') = Len(stack) /\ DOMAIN stack' = DOMAIN stack /\ stack' \in Seq(Frames)
      /\ \A i \in DOMAIN stack :
           /\ stack'[i].node = stack[i].node /\ stack'[i].obj = stack[i].obj
           /\ stack'[i].path = stack[i].path /\ stack'[i].todo \subseteq stack[i].todo
  BY DropEffect DEF FlowInv
<1>2. UNCHANGED <<config, mutates, data, kept>>
  BY DEF Drop
<1>3. \A i \in DOMAIN stack : Pending(stack'[i]) => Pending(stack[i])
  BY <1>1 DEF Pending
<1>4. FlowTypeOK'
  BY ZenonT(30), <1>1, <1>2 DEF FlowInv, FlowTypeOK
<1>5. CallsInOrder'
  <2>1. \A i \in DOMAIN stack :
          /\ stack'[i].node \in DOMAIN config.nodes /\ stack'[i].obj \in DOMAIN data
          /\ stack'[i].todo \subseteq Node(stack'[i].node).next
          /\ Node(stack'[i].node).kind # "capabilities"
          /\ Node(stack'[i].node).kind = "exporter" => i = Len(stack)
    BY <1>1 DEF FlowInv, CallsInOrder
  <2> QED
    BY <1>1, <1>2, <2>1 DEF FlowInv, CallsInOrder, Node
<1> QED
  BY <1>1, <1>2, <1>3, <1>4, <1>5, NoNewUse

\* What was kept is changed by its only user.
LEMMA ModifyKeeps ==
  ASSUME FlowInv, NEW h \in kept, Modify(h)
  PROVE  FlowInv'
<1>1. FlowTypeOK /\ h.obj \in DOMAIN data /\ h.by \in DOMAIN config.nodes
  BY DEF FlowInv, CallsInOrder
<1>2. Node(h.by).mutates /\ UNCHANGED <<config, mutates, stack, kept>>
  BY DEF Modify
<1>3. /\ data' \in Seq(Objects) /\ DOMAIN data' = DOMAIN data
      /\ \A p \in DOMAIN data :
           /\ data'[p].readOnly = data[p].readOnly
           /\ p # h.obj => data'[p].changes = data[p].changes
      /\ data'[h.obj].changes = data[h.obj].changes \union {n \in {h.by} : Node(n).mutates}
  BY <1>1, Written DEF Modify
<1>4. /\ \A i \in DOMAIN stack : Pending(stack[i]) => stack[i].obj # h.obj
      /\ \A g \in kept : g # h => g.obj # h.obj
  BY <1>2 DEF FlowInv, Alone
<1>5. data'[h.obj].changes \ {h.by, Reset} = data[h.obj].changes \ {h.by, Reset}
  BY <1>3
<1>6. FlowTypeOK' /\ CallsInOrder'
  BY <1>2, <1>3 DEF FlowInv, FlowTypeOK, CallsInOrder, Node
<1>7. \A g \in kept' : data'[g.obj].changes \ {g.by, Reset} = data[g.obj].changes \ {g.by, Reset}
  BY <1>2, <1>3, <1>4, <1>5 DEF FlowInv, CallsInOrder
<1>8. \A i \in DOMAIN stack' : Pending(stack'[i]) =>
        /\ Pending(stack[i]) /\ stack'[i] = stack[i]
        /\ data'[stack[i].obj].changes \ {Reset} = data[stack[i].obj].changes \ {Reset}
  BY ZenonT(30), <1>2, <1>3, <1>4 DEF FlowInv, CallsInOrder
<1> QED
  BY <1>2, <1>3, <1>6, <1>7, <1>8, NoNewUse

\* What was kept is released.
LEMMA ReleaseKeeps ==
  ASSUME FlowInv, NEW h \in kept, Release(h)
  PROVE  FlowInv'
<1>1. FlowTypeOK /\ h.obj \in DOMAIN data
  BY DEF FlowInv, CallsInOrder
<1>2. UNCHANGED <<config, mutates, stack>> /\ kept' \subseteq kept
  BY DEF Release
<1>3. /\ data' \in Seq(Objects) /\ DOMAIN data' = DOMAIN data
      /\ \A p \in DOMAIN data :
           /\ data'[p].readOnly = data[p].readOnly
           /\ data'[p].changes = data[p].changes \/ data'[p].changes = data[p].changes \union {Reset}
  BY <1>1, Unreffed DEF Release
<1>4. FlowTypeOK' /\ CallsInOrder'
  <2>1. FlowTypeOK'
    BY <1>2, <1>3 DEF FlowInv, FlowTypeOK
  <2>2. CallsInOrder'
    BY <1>2, <1>3 DEF FlowInv, CallsInOrder, Node
  <2> QED
    BY <2>1, <2>2
<1>5. \A g \in kept' : data'[g.obj].changes \ {g.by, Reset} = data[g.obj].changes \ {g.by, Reset}
  <2>1. \A g \in kept' : g.obj \in DOMAIN data
    BY <1>2 DEF FlowInv, CallsInOrder
  <2> QED
    BY <1>3, <2>1
<1>6. \A i \in DOMAIN stack' : Pending(stack'[i]) =>
        /\ Pending(stack[i]) /\ stack'[i] = stack[i]
        /\ data'[stack[i].obj].changes \ {Reset} = data[stack[i].obj].changes \ {Reset}
  BY <1>2, <1>3 DEF FlowInv, CallsInOrder
<1> QED
  BY <1>2, <1>3, <1>4, <1>5, <1>6, NoNewUse

\* An exporter uses the data and returns.
LEMMA ExportKeeps ==
  ASSUME FlowInv, Export
  PROVE  FlowInv'
<1>1. /\ stack # <<>> /\ Node(Top.node).kind = "exporter"
      /\ UNCHANGED <<config, mutates, kept>> /\ Pending(Top)
  BY DEF Export, Pending
<1>2. /\ FlowTypeOK /\ Top.obj \in DOMAIN data /\ Top.node \in DOMAIN config.nodes
      /\ data \in Seq(Objects)
  BY <1>1, TopIsCall DEF FlowInv, FlowTypeOK
<1>3. CASE Node(Top.node).keeps
  <2>1. Pop(data)
    BY <1>3 DEF Export
  <2> QED
    BY <1>1, <1>2, <2>1, PopKeeps
<1>4. CASE ~Node(Top.node).keeps
  <2>1. PICK d : d = Write(data, Top.obj, Top.node)
    OBVIOUS
  <2>2. Pop(d)
    BY <1>4, <2>1 DEF Export
  <2>3. /\ d \in Seq(Objects) /\ DOMAIN d = DOMAIN data
        /\ \A p \in DOMAIN data :
             /\ d[p].readOnly = data[p].readOnly
             /\ p # Top.obj => d[p].changes = data[p].changes
        /\ d[Top.obj].changes = data[Top.obj].changes \/ Node(Top.node).mutates
    BY <1>2, <2>1, Written
  <2>4. d[Top.obj].changes = data[Top.obj].changes \/ Needs(Top.node)
    BY <1>1, <1>2, <2>3, NeedsItself
  <2> HIDE <2>1
  <2> QED
    BY <1>1, <2>2, <2>3, <2>4, PopKeeps
<1> QED
  BY <1>3, <1>4

\* A memory queue takes a reference and keeps the data.
LEMMA KeepKeeps ==
  ASSUME FlowInv, Keep
  PROVE  FlowInv'
<1>1. /\ stack # <<>> /\ Node(Top.node).kind = "exporter" /\ UNCHANGED <<config, mutates>>
      /\ kept' = kept \union {Kept}
  BY DEF Keep
<1>0. FlowTypeOK /\ Top.obj \in DOMAIN data /\ data[Top.obj] \in Objects
  BY <1>1, TopIsCall DEF FlowInv, FlowTypeOK
<1>2. FlowTypeOK /\ Top.obj \in DOMAIN data /\ data[Top.obj].taken \in Nat
  BY <1>0 DEF Objects
<1>3. \E r \in Nat : kept' = kept \union {[by |-> Top.node, obj |-> Top.obj, path |-> Top.path, ref |-> r]}
  BY <1>1, <1>2 DEF Kept
<1>4. PICK d : d = Ref(data, Top.obj)
  OBVIOUS
<1>5. Pop(d)
  BY <1>4 DEF Keep
<1>6. /\ d \in Seq(Objects) /\ DOMAIN d = DOMAIN data
      /\ \A p \in DOMAIN data : d[p].readOnly = data[p].readOnly /\ d[p].changes = data[p].changes
  BY <1>2, <1>4, Referred
<1> HIDE <1>4
<1> QED
  BY <1>1, <1>2, <1>3, <1>5, <1>6, PopKeeps

\* A fan-out, a processor or a connector returns.
LEMMA ReturnKeeps ==
  ASSUME FlowInv, Return
  PROVE  FlowInv'
<1>1. stack # <<>> /\ UNCHANGED <<config, mutates, kept>> /\ Pop(data) /\ data \in Seq(Objects)
  BY DEF Return, FlowInv, FlowTypeOK
<1> QED
  BY <1>1, PopKeeps

\* A new object is received.
LEMMA ReceiveKeeps ==
  ASSUME FlowInv, Receive
  PROVE  FlowInv'
<1> DEFINE f == [node |-> 1, obj |-> 1, path |-> {}, todo |-> Node(1).next, unref |-> FALSE]
           x == New({})
<1>1. 1 \in DOMAIN config.nodes /\ Node(1) \in Nodes /\ Node(1).kind = "fanout"
  BY GraphIsBuilt DEF FlowInv, Node
<1>2. f \in Frames /\ f.node = 1 /\ f.obj = 1 /\ f.path = {} /\ f.todo = Node(1).next
  BY <1>1 DEF Frames, Nodes
<1>3. x \in Objects /\ x.readOnly = FALSE /\ x.changes = {}
  BY DEF Objects, New
<1>4. stack' = <<f>> /\ data' = <<x>> /\ kept' = {} /\ kept = {} /\ UNCHANGED <<config, mutates>>
  BY DEF Receive
<1> HIDE DEF f, x
<1>5. /\ stack' \in Seq(Frames) /\ Len(stack') = 1 /\ DOMAIN stack' = {1} /\ stack'[1] = f
      /\ data' \in Seq(Objects) /\ DOMAIN data' = {1} /\ data'[1] = x
  BY <1>2, <1>3, <1>4
<1>6. FlowTypeOK'
  BY <1>4, <1>5 DEF FlowInv, FlowTypeOK
<1>7. CallsInOrder'
  <2>1. Node(1)' = Node(1)
    BY <1>4 DEF Node
  <2> QED
    BY <1>1, <1>2, <1>4, <1>5, <2>1 DEF CallsInOrder
<1>8. Alone' /\ Changes'
  BY <1>2, <1>3, <1>4, <1>5, GraphStays
<1> QED
  BY <1>6, <1>7, <1>8 DEF FlowInv

\* Nothing is in flight in the initial states.
LEMMA FlowInitHolds == FlowInit => FlowInv
BY DEF FlowInit, FlowInv, FlowTypeOK, CallsInOrder, Alone, Changes

\* No step of the data flow breaks the invariant.
LEMMA FlowKeeps ==
  ASSUME FlowInv, [FlowNext]_flowVars
  PROVE  FlowInv'
<1>1. CASE UNCHANGED flowVars
  <2>1. FlowTypeOK' /\ CallsInOrder'
    BY <1>1, ZenonT(30) DEF flowVars, FlowInv, FlowTypeOK, CallsInOrder, Node
  <2>2. config' = config /\ mutates' = mutates /\ stack' = stack /\ data' = data /\ kept' = kept
    BY <1>1 DEF flowVars
  <2> QED
    BY <2>1, <2>2, NoNewUse
<1> QED
  BY <1>1, ReceiveKeeps, FanOutMutableKeeps, FanOutReadOnlyKeeps, ProcessKeeps, DropKeeps, ExportKeeps,
     KeepKeeps, ReturnKeeps, ModifyKeeps, ReleaseKeeps DEF FlowNext

\* The component about to work on the data is a pending call.
LEMMA UserIsPending ==
  ASSUME FlowInv, stack # <<>>, Node(Top.node).kind # "fanout", Node(Top.node).next # {} => Top.todo # {}
  PROVE  Pending(Top) /\ (Node(Top.node).mutates => Needs(Top.node))
<1>1. /\ FlowTypeOK /\ Top.node \in DOMAIN config.nodes /\ Node(Top.node) \in Nodes
      /\ Node(Top.node).kind # "capabilities"
  BY TopIsCall DEF FlowInv
<1>2. Node(Top.node).kind \in {"processor", "connector", "exporter"}
  BY <1>1 DEF Nodes, Kinds
<1>3. Node(Top.node).kind \in {"processor", "connector"} => Node(Top.node).next # {}
  <2>1. Linked(config.nodes, Top.node)
    BY <1>1, GraphIsBuilt
  <2> QED
    BY <2>1 DEF Linked, Node
<1> QED
  BY <1>1, <1>2, <1>3, NeedsItself DEF Pending

\* A use of data is kept data, or the work of the innermost call.
LEMMA UseIsCallOrKept ==
  ASSUME NEW u \in Uses, u \notin kept
  PROVE  stack # <<>> /\ u = [by |-> Top.node, obj |-> Top.obj, path |-> Top.path]
BY DEF Uses

\* The invariant keeps writers alone with their data.
LEMMA WriterFollows == FlowInv => WriterIsAlone
<1> SUFFICES ASSUME FlowInv, NEW u \in Uses, Component(u), Node(u.by).mutates
             PROVE  /\ ~data[u.obj].readOnly
                    /\ \A h \in kept : h # u => h.obj # u.obj
                    /\ \A i \in DOMAIN stack :
                         Node(stack[i].node).kind = "fanout" /\ stack[i].obj = u.obj => stack[i].todo = {}
  BY DEF WriterIsAlone
<1>1. CASE u \in kept
  BY <1>1 DEF FlowInv, Alone, Pending
<1>2. CASE u \notin kept
  <2>1. stack # <<>> /\ u.by = Top.node /\ u.obj = Top.obj
    BY <1>2, UseIsCallOrKept
  <2>2. Node(Top.node).kind # "fanout" /\ (Node(Top.node).next # {} => Top.todo # {}) /\ Node(Top.node).mutates
    BY <2>1 DEF Component
  <2>3. Pending(Top) /\ Needs(Top.node)
    BY <2>1, <2>2, UserIsPending
  <2>4. PICK L \in DOMAIN stack : Top = stack[L]
    BY <2>1, TopIsCall DEF FlowInv
  <2>5. /\ ~data[stack[L].obj].readOnly
        /\ \A h \in kept : h.obj # stack[L].obj
        /\ \A j \in DOMAIN stack : j # L /\ Pending(stack[j]) => stack[j].obj # stack[L].obj
    BY <2>3, <2>4 DEF FlowInv, Alone
  <2> QED
    BY <2>1, <2>2, <2>4, <2>5 DEF Pending
<1> QED
  BY <1>1, <1>2

\* The invariant keeps the changes of others out of a component's data.
LEMMA ChangesFollow == FlowInv => OwnChangesOnly
<1> SUFFICES ASSUME FlowInv, NEW u \in Uses, Component(u)
             PROVE  data[u.obj].changes \ {u.by, Reset} = u.path \ {u.by}
  BY DEF OwnChangesOnly
<1>1. CASE u \in kept
  BY <1>1 DEF FlowInv, Changes
<1>2. CASE u \notin kept
  <2>1. stack # <<>> /\ u.by = Top.node /\ u.obj = Top.obj /\ u.path = Top.path
    BY <1>2, UseIsCallOrKept
  <2>2. Pending(Top)
    BY <2>1, UserIsPending DEF Component
  <2>3. data[Top.obj].changes \ {Reset} = Top.path
    BY <2>1, <2>2, TopPath
  <2> QED
    BY <2>1, <2>3
<1> QED
  BY <1>1, <1>2
=============================================================================
