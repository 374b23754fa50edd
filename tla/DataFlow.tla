----------------------------- MODULE DataFlow -----------------------------
(***************************************************************************)
(* What happens to one pdata object (plog.Logs, ptrace.Traces, ...) on its *)
(* way from a receiver to the exporters: who gets the object itself and    *)
(* who a clone, when it is marked read-only, who owns it, and when it is   *)
(* given back to the memory pool.  The parts that have to agree are        *)
(*  - the capabilities buildComponents gives pipelines, fan-outs and       *)
(*    connectors (service/internal/graph);                                 *)
(*  - the fan-out consumer (internal/fanoutconsumer);                      *)
(*  - the ownership wrapper around processors, connectors and exporters    *)
(*    (service/internal/refconsumer) and the counters of pdata;            *)
(*  - consumers that keep the data after their call returned: an exporter  *)
(*    with a memory queue, the batch processor.                            *)
(*                                                                         *)
(* A graph is a sequence of consumer nodes                                 *)
(*   [kind, mutates, keeps, limits, of, next]                              *)
(* whose first node is the fan-out behind the receiver.  "mutates" is the  *)
(* component's own declaration, "keeps" says that it works on the data     *)
(* after its call, "limits" that it is a memory limiter, "of" is the       *)
(* pipeline of a processor or of a fan-out of exporters, "next" are the    *)
(* consumers behind the node.  The calls are one goroutine's stack; what   *)
(* was kept is worked on at any time.                                      *)
(***************************************************************************)
EXTENDS Integers, Sequences

CONSTANTS
  Configs    \* [nodes: a graph, pooling: pdata.useProtoPooling is enabled]

VARIABLES
  config,    \* the member of Configs that is built and runs
  mutates,   \* Capabilities().MutatesData of every node, fixed when built
  stack,     \* the calls in progress, innermost last
  data,      \* the object and its clones: their State and what was done to them
  kept       \* what consumers keep after their call: [by, obj, path, ref]

flowVars == <<config, mutates, stack, data, kept>>

Node(n) == config.nodes[n]

(***************************************************************************)
(* buildComponents: the capabilities.                                      *)
(***************************************************************************)
AggregateCap(g, m, n) == g[n].mutates \/ \E f \in g[n].next : \E k \in g[f].next : m[k]

FanOutCapabilities(g, m, n) == g[n].next # {} /\ \A k \in g[n].next : m[k]

PipelineCapabilitiesExporters(g, m, n) ==
  \E k \in DOMAIN g : g[k].of = n /\ g[k].kind = "fanout" /\ m[k]

PipelineCapabilities(g, m, n) ==
  \E k \in DOMAIN g : /\ g[k].of = n
                      /\ \/ g[k].kind = "fanout" /\ m[k]
                         \/ g[k].kind = "processor" /\ g[k].mutates

Capability(g, m, n) ==
  CASE g[n].kind = "fanout"       -> FanOutCapabilities(g, m, n)
    [] g[n].kind = "capabilities" -> PipelineCapabilities(g, m, n)
    [] g[n].kind = "connector"    -> AggregateCap(g, m, n)
    [] OTHER                      -> g[n].mutates

\* Against the direction of the edges: first the consumers behind a node.
Capabilities(g) == LET m[n \in DOMAIN g] == Capability(g, m, n) IN m

\* The graphs that the configuration leads to: the receiver's fan-out leads to
\* pipelines; a pipeline is a capabilities node, any number of processors and a
\* fan-out; this leads to exporters and connectors, a connector to a fan-out again.
Kinds == {"fanout", "capabilities", "processor", "connector", "exporter"}

Nodes == [kind : Kinds, mutates : BOOLEAN, keeps : BOOLEAN, limits : BOOLEAN,
          of : Nat, next : SUBSET Nat]

Linked(g, n) ==
  /\ g[n].next \subseteq DOMAIN g
  /\ g[n].kind \in {"capabilities", "processor", "connector"} => \E k \in DOMAIN g : g[n].next = {k}
  /\ g[n].kind = "exporter" => g[n].next = {}
  /\ g[n].kind = "processor" => g[n].of \in DOMAIN g /\ g[g[n].of].kind = "capabilities"
  /\ \A k \in g[n].next :
       /\ g[n].kind = "fanout" => g[k].kind \in {"capabilities", "connector", "exporter"}
       /\ g[n].kind = "capabilities" => g[k].kind \in {"processor", "fanout"} /\ g[k].of = n
       /\ g[n].kind = "processor" => g[k].kind \in {"processor", "fanout"} /\ g[k].of = g[n].of
       /\ g[n].kind = "connector" => g[k].kind = "fanout"

WellBuilt(g) ==
  /\ g \in Seq(Nodes) /\ g # <<>>
  /\ g[1].kind = "fanout"
  /\ \A n \in DOMAIN g : Linked(g, n)

\* In a graph without cycles, Capabilities is what its equations say.
ASSUME ConfigsAssumption ==
  \A c \in Configs :
    /\ WellBuilt(c.nodes)
    /\ \A n \in DOMAIN c.nodes :
         Capabilities(c.nodes)[n] = Capability(c.nodes, Capabilities(c.nodes), n)
    /\ c.pooling \in BOOLEAN

Mutable(n) == {k \in Node(n).next : mutates[k]}
ReadOnly(n) == Node(n).next \ Mutable(n)

(***************************************************************************)
(* pdata: the State of an object, clones and the pool.  "changes" are the  *)
(* components whose changes the object shows; "taken" numbers the          *)
(* references that consumers have taken, to tell them apart.               *)
(***************************************************************************)
Reset == 0  \* among the changes: the object was emptied by its deletion

New(changes) == [readOnly |-> FALSE, owned |-> FALSE, refs |-> 1, taken |-> 0, changes |-> changes]

Ref(d, o) == [d EXCEPT ![o].refs = @ + 1, ![o].taken = @ + 1]

\* The last reference deletes the object, if pooling is enabled.
Unref(d, o) ==
  [d EXCEPT ![o].refs = @ - 1,
            ![o].changes = IF d[o].refs = 1 /\ config.pooling THEN @ \union {Reset} ELSE @]

MarkReadOnly(d, o, several) == [d EXCEPT ![o].readOnly = @ \/ several]

Write(d, o, n) == [d EXCEPT ![o].changes = IF Node(n).mutates THEN @ \union {n} ELSE @]

FlowInit ==
  /\ config \in Configs
  /\ mutates = Capabilities(config.nodes)
  /\ stack = <<>>
  /\ data = <<>>
  /\ kept = {}

(***************************************************************************)
(* The calls.  A capabilities node passes the call on; a processor, a      *)
(* connector and an exporter are wrapped by refconsumer, which marks the   *)
(* object as owned and, if it was the first to do so, drops the reference  *)
(* when the call returns.                                                  *)
(***************************************************************************)
Entry(k) == IF Node(k).kind = "capabilities" THEN CHOOSE m \in Node(k).next : TRUE ELSE k

Top == stack[Len(stack)]
Below == SubSeq(stack, 1, Len(stack) - 1)

\* The innermost call, from now on "caller", calls consumer k with object o of d.
Call(caller, k, d, o, path) ==
  LET n == Entry(k)
      first == Node(n).kind # "fanout" /\ ~d[o].owned
  IN /\ stack' = Append([stack EXCEPT ![Len(stack)] = caller],
                       [node |-> n, obj |-> o, path |-> path, todo |-> Node(n).next, unref |-> first])
     /\ data' = [d EXCEPT ![o].owned = @ \/ first]

\* The receiver sends a new object to its fan-out.  Objects do not meet, so that
\* looking at one at a time is enough.
Receive ==
  /\ stack = <<>> /\ kept = {}
  /\ data' = <<New({})>>
  /\ stack' = <<[node |-> 1, obj |-> 1, path |-> {}, todo |-> Node(1).next, unref |-> FALSE]>>
  /\ UNCHANGED <<config, mutates, kept>>

(***************************************************************************)
(* fanoutconsumer.  The mutating consumers come first, all of them with a  *)
(* clone, but for the last one if nobody reads the object after it.        *)
(***************************************************************************)
Called(k) == [Top EXCEPT !.todo = @ \ {k}]

FanOutMutableFirstGetsOriginal ==
  /\ stack # <<>> /\ Node(Top.node).kind = "fanout"
  /\ \E k \in Top.todo \intersect Mutable(Top.node) :
       LET o == Top.obj
           asIs == /\ Top.todo = Node(Top.node).next
                   /\ ReadOnly(Top.node) = {}
                   /\ ~data[o].readOnly
       IN IF asIs THEN Call(Called(k), k, data, o, Top.path)
          ELSE Call(Called(k), k, Append(data, New(data[o].changes)), Len(data) + 1, Top.path)
  /\ UNCHANGED <<config, mutates, kept>>

FanOutMutable ==
  /\ stack # <<>> /\ Node(Top.node).kind = "fanout"
  /\ \E k \in Top.todo \intersect Mutable(Top.node) :
       LET o == Top.obj
           asIs == /\ Top.todo \intersect Mutable(Top.node) = {k}
                   /\ ReadOnly(Top.node) = {}
                   /\ ~data[o].readOnly
       IN IF asIs THEN Call(Called(k), k, data, o, Top.path)
          ELSE Call(Called(k), k, Append(data, New(data[o].changes)), Len(data) + 1, Top.path)
  /\ UNCHANGED <<config, mutates, kept>>

\* Then the others get the object itself, read-only if there are several.
FanOutReadOnly ==
  /\ stack # <<>> /\ Node(Top.node).kind = "fanout"
  /\ Top.todo \intersect Mutable(Top.node) = {}
  /\ \E k \in Top.todo :
       LET several == \E j \in ReadOnly(Top.node) : j # k
       IN Call(Called(k), k, MarkReadOnly(data, Top.obj, several), Top.obj, Top.path)
  /\ UNCHANGED <<config, mutates, kept>>

\* A processor or a connector works on the data and passes it on.
Process ==
  /\ stack # <<>> /\ Node(Top.node).kind \in {"processor", "connector"}
  /\ \E k \in Top.todo :
       Call(Called(k), k, Write(data, Top.obj, Top.node), Top.obj,
            Top.path \union {n \in {Top.node} : Node(n).mutates})
  /\ UNCHANGED <<config, mutates, kept>>

\* A processor drops or refuses the data (a filter, a sampler, the memory limiter).
Drop ==
  /\ stack # <<>> /\ Node(Top.node).kind = "processor"
  /\ Top.todo # {}
  /\ stack' = [stack EXCEPT ![Len(stack)].todo = {}]
  /\ UNCHANGED <<config, mutates, data, kept>>

Pop(d) ==
  /\ stack' = Below
  /\ data' = IF Top.unref THEN Unref(d, Top.obj) ELSE d

\* An exporter uses the data before its call returns (WaitForResult, a persistent
\* queue, no queue), or its memory queue refuses it.
Export ==
  /\ stack # <<>> /\ Node(Top.node).kind = "exporter"
  /\ Pop(IF Node(Top.node).keeps THEN data ELSE Write(data, Top.obj, Top.node))
  /\ UNCHANGED <<config, mutates, kept>>

\* A memory queue, or the batch processor, takes a reference and keeps the data.
Kept == [by |-> Top.node, obj |-> Top.obj, path |-> Top.path, ref |-> data[Top.obj].taken]

KeepWithoutRef ==
  /\ stack # <<>> /\ Node(Top.node).kind = "exporter"
  /\ Node(Top.node).keeps
  /\ kept' = kept \union {Kept}
  /\ Pop(data)
  /\ UNCHANGED <<config, mutates>>

Keep ==
  /\ stack # <<>> /\ Node(Top.node).kind = "exporter"
  /\ Node(Top.node).keeps
  /\ kept' = kept \union {Kept}
  /\ Pop(Ref(data, Top.obj))
  /\ UNCHANGED <<config, mutates>>

\* A fan-out, a processor or a connector returns to its caller.
Return ==
  /\ stack # <<>> /\ Node(Top.node).kind # "exporter"
  /\ Top.todo = {}
  /\ Pop(data)
  /\ UNCHANGED <<config, mutates, kept>>

\* What was kept is changed by a consumer that declares it, and released when done.
Modify(h) ==
  /\ Node(h.by).mutates
  /\ data' = Write(data, h.obj, h.by)
  /\ UNCHANGED <<config, mutates, stack, kept>>

Release(h) ==
  /\ data' = Unref(data, h.obj)
  /\ kept' = kept \ {h}
  /\ UNCHANGED <<config, mutates, stack>>

FlowNext ==
  \/ Receive
  \/ FanOutMutable \/ FanOutReadOnly
  \/ Process \/ Drop \/ Export \/ Keep \/ Return
  \/ \E h \in kept : Modify(h) \/ Release(h)

FlowSpec == FlowInit /\ [][FlowNext]_flowVars

(***************************************************************************)
(* Properties.                                                             *)
(***************************************************************************)
\* Uses of the data: the component about to work in the innermost call, and the
\* consumers that keep data.
Uses ==
  kept \union {[by |-> c.node, obj |-> c.obj, path |-> c.path] :
                 c \in {Top : s \in {t \in {stack} : t # <<>>}}}

Component(u) == Node(u.by).kind # "fanout" /\ (Node(u.by).next # {} => Top.todo # {})

\* A component that changes the data never meets read-only data, where the write
\* panics (State.AssertMutable), nor data that another consumer keeps or that the
\* rest of an outer fan-out will still read: the declarations of the components,
\* combined over pipelines, fan-outs and connectors, make the fan-outs clone enough.
WriterIsAlone ==
  \A u \in Uses :
    Component(u) /\ Node(u.by).mutates =>
      /\ ~data[u.obj].readOnly
      /\ \A h \in kept : h # u => h.obj # u.obj
      /\ \A i \in DOMAIN stack :
           Node(stack[i].node).kind = "fanout" /\ stack[i].obj = u.obj => stack[i].todo = {}

\* Every component sees the data with the changes of the mutating components it
\* passed on the way, all of them and no others, however long it keeps the data and
\* in whatever order the consumers behind the fan-outs work.
OwnChangesOnly ==
  \A u \in Uses :
    Component(u) => (data[u.obj].changes \ {u.by, Reset}) = u.path \ {u.by}

\* Every fan-out with several read-only consumers is called by a component, whose
\* wrapper owns the data until all of them have returned.
Sheltered(g) ==
  \A f \in DOMAIN g :
    g[f].kind = "fanout" /\ (\E j, k \in g[f].next : j # k /\ ~Capabilities(g)[j] /\ ~Capabilities(g)[k]) =>
      f # 1 /\ \A n \in DOMAIN g : f \in g[n].next => g[n].kind \in {"processor", "connector"}

\* Data is not deleted while a component still uses it, and no reference is dropped
\* twice (State.Unref panics): the owner's reference and those of the consumers
\* that keep data cover every use.
UsedIsAlive ==
  /\ \A u \in Uses : Component(u) => Reset \notin data[u.obj].changes
  /\ \A o \in DOMAIN data : data[o].refs >= 0

===========================================================================
