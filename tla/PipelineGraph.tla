--------------------------- MODULE PipelineGraph ---------------------------
(***************************************************************************)
(* The graph of components that a configuration describes                  *)
(* (service/internal/graph/graph.go): its nodes, its edges, and the        *)
(* comparison of two configurations that decides about a partial reload    *)
(* (otelcol/config_diff.go).                                               *)
(*                                                                         *)
(* A configuration is a record:                                            *)
(*   pipelines   for each pipeline the sets of its receivers and exporters *)
(*               and the sequence of its processors                        *)
(*   connectors  the identifiers that name connectors                      *)
(*   receivers   for each receiver a version of its settings               *)
(*   extensions  the enabled extensions                                    *)
(*   rest        a version of all the other sections                       *)
(*   valid       whether it passes validation                              *)
(* A node is a tuple that starts with its kind, as its hashed ID does.     *)
(***************************************************************************)
EXTENDS Naturals, Sequences, FiniteSets, SequencesExt

CONSTANTS
  Signal,    \* the signal of each pipeline
  Supported  \* <<connector, from, to>>: the factory supports the pair of signals

Pipelines(c) == DOMAIN c.pipelines

(***************************************************************************)
(* createNodes.                                                            *)
(***************************************************************************)
Receiver(signal, id) == <<"receiver", signal, id>>
Processor(p, id) == <<"processor", p, id>>
Exporter(signal, id) == <<"exporter", signal, id>>
Connector(from, to, id) == <<"connector", from, to, id>>
Capabilities(p) == <<"capabilities", p>>
FanOut(p) == <<"fanout", p>>
Extension(id) == <<"extension", id>>

IsReceiver(n) == n[1] = "receiver"
IsComponent(n) == n[1] \notin {"capabilities", "fanout"}

\* The receivers and the exporters of a pipeline that are not connectors.
PureReceivers(c, p) == {Receiver(Signal[p], r) : r \in c.pipelines[p].receivers \ c.connectors}
PureExporters(c, p) == {Exporter(Signal[p], e) : e \in c.pipelines[p].exporters \ c.connectors}

\* A connector links a pipeline it ends with one it starts if it supports their signals.
Linked(c, from, to) ==
  {Connector(Signal[from], Signal[to], x) :
     x \in {x \in c.connectors : /\ x \in c.pipelines[from].exporters
                                 /\ x \in c.pipelines[to].receivers
                                 /\ <<x, Signal[from], Signal[to]>> \in Supported}}

ReceiversOf(c, p) == PureReceivers(c, p) \cup UNION {Linked(c, q, p) : q \in Pipelines(c)}
ExportersOf(c, p) == PureExporters(c, p) \cup UNION {Linked(c, p, q) : q \in Pipelines(c)}

\* Every use of a connector has a supported counterpart.
ConnectorsMatch(c) ==
  \A x \in c.connectors : \A p \in Pipelines(c) :
    /\ x \in c.pipelines[p].exporters =>
         \E q \in Pipelines(c) : x \in c.pipelines[q].receivers
                                 /\ <<x, Signal[p], Signal[q]>> \in Supported
    /\ x \in c.pipelines[p].receivers =>
         \E q \in Pipelines(c) : x \in c.pipelines[q].exporters
                                 /\ <<x, Signal[q], Signal[p]>> \in Supported

ProcessorsOf(c, p) ==
  [i \in 1..Len(c.pipelines[p].processors) |-> Processor(p, c.pipelines[p].processors[i])]

Nodes(c) ==
  UNION {ReceiversOf(c, p) \cup ExportersOf(c, p) \cup Range(ProcessorsOf(c, p))
           \cup {Capabilities(p), FanOut(p)} : p \in Pipelines(c)}

(***************************************************************************)
(* createEdges: receivers, capabilities, processors in their order,        *)
(* fan-out, exporters.                                                     *)
(***************************************************************************)
Chain(c, p) == <<Capabilities(p)>> \o ProcessorsOf(c, p) \o <<FanOut(p)>>

Edges(c) ==
  UNION {{<<r, Capabilities(p)>> : r \in ReceiversOf(c, p)}
           \cup {<<Chain(c, p)[i], Chain(c, p)[i + 1]>> : i \in 1..(Len(Chain(c, p)) - 1)}
           \cup {<<FanOut(p), e>> : e \in ExportersOf(c, p)} : p \in Pipelines(c)}

Succ(edges, n) == {e[2] : e \in {e \in edges : e[1] = n}}

\* One step through the nodes that hold no component.
Through(edges, ns) ==
  {n \in ns : IsComponent(n)} \cup UNION {Succ(edges, n) : n \in {n \in ns : ~IsComponent(n)}}

\* The components that a component sends data to: between two components there
\* are at most a capabilities and a fan-out node.
Downstream(edges, n) == Through(edges, Through(edges, Succ(edges, n)))

\* topo.Sort finds an order: the connectors form no cycle of pipelines.
Acyclic(c) ==
  \A ps \in SUBSET Pipelines(c) \ {{}} : \E p \in ps : \A q \in ps : Linked(c, p, q) = {}

(***************************************************************************)
(* config_diff.go.                                                         *)
(***************************************************************************)
ReceiversOnlyChanged(old, new) ==
  /\ old.rest = new.rest
  /\ old.connectors = new.connectors
  /\ old.extensions = new.extensions
  /\ Pipelines(old) = Pipelines(new)
  /\ \A p \in Pipelines(old) :
       /\ old.pipelines[p].processors = new.pipelines[p].processors
       /\ old.pipelines[p].exporters = new.pipelines[p].exporters
       /\ old.pipelines[p].receivers \cap new.connectors
            = new.pipelines[p].receivers \cap new.connectors

\* changedReceivers: the receivers of both whose settings differ.
ChangedReceivers(old, new) ==
  {r \in DOMAIN old.receivers \cap DOMAIN new.receivers : old.receivers[r] # new.receivers[r]}

(***************************************************************************)
(* Phases 1 to 3 of UpdateReceivers: what becomes of each receiver node of *)
(* a graph.                                                                *)
(***************************************************************************)
ReceiverEdges(edges) == {e \in edges : IsReceiver(e[1])}

Desired(c) ==
  UNION {{<<r, Capabilities(p)>> : r \in PureReceivers(c, p)} : p \in Pipelines(c)}

Sources(edges) == {e[1] : e \in edges}

ToRemove(edges, c) == Sources(ReceiverEdges(edges)) \ Sources(Desired(c))
ToAdd(edges, c) == Sources(Desired(c)) \ Sources(ReceiverEdges(edges))
\* ToRebuild that looks at the pipelines and not at the settings.
ToRebuildByMembership(edges, changed, c) ==
  {n \in Sources(ReceiverEdges(edges)) \cap Sources(Desired(c)) :
     Succ(edges, n) # Succ(Desired(c), n)}

ToRebuild(edges, changed, c) ==
  {n \in Sources(ReceiverEdges(edges)) \cap Sources(Desired(c)) :
     Succ(edges, n) # Succ(Desired(c), n) \/ n[3] \in changed}
=============================================================================
