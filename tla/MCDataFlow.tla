---------------------------- MODULE MCDataFlow ----------------------------
EXTENDS DataFlow

FanOut(p, next) == [kind |-> "fanout", mutates |-> FALSE, keeps |-> FALSE, limits |-> FALSE, of |-> p, next |-> next]
Pipeline(next) == [kind |-> "capabilities", mutates |-> FALSE, keeps |-> FALSE, limits |-> FALSE, of |-> 0, next |-> {next}]
Processor(p, m, next) == [kind |-> "processor", mutates |-> m, keeps |-> FALSE, limits |-> FALSE, of |-> p, next |-> {next}]
Connector(m, next) == [kind |-> "connector", mutates |-> m, keeps |-> FALSE, limits |-> FALSE, of |-> 0, next |-> {next}]
Exporter(m, k) == [kind |-> "exporter", mutates |-> m, keeps |-> k, limits |-> FALSE, of |-> 0, next |-> {}]

\* A receiver in two pipelines; the first has a processor, they share an exporter.
TwoPipelines ==
  { << FanOut(0, {2, 5}),
       Pipeline(3), Processor(2, m, 4), FanOut(2, {7, 8}),
       Pipeline(6), FanOut(5, {8, 9}),
       Exporter(x, TRUE), Exporter(FALSE, TRUE), Exporter(y, k) >> :
    m, x, y, k \in BOOLEAN }

\* A processor, two exporters, and a connector that leads to two more pipelines.
Connected ==
  { << FanOut(0, {2}),
       Pipeline(3), Processor(2, FALSE, 4), FanOut(2, {5, 6}),
       Exporter(FALSE, TRUE), Connector(c, 7), FanOut(0, {8, 11}),
       Pipeline(9), Processor(8, m, 10), FanOut(8, {13}),
       Pipeline(12), FanOut(11, {14}),
       Exporter(x, TRUE), Exporter(y, TRUE) >> :
    c, m, x, y \in BOOLEAN }

\* Processors at the start of three pipelines behind one receiver.
ThreePipelines ==
  { << FanOut(0, {2, 5, 8}),
       Pipeline(3), Processor(2, m, 4), FanOut(2, {11}),
       Pipeline(6), Processor(5, n, 7), FanOut(5, {11}),
       Pipeline(9), Processor(8, TRUE, 10), FanOut(8, {11}),
       Exporter(FALSE, TRUE) >> :
    m, n \in BOOLEAN }

AllGraphs == TwoPipelines \union Connected \union ThreePipelines

MCConfigs ==
  {[nodes |-> g, pooling |-> p] : g \in AllGraphs, p \in BOOLEAN}
    \ {[nodes |-> g, pooling |-> TRUE] : g \in {h \in AllGraphs : ~Sheltered(h)}}

MCPooledConfigs == {[nodes |-> g, pooling |-> TRUE] : g \in TwoPipelines}
===========================================================================
