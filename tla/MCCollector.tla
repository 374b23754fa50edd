---------------------------- MODULE MCCollector ----------------------------
(***************************************************************************)
(* Two pipelines joined by a connector, two extensions, and the kinds of   *)
(* configuration change the collector tells apart.                         *)
(***************************************************************************)
EXTENDS Collector

MCSignal == [in |-> "traces", out |-> "metrics"]
MCSupported == {<<"link", "traces", "metrics">>}
MCDependencies == {<<"auth", "vault">>}

Base ==
  [pipelines  |-> [in |-> [receivers |-> {"r"}, processors |-> <<"p">>, exporters |-> {"link"}],
                   out |-> [receivers |-> {"link", "s"}, processors |-> <<>>, exporters |-> {"e"}]],
   connectors |-> {"link"},
   receivers  |-> [r |-> 1, s |-> 1],
   extensions |-> {"auth", "vault"},
   rest       |-> 1,
   valid      |-> TRUE]

\* The settings of a receiver change.
Tuned == [Base EXCEPT !.receivers.r = 2]
\* A receiver joins a pipeline of another signal; the other receiver leaves.
Moved == [Base EXCEPT !.pipelines.in.receivers = {"s"}]
\* Both: the pipelines swap receivers and one has new settings.
Swapped == [Base EXCEPT !.pipelines.in.receivers = {"r", "s"}, !.pipelines.out.receivers = {"link"},
                        !.receivers.r = 2]
\* Something other than receivers changes.
Other == [Base EXCEPT !.rest = 2]
\* The configuration does not pass validation.
Invalid == [Base EXCEPT !.valid = FALSE]
\* The connector has no counterpart: the graph cannot be built.
Broken == [Base EXCEPT !.pipelines.out.receivers = {"s"}]

MCInitialConfigs == {Base}
MCConfigs == {Base, Tuned, Moved, Swapped, Other, Invalid, Broken}
=============================================================================
