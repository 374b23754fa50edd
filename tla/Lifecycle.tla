----------------------------- MODULE Lifecycle -----------------------------
(***************************************************************************)
(* What the service promises about the order in which it starts and stops  *)
(* components: a component is up only while everything it uses is up.      *)
(* The components, and who uses what, change while the collector runs, but *)
(* never what a component that is up uses.                                 *)
(***************************************************************************)
VARIABLES
  up,    \* the components that are up
  uses   \* pairs <<user, used>> of components

vars == <<up, uses>>

Init == up = {} /\ uses = {}

\* What a component that is up uses does not change.
Rewired == \A e \in (uses \ uses') \cup (uses' \ uses) : e[1] \notin up

Start(n) ==
  /\ n \notin up
  /\ Rewired
  /\ \A e \in uses' : e[1] = n => e[2] \in up
  /\ up' = up \cup {n}

Stop(n) ==
  /\ n \in up
  /\ \A e \in uses : e[2] = n => e[1] \notin up
  /\ up' = up \ {n}
  /\ UNCHANGED uses

Next == (\E n \in up' \ up : Start(n)) \/ (\E n \in up \ up' : Stop(n)) \/ (Rewired /\ UNCHANGED up)

Spec == Init /\ [][Next]_vars
=============================================================================
