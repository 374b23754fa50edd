-------------------------- MODULE ComponentStatus --------------------------
(***************************************************************************)
(* The state machine behind the status of a component, and what a report   *)
(* does to it (service/internal/status/status.go).                         *)
(***************************************************************************)

Status == {"None", "Starting", "OK", "RecoverableError", "PermanentError",
           "FatalError", "Stopping", "Stopped"}

\* newFSM: the statuses that may follow a status.
Transitions ==
  [None             |-> {"Starting"},
   Starting         |-> {"OK", "RecoverableError", "PermanentError", "FatalError", "Stopping"},
   OK               |-> {"OK", "RecoverableError", "PermanentError", "FatalError", "Stopping"},
   RecoverableError |-> {"OK", "RecoverableError", "PermanentError", "FatalError", "Stopping"},
   PermanentError   |-> {"Stopping"},
   FatalError       |-> {},
   Stopping         |-> {"RecoverableError", "PermanentError", "FatalError", "Stopped"},
   Stopped          |-> {}]

\* ReportStatus: an invalid transition is dropped.
ReportStatus(current, event) ==
  IF event \in Transitions[current] THEN event ELSE current

\* ReportOKIfStarting: the service's OK does not hide a status that the
\* component reported for itself while it was starting.
ReportOKIfStarting(current) ==
  IF current = "Starting" THEN ReportStatus(current, "OK") ELSE current
=============================================================================
