------------------------------ MODULE Exporter ------------------------------
(***************************************************************************)
(* An exporter built by exporterhelper: the in-memory queue, the retry     *)
(* sender behind it and the wrapped exporter at the end of the chain, with *)
(* the order in which BaseExporter.Shutdown stops them                     *)
(* (exporter/exporterhelper/internal/base_exporter.go, retry_sender.go,    *)
(* timeout_sender.go).  The queue's consumers call Send, so its contexts   *)
(* carry no deadline of a caller.                                          *)
(***************************************************************************)
EXTENDS MemoryQueue

VARIABLES
  spc,     \* where retrySender.Send is for each element
  tried,   \* the elements that reached the wrapped exporter
  stopCh,  \* retrySender.stopCh is closed
  down,    \* the wrapped exporter was shut down
  stage    \* how far BaseExporter.Shutdown is

sendVars == <<spc, tried, stopCh, down, stage>>
allVars == <<vars, sendVars>>

ExporterTypeOK ==
  /\ TypeOK
  /\ spc \in [Offers -> {"idle", "send", "backoff", "answered"}]
  /\ tried \subseteq Offers
  /\ {stopCh, down} \subseteq BOOLEAN /\ stage \in 0..4

ExporterInit ==
  /\ Init
  /\ spc = [e \in Offers |-> "idle"]
  /\ tried = {}
  /\ stopCh = FALSE
  /\ down = FALSE
  /\ stage = 0

Step(e, l) == spc' = [spc EXCEPT ![e] = l]

\* consumeFunc enters the chain with the element that Read returns.
ReadAndSend(c) ==
  /\ Read(c)
  /\ spc' = [e \in Offers |-> IF e \in held'[c] THEN "send" ELSE spc[e]]
  /\ tried' = tried \cup held'[c]
  /\ UNCHANGED <<stopCh, down, stage>>

\* The wrapped exporter answers, within the timeout: success or a permanent
\* error ends it, as does a retryable one when no time is left to retry; any
\* other retryable error leads to the back-off.
Answer(e) ==
  /\ spc[e] = "send"
  /\ \/ Step(e, "answered")
     \/ Step(e, "backoff")
  /\ UNCHANGED <<vars, tried, stopCh, down, stage>>

BackoffInterrupted(e) ==
  /\ spc[e] = "backoff"
  /\ stopCh
  /\ Step(e, "answered")
  /\ UNCHANGED <<vars, tried, stopCh, down, stage>>

BackoffElapsed(e) ==
  /\ spc[e] = "backoff"
  /\ Step(e, "send")
  /\ UNCHANGED <<vars, tried, stopCh, down, stage>>

(***************************************************************************)
(* BaseExporter.Shutdown: the retry sender, the queue, the wrapped         *)
(* exporter.                                                               *)
(***************************************************************************)
ShutdownOrderQueueFirst == <<"queue", "retry", "wrapped">>
ShutdownOrderWrappedFirst == <<"retry", "wrapped", "queue">>

ShutdownOrder == <<"retry", "queue", "wrapped">>

Stopping(part) == stage \in DOMAIN ShutdownOrder /\ ShutdownOrder[stage] = part

BeginShutdown ==
  /\ stage = 0
  /\ UpstreamStopsFirst => \A o \in Offers : opc[o] \in {"new", "returned"}
  /\ stage' = 1
  /\ UNCHANGED <<vars, spc, tried, stopCh, down>>

RetryShutdown ==
  /\ Stopping("retry")
  /\ stopCh' = TRUE /\ stage' = stage + 1
  /\ UNCHANGED <<vars, spc, tried, down>>

\* asyncQueue.Shutdown: stop the queue, then wait for the consumers.
QueueShutdown ==
  /\ Stopping("queue")
  /\ \/ Shutdown /\ UNCHANGED stage
     \/ ShutdownReturned /\ stage' = stage + 1 /\ UNCHANGED vars
  /\ UNCHANGED <<spc, tried, stopCh, down>>

WrappedShutdown ==
  /\ Stopping("wrapped")
  /\ down' = TRUE /\ stage' = stage + 1
  /\ UNCHANGED <<vars, spc, tried, stopCh>>

\* Producers do not call a component that is shutting down.
CallOffer(o) ==
  /\ UpstreamStopsFirst => stage = 0
  /\ OfferUnqueued(o) \/ Offer(o)
  /\ UNCHANGED sendVars

Cancel(o) == SpaceSelectDone(o) /\ UNCHANGED sendVars

OfferProgress(o) == OfferStep(o) /\ UNCHANGED sendVars

ExportDone(e) ==
  /\ est[e] = "inflight" => spc[e] = "answered"
  /\ DoneStep(e)
  /\ UNCHANGED sendVars

Consume(c) == ReadAndSend(c) \/ (ConsumeReturns(c) /\ UNCHANGED sendVars)

ExporterTerminated == stage = 4 /\ Terminated /\ UNCHANGED sendVars

ExporterNext ==
  \/ \E o \in Offers :
       \/ CallOffer(o) \/ Cancel(o) \/ OfferProgress(o)
       \/ Answer(o) \/ BackoffInterrupted(o) \/ BackoffElapsed(o) \/ ExportDone(o)
  \/ \E c \in Consumers : Consume(c)
  \/ BeginShutdown \/ RetryShutdown \/ QueueShutdown \/ WrappedShutdown
  \/ ExporterTerminated

(***************************************************************************)
(* Fairness: goroutines that can run do, and the wrapped exporter answers. *)
(* It need not ever succeed.  A back-off that stopCh may interrupt again   *)
(* and again is interrupted in the end: select picks at random among the   *)
(* cases that are ready.                                                   *)
(***************************************************************************)
ExporterFairness ==
  /\ \A o \in Offers : WF_allVars(OfferProgress(o)) /\ WF_allVars(ExportDone(o))
  /\ \A o \in Offers : WF_allVars(Answer(o)) /\ WF_allVars(BackoffElapsed(o))
  /\ \A o \in Offers : SF_allVars(BackoffInterrupted(o))
  /\ \A c \in Consumers : WF_allVars(Consume(c))
  /\ WF_allVars(RetryShutdown \/ QueueShutdown \/ WrappedShutdown)

ExporterSpec == ExporterInit /\ [][ExporterNext]_allVars /\ ExporterFairness

(***************************************************************************)
(* Properties.                                                             *)
(***************************************************************************)
\* When the wrapped exporter is shut down, everything the queue accepted has
\* been sent to it at least once and nothing is being sent: the queue is
\* flushed into a live exporter (base_exporter.go:163-179).
FlushedBeforeShutdown ==
  down => \A e \in Offers :
            /\ opc[e] = "returned" /\ result[e] = "nil" /\ Size[e] > 0 => e \in tried
            /\ spc[e] \notin {"send", "backoff"}

\* Shutdown ends even if the destination fails every request with a retryable
\* error: the retry sender is stopped before the queue waits for its consumers
\* (base_exporter.go:167).
ExporterShutdownReturns == stage > 0 ~> stage = 4
=============================================================================
