------------------------- MODULE ScrapedPipeline -------------------------
(***************************************************************************)
(* A scraping receiver, the pipelines it feeds and the memory limiter they *)
(* share, from start to stop: Scraper, DataFlow and MemoryLimiter with the *)
(* places where they meet.                                                 *)
(*  - The call of nextConsumer by the scraping goroutine is the call of    *)
(*    the fan-out behind the receiver, and lasts as long as that call.     *)
(*  - A memory limiter processor passes data on, or refuses it, as the     *)
(*    limiter decided at its last tick.                                    *)
(*  - The service starts the processors before the receiver and stops them *)
(*    after it (Lifecycle).                                                *)
(***************************************************************************)
EXTENDS DataFlow, MemoryLimiter, Scraper

vars == <<flowVars, limiterVars, scraperVars>>

\* The memory limiter processors of the graph share the limiter.
ASSUME LimitersAssumption ==
  \A c \in Configs : {n \in DOMAIN c.nodes : c.nodes[n].limits} \subseteq Limiters

Limiting == {n \in DOMAIN config.nodes : Node(n).limits}

Init == FlowInit /\ LimiterInit /\ ScraperInit

(***************************************************************************)
(* The scraping goroutine.                                                 *)
(***************************************************************************)
\* processTraces, processMetrics, processLogs, processProfiles of the limiter.
Refused == stack # <<>> /\ Node(Top.node).limits /\ mustRefuse

FlowStep ==
  \/ FanOutMutable \/ FanOutReadOnly \/ Export \/ Keep \/ Return
  \/ Process /\ ~Refused
  \/ Drop /\ (Node(Top.node).limits => mustRefuse)

Scraping ==
  \/ (DelayOver \/ Scrape \/ Await) /\ UNCHANGED <<flowVars, limiterVars>>
  \/ ConsumeScraped /\ Receive /\ UNCHANGED limiterVars
  \/ FlowStep /\ UNCHANGED <<scraperVars, limiterVars>>
  \/ Consumed /\ stack = <<>> /\ UNCHANGED <<flowVars, limiterVars>>

Ticking == Tick /\ UNCHANGED <<flowVars, limiterVars>>

Keeping ==
  /\ \E h \in kept : Modify(h) \/ Release(h)
  /\ UNCHANGED <<scraperVars, limiterVars>>

Releasing ==
  /\ \E h \in kept : Release(h)
  /\ UNCHANGED <<scraperVars, limiterVars>>

(***************************************************************************)
(* The service, and the limiter's goroutine.                               *)
(***************************************************************************)
StartLimiter ==
  /\ cpc = "new"
  /\ \E n \in Limiting : StartStep(n)
  /\ UNCHANGED <<flowVars, scraperVars>>

StartReceiver ==
  /\ \A n \in Limiting : lpc[n] = "up"
  /\ StartScraper \/ StartScraping
  /\ UNCHANGED <<flowVars, limiterVars>>

\* The collector stops, also because a component failed to start.
StopReceiver ==
  /\ \A n \in Limiting : lpc[n] \notin {"starting", "started"}
  /\ StopScraping
  /\ UNCHANGED <<flowVars, limiterVars>>

ReceiverStopped ==
  /\ StopScrapers
  /\ UNCHANGED <<flowVars, limiterVars>>

StopLimiter ==
  /\ cpc = "stopped"
  /\ \E n \in Limiting : StopStep(n)
  /\ UNCHANGED <<flowVars, scraperVars>>

Limit == LimiterLoop /\ UNCHANGED <<flowVars, scraperVars>>

Next ==
  \/ Scraping \/ Ticking \/ Keeping \/ Limit
  \/ StartLimiter \/ StartReceiver \/ StopReceiver \/ ReceiverStopped \/ StopLimiter

\* The goroutine is scheduled and its consumers return; Shutdown is scheduled; who
\* keeps data is done with it at some time.  Ticks, readings of the memory and the
\* request to stop just happen.
Spec ==
  /\ Init /\ [][Next]_vars
  /\ WF_vars(Scraping) /\ WF_vars(ReceiverStopped) /\ WF_vars(Releasing)

(***************************************************************************)
(* Properties.                                                             *)
(***************************************************************************)
\* A scraper is not called once it was shut down, no consumer is called once the
\* receiver's Shutdown returned, and a memory limiter that was shut down is not asked.
StoppedInOrder ==
  /\ \A i \in DOMAIN scrapers : scrapers[i] = "stopped" => spc \in {"none", "exited"}
  /\ cpc = "stopped" => stack = <<>>
  /\ \A i \in DOMAIN stack : Node(stack[i].node).limits => lpc[stack[i].node] = "up"

\* The receiver's Shutdown returns even if every scrape takes longer than the
\* collection interval, so that there is always a tick waiting.
ScraperShutdownReturns == cpc = "waiting" ~> cpc = "stopped"

===========================================================================
