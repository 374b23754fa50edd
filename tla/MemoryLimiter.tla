-------------------------- MODULE MemoryLimiter --------------------------
(***************************************************************************)
(* The memory limiter (internal/memorylimiter), shared by every memory     *)
(* limiter processor with the same configuration                           *)
(* (processor/memorylimiterprocessor).  One goroutine looks at the memory  *)
(* at every tick, forces a garbage collection if the last one is long      *)
(* enough ago, decides whether the processors refuse data, reports that as *)
(* a status, to the host of the processor that was started last, and then  *)
(* lets the decision take effect.  The report goes through the mutex of    *)
(* the status reporter, and the processors read the decision at any time,  *)
(* so a check has several steps: "wait" for a tick, read the "host",       *)
(* "report", "store".                                                      *)
(*                                                                         *)
(* Time is counted between ticks; a tick may come a moment early, which is *)
(* why the back-off starts from slightly less than the check interval.     *)
(***************************************************************************)
EXTENDS Integers, ComponentStatus

CONSTANTS
  Limiters,        \* the processors that share the limiter
  CheckInterval, MinSoft, MaxSoft, MinHard, MaxHard,
  MemAllocLimit, MemSpikeLimit,
  GCDisabled,
  Readings,        \* the values of MemStats.Alloc that occur
  NoHost

Longer(a, b) == IF a >= b THEN a ELSE b
Shorter(a, b) == IF a <= b THEN a ELSE b

\* Config.Validate
ASSUME ConfigIsValid ==
  /\ {CheckInterval, MemAllocLimit} \subseteq Nat \ {0}
  /\ {MinSoft, MaxSoft, MinHard, MaxHard, MemSpikeLimit} \subseteq Nat
  /\ MinSoft >= MinHard
  /\ MaxSoft > 0 => MaxSoft >= MinSoft
  /\ MaxHard > 0 => MaxHard >= MinHard
  /\ MaxSoft > 0 /\ MaxHard > 0 => MaxSoft >= MaxHard
  /\ MemAllocLimit > MemSpikeLimit

ASSUME LimiterConstants ==
  /\ Readings \subseteq Nat
  /\ GCDisabled \in BOOLEAN
  /\ NoHost \notin Limiters

VARIABLES
  lpc,         \* where the service is with each processor
  tpc,         \* where the goroutine is in CheckMemLimits
  above,       \* its aboveSoftLimit; between checks the last one
  to,          \* the host it is about to report to, if any
  host,        \* ml.host
  refCounter,
  mustRefuse,
  sinceGC,     \* time.Since(lastGCDone), up to the longest interval
  interval,    \* currentSoftGCInterval and currentHardGCInterval
  lastAlloc,   \* lastStats.Alloc
  status       \* what the status reporter holds for each processor

readVars == <<sinceGC, interval, lastAlloc>>
checkVars == <<tpc, above, to, mustRefuse, readVars>>
limiterVars == <<lpc, host, refCounter, checkVars, status>>

NoInterval == [soft |-> 0, hard |-> 0]

LimiterInit ==
  /\ lpc = [n \in Limiters |-> "new"]
  /\ tpc = "wait"
  /\ above = FALSE
  /\ to = NoHost
  /\ host = NoHost
  /\ refCounter = 0
  /\ mustRefuse = FALSE
  /\ sinceGC = 0
  /\ interval = NoInterval
  /\ lastAlloc = 0
  /\ status = [n \in Limiters |-> "None"]

(***************************************************************************)
(* The limits and the back-off.                                            *)
(***************************************************************************)
SpikeLimit == IF MemSpikeLimit = 0 THEN MemAllocLimit \div 5 ELSE MemSpikeLimit
AboveSoftLimit(alloc) == alloc >= MemAllocLimit - SpikeLimit
AboveHardLimit(alloc) == alloc >= MemAllocLimit

NextBackoffInterval(current, min, max) ==
  IF max = 0 THEN min
  ELSE Shorter(2 * Longer(current, Longer(min, (CheckInterval * 95) \div 100)), Longer(max, min))

\* The intervals after alloc was read: a drop below the soft limit, or by 5%, ends
\* the back-off; a forced collection without such a drop prolongs it.
CheckLimitAndBackoff(current, last, alloc, didGC) ==
  IF ~AboveSoftLimit(alloc) \/ alloc <= (last * 95) \div 100 THEN NoInterval
  ELSE IF ~didGC THEN current
  ELSE [soft |-> NextBackoffInterval(current.soft, MinSoft, MaxSoft),
        hard |-> NextBackoffInterval(current.hard, MinHard, MaxHard)]

\* No interval is longer.
LongestGap == Longer(Longer(MinSoft, MaxSoft), Longer(MinHard, MaxHard))

Gate(current, alloc) ==
  IF AboveHardLimit(alloc) THEN Longer(MinHard, current.hard) ELSE Longer(MinSoft, current.soft)

(***************************************************************************)
(* CheckMemLimits, at a tick that comes a moment early or on time.         *)
(***************************************************************************)
Monitoring == refCounter > 0

Elapsed == {Shorter(sinceGC + d, LongestGap + 1) : d \in {CheckInterval - 1, CheckInterval}}

\* The goroutine knows whether the memory is above the soft limit, and reports it or not.
Decide(isAbove, reports) ==
  /\ above' = isAbove
  /\ tpc' = IF reports THEN "host" ELSE "store"

\* The memory is within the soft limit.
WithinLimits(alloc, since) ==
  /\ ~AboveSoftLimit(alloc)
  /\ interval' = CheckLimitAndBackoff(interval, lastAlloc, alloc, FALSE)
  /\ lastAlloc' = alloc
  /\ sinceGC' = since
  /\ Decide(FALSE, mustRefuse)

\* It is not, and the last collection is too recent, or collections are disabled.
LimitedWithoutGC(alloc, since) ==
  /\ AboveSoftLimit(alloc)
  /\ interval' = CheckLimitAndBackoff(interval, lastAlloc, alloc, FALSE)
  /\ GCDisabled \/ since <= Gate(interval', alloc)
  /\ lastAlloc' = alloc
  /\ sinceGC' = since
  /\ Decide(TRUE, ~mustRefuse)

\* It is not, a collection is forced, and the memory is "after" then.
LimitedWithGCQuiet(alloc, since, after) ==
  LET current == CheckLimitAndBackoff(interval, lastAlloc, alloc, FALSE)
  IN /\ AboveSoftLimit(alloc)
     /\ ~GCDisabled /\ since > Gate(current, alloc)
     /\ interval' = CheckLimitAndBackoff(current, alloc, after, TRUE)
     /\ lastAlloc' = after
     /\ sinceGC' = 0
     /\ Decide(AboveSoftLimit(after), AboveSoftLimit(after) /\ ~mustRefuse)

LimitedWithGC(alloc, since, after) ==
  LET current == CheckLimitAndBackoff(interval, lastAlloc, alloc, FALSE)
  IN /\ AboveSoftLimit(alloc)
     /\ ~GCDisabled /\ since > Gate(current, alloc)
     /\ interval' = CheckLimitAndBackoff(current, alloc, after, TRUE)
     /\ lastAlloc' = after
     /\ sinceGC' = 0
     /\ Decide(AboveSoftLimit(after), AboveSoftLimit(after) => ~mustRefuse)

CheckMemLimits ==
  /\ Monitoring /\ tpc = "wait"
  /\ \E alloc \in Readings : \E since \in Elapsed :
       \/ WithinLimits(alloc, since)
       \/ LimitedWithoutGC(alloc, since)
       \/ \E after \in Readings : LimitedWithGC(alloc, since, after)
  /\ UNCHANGED <<lpc, host, refCounter, to, mustRefuse, status>>

\* The argument of ReportStatus, which then waits for the reporter's mutex: Start may
\* replace the host before and after.
ReadHost ==
  /\ tpc = "host"
  /\ tpc' = "report"
  /\ to' = host
  /\ UNCHANGED <<lpc, host, refCounter, above, mustRefuse, readVars, status>>

ReportDecision ==
  /\ tpc = "report"
  /\ tpc' = "store"
  /\ to' = NoHost
  /\ LET event == IF above THEN "RecoverableError" ELSE "OK" IN
     status' = [status EXCEPT ![to] = ReportStatus(@, event)]
  /\ UNCHANGED <<lpc, host, refCounter, above, mustRefuse, readVars>>

StoreDecision ==
  /\ tpc = "store"
  /\ tpc' = "wait"
  /\ mustRefuse' = above
  /\ UNCHANGED <<lpc, host, refCounter, above, to, readVars, status>>

LimiterLoop == CheckMemLimits \/ ReadHost \/ ReportDecision \/ StoreDecision

(***************************************************************************)
(* The service starts and stops the processors, one after the other, and   *)
(* reports their status before and after each call.                        *)
(***************************************************************************)
Move(n, from, then) == lpc[n] = from /\ lpc' = [lpc EXCEPT ![n] = then]

LimiterStarting(n) ==
  /\ \A m \in Limiters : lpc[m] \in {"new", "up"}
  /\ Move(n, "new", "starting")
  /\ status' = [status EXCEPT ![n] = ReportStatus(@, "Starting")]
  /\ UNCHANGED <<host, refCounter, checkVars>>

LimiterStart(n) ==
  /\ Move(n, "starting", "started")
  /\ host' = n
  /\ refCounter' = refCounter + 1
  /\ UNCHANGED <<checkVars, status>>

LimiterStarted(n) ==
  /\ Move(n, "started", "up")
  /\ status' = [status EXCEPT ![n] = ReportOKIfStarting(@)]
  /\ UNCHANGED <<host, refCounter, checkVars>>

LimiterStopping(n) ==
  /\ \A m \in Limiters : lpc[m] \in {"new", "up", "down"}
  /\ \E from \in {"new", "up"} : Move(n, from, "stopping")
  /\ status' = [status EXCEPT ![n] = ReportStatus(@, "Stopping")]
  /\ UNCHANGED <<host, refCounter, checkVars>>

\* MemoryLimiter.Shutdown: the last one stops the goroutine and waits for it.
LimiterShutdown(n) ==
  /\ Move(n, "stopping", "stopped")
  /\ refCounter = 1 => tpc = "wait"
  /\ refCounter' = Longer(refCounter - 1, 0)
  /\ UNCHANGED <<host, checkVars, status>>

LimiterStopped(n) ==
  /\ Move(n, "stopped", "down")
  /\ status' = [status EXCEPT ![n] = ReportStatus(@, "Stopped")]
  /\ UNCHANGED <<host, refCounter, checkVars>>

StartStep(n) == LimiterStarting(n) \/ LimiterStart(n) \/ LimiterStarted(n)

StopStep(n) == LimiterStopping(n) \/ LimiterShutdown(n) \/ LimiterStopped(n)

LimiterNext == LimiterLoop \/ \E n \in Limiters : StartStep(n) \/ StopStep(n)

LimiterSpec == LimiterInit /\ [][LimiterNext]_limiterVars

(***************************************************************************)
(* Properties.                                                             *)
(***************************************************************************)
Serving == \A n \in Limiters : lpc[n] \notin {"stopping", "stopped", "down"}

\* A decision that the status already tells and that has not taken effect yet.
Announced(isAbove) == tpc = "store" /\ above = isAbove

\* As long as no processor is being stopped, the status runs ahead of what the
\* processors do by at most the one decision that CheckMemLimits has reported and
\* not stored yet (memorylimiter.go:273-275, 302-311): data is refused only while
\* some processor shows a recoverable error, or the end of the refusal was just
\* reported; and the processor that was started last shows the error only
\* while data is refused, or the refusal was just reported.  So data is never
\* refused before a status says so, whatever the order of ticks, collections,
\* starting processors and the service's own reports.
RefusalIsReported ==
  Serving =>
    /\ mustRefuse =>
         Announced(FALSE) \/ \E n \in Limiters : status[n] = "RecoverableError"
    /\ \A n \in Limiters :
         n = host /\ status[n] = "RecoverableError" => mustRefuse \/ Announced(TRUE)

\* What a reader of the statuses would expect of shared limiters, too: no processor
\* shows the error of refused data while none is refused.
RecoveryIsReported ==
  Serving /\ tpc = "wait" /\ ~mustRefuse => \A n \in Limiters : status[n] # "RecoverableError"

\* However often collections were of no use, one is forced as soon as the memory is
\* above the hard limit and the longest interval of that path has passed.
BackoffIsCapped ==
  [][\A alloc \in Readings : \A since \in Elapsed :
       AboveHardLimit(alloc) /\ since > Longer(MinHard, MaxHard) /\ ~GCDisabled
         => ~LimitedWithoutGC(alloc, since)]_limiterVars

===========================================================================
