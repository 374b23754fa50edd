----------------------- MODULE ScrapedPipelineProofs -----------------------
(***************************************************************************)
(* Proofs about the scraped pipeline: the memory limiter's reports and     *)
(* back-off, for every valid configuration, all readings and any number of *)
(* processors that share it; and the pipeline as a whole, whose data flow  *)
(* and limiter behave as they do alone, with the results of DataFlowProofs *)
(* and DataPoolProofs, and whose parts stop in order, for every well-built *)
(* graph and all sizes of the pipeline.                                    *)
(***************************************************************************)
EXTENDS ScrapedPipeline, DataPoolProofs

\* The provers of a step, in this order, and their time in seconds.
USE SMTT(30), ZenonT(30), Z3T(30)

(***************************************************************************)
(* The memory limiter.                                                     *)
(***************************************************************************)
HardCap == Longer(MinHard, MaxHard)

LimiterTypeOK ==
  /\ lpc \in [Limiters -> {"new", "starting", "started", "up", "stopping", "stopped", "down"}]
  /\ tpc \in {"wait", "host", "report", "store"}
  /\ above \in BOOLEAN
  /\ to \in Limiters \union {NoHost}
  /\ host \in Limiters \union {NoHost}
  /\ refCounter \in Nat
  /\ mustRefuse \in BOOLEAN
  /\ sinceGC \in Nat
  /\ interval \in [soft : Nat, hard : Nat]
  /\ lastAlloc \in Nat
  /\ status \in [Limiters -> Status]

\* A running limiter reports to a processor that was started, and its goroutine is in
\* the middle of a check only while it runs; a processor that replaced the one it is
\* about to report to does not show an error yet.
HostIsStarted ==
  /\ tpc # "wait" => refCounter > 0
  /\ refCounter > 0 => host \in Limiters
  /\ host \in Limiters => lpc[host] \notin {"new", "starting"}
  /\ tpc = "report" => /\ to \in Limiters /\ lpc[to] \notin {"new", "starting"}
                       /\ Serving /\ to # host => status[host] # "RecoverableError"

\* A processor that is up accepts the limiter's reports.
StatusFollowsStart ==
  \A n \in Limiters :
    /\ lpc[n] = "new" => status[n] = "None"
    /\ lpc[n] = "starting" => status[n] = "Starting"
    /\ lpc[n] \in {"started", "up"} => status[n] \in {"Starting", "OK", "RecoverableError"}

\* The last decision that was reported, or that needed no report.
Told == IF tpc = "store" THEN above ELSE mustRefuse

\* The statuses say what was decided last, on its way into effect or not.
StatusTells ==
  Serving =>
    /\ Told => \E n \in Limiters : status[n] = "RecoverableError"
    /\ \A n \in Limiters : n = host /\ status[n] = "RecoverableError" => Told

LimiterInv ==
  /\ LimiterTypeOK
  /\ HostIsStarted
  /\ StatusFollowsStart
  /\ StatusTells
  /\ interval.hard <= HardCap

\* The intervals and the time since the last collection stay natural numbers.
LEMMA NumbersAreNatural ==
  ASSUME LimiterTypeOK
  PROVE  /\ HardCap \in Nat
         /\ Elapsed \subseteq Nat
         /\ \A current \in [soft : Nat, hard : Nat] : \A last, alloc \in Nat : \A didGC \in BOOLEAN :
              CheckLimitAndBackoff(current, last, alloc, didGC) \in [soft : Nat, hard : Nat]
<1>1. HardCap \in Nat
  BY ConfigIsValid DEF HardCap, Longer
<1>2. Elapsed \subseteq Nat
  BY ConfigIsValid DEF Elapsed, Shorter, Longer, LongestGap, LimiterTypeOK
<1>3. \A current, min, max \in Nat : NextBackoffInterval(current, min, max) \in Nat
  BY ConfigIsValid DEF NextBackoffInterval, Shorter, Longer
<1>4. ASSUME NEW current \in [soft : Nat, hard : Nat], NEW last \in Nat, NEW alloc \in Nat,
             NEW didGC \in BOOLEAN
      PROVE  CheckLimitAndBackoff(current, last, alloc, didGC) \in [soft : Nat, hard : Nat]
  <2>1. /\ NextBackoffInterval(current.soft, MinSoft, MaxSoft) \in Nat
        /\ NextBackoffInterval(current.hard, MinHard, MaxHard) \in Nat
    BY <1>3, ConfigIsValid
  <2> QED
    BY <2>1 DEF CheckLimitAndBackoff, NoInterval
<1> QED
  BY <1>1, <1>2, <1>4

\* The hard path's interval never passes its cap (nextBackoffInterval).
LEMMA IntervalIsCapped ==
  ASSUME NEW current \in [soft : Nat, hard : Nat], current.hard <= HardCap,
         NEW last \in Nat, NEW alloc \in Nat, NEW didGC \in BOOLEAN
  PROVE  CheckLimitAndBackoff(current, last, alloc, didGC).hard <= HardCap
<1>1. NextBackoffInterval(current.hard, MinHard, MaxHard) <= HardCap
  BY ConfigIsValid DEF NextBackoffInterval, Shorter, Longer, HardCap
<1>2. 0 <= HardCap
  BY ConfigIsValid DEF HardCap, Longer
<1> QED
  BY <1>1, <1>2 DEF CheckLimitAndBackoff, NoInterval

\* A report of OK or of the recoverable error reaches a processor that is up.
LEMMA ReportArrives ==
  ASSUME NEW s \in {"OK", "RecoverableError"},
         NEW current \in {"Starting", "OK", "RecoverableError"}
  PROVE  ReportStatus(current, s) = s
BY DEF ReportStatus, Transitions

\* What a report leaves is a status.
LEMMA ReportIsStatus ==
  ASSUME NEW s \in Status, NEW current \in Status
  PROVE  ReportStatus(current, s) \in Status
BY DEF ReportStatus

\* Deciding keeps the limiter's invariant: a decision that is not reported is the
\* one that holds already.
LEMMA CheckKeeps == LimiterInv /\ CheckMemLimits => LimiterInv'
<1> SUFFICES ASSUME LimiterInv, CheckMemLimits PROVE LimiterInv'
  OBVIOUS
<1> PICK alloc \in Readings, since \in Elapsed :
      \/ WithinLimits(alloc, since)
      \/ LimitedWithoutGC(alloc, since)
      \/ \E after \in Readings : LimitedWithGC(alloc, since, after)
  BY DEF CheckMemLimits
<1>0. /\ refCounter > 0 /\ tpc = "wait" /\ UNCHANGED <<lpc, host, refCounter, to, mustRefuse, status>>
      /\ LimiterTypeOK /\ mustRefuse \in BOOLEAN
      /\ alloc \in Nat /\ since \in Nat /\ lastAlloc \in Nat
      /\ interval \in [soft : Nat, hard : Nat] /\ interval.hard <= HardCap
  BY ZenonT(30), NumbersAreNatural, LimiterConstants DEF CheckMemLimits, Monitoring, LimiterInv, LimiterTypeOK
<1>1. /\ CheckLimitAndBackoff(interval, lastAlloc, alloc, FALSE) \in [soft : Nat, hard : Nat]
      /\ CheckLimitAndBackoff(interval, lastAlloc, alloc, FALSE).hard <= HardCap
  BY ZenonT(30), <1>0, NumbersAreNatural, IntervalIsCapped
<1>2. SUFFICES /\ sinceGC' \in Nat /\ lastAlloc' \in Nat
               /\ interval' \in [soft : Nat, hard : Nat] /\ interval'.hard <= HardCap
               /\ above' \in BOOLEAN
               /\ tpc' = "host" \/ (tpc' = "store" /\ above' = mustRefuse)
  <2>1. HostIsStarted' /\ StatusFollowsStart'
    BY <1>0, <1>2 DEF LimiterInv, HostIsStarted, StatusFollowsStart
  <2>2. LimiterTypeOK'
    BY <1>0, <1>2 DEF LimiterTypeOK
  <2>3. Told' = Told
    BY <1>0, <1>2 DEF Told
  <2>4. StatusTells'
    BY <1>0, <2>3 DEF LimiterInv, StatusTells, Serving
  <2>5. interval'.hard <= HardCap'
    BY <1>2 DEF HardCap, Longer
  <2> QED
    BY <2>1, <2>2, <2>4, <2>5 DEF LimiterInv
<1>3. CASE WithinLimits(alloc, since)
  BY ZenonT(30), <1>0, <1>1, <1>3 DEF WithinLimits, Decide
<1>4. CASE LimitedWithoutGC(alloc, since)
  BY ZenonT(30), <1>0, <1>1, <1>4 DEF LimitedWithoutGC, Decide
<1>5. CASE \E after \in Readings : LimitedWithGC(alloc, since, after)
  <2> DEFINE current == CheckLimitAndBackoff(interval, lastAlloc, alloc, FALSE)
  <2>1. PICK after \in Readings : LimitedWithGC(alloc, since, after)
    BY <1>5
  <2>2. after \in Nat
    BY LimiterConstants
  <2>3. interval' = CheckLimitAndBackoff(current, alloc, after, TRUE)
    BY <2>1 DEF LimitedWithGC
  <2> HIDE DEF current
  <2>4. current \in [soft : Nat, hard : Nat] /\ current.hard <= HardCap
    BY ZenonT(30), <1>1 DEF current
  <2>5. interval' \in [soft : Nat, hard : Nat] /\ interval'.hard <= HardCap
    BY ZenonT(30), <1>0, <2>2, <2>3, <2>4, NumbersAreNatural, IntervalIsCapped
  <2>6. /\ lastAlloc' = after /\ sinceGC' = 0 /\ above' = AboveSoftLimit(after)
        /\ tpc' = IF AboveSoftLimit(after) => ~mustRefuse THEN "host" ELSE "store"
    BY <2>1 DEF LimitedWithGC, Decide
  <2>7. AboveSoftLimit(after) \in BOOLEAN
    BY DEF AboveSoftLimit
  <2> QED
    BY <1>0, <2>2, <2>5, <2>6, <2>7
<1> QED
  BY <1>3, <1>4, <1>5

\* So does the choice of the processor to report to.
LEMMA ReadHostKeeps == LimiterInv /\ ReadHost => LimiterInv'
<1> SUFFICES ASSUME LimiterInv, ReadHost PROVE LimiterInv'
  OBVIOUS
<1> USE DEF LimiterInv, LimiterTypeOK
<1>0. /\ tpc = "host" /\ tpc' = "report" /\ to' = host
      /\ UNCHANGED <<lpc, host, refCounter, above, mustRefuse, sinceGC, interval, lastAlloc, status>>
  BY DEF ReadHost, readVars
<1>1. Told' = Told
  BY <1>0 DEF Told
<1>2. StatusTells' /\ StatusFollowsStart' /\ HostIsStarted'
  BY <1>0, <1>1 DEF StatusTells, StatusFollowsStart, HostIsStarted, Serving
<1>3. interval'.hard <= HardCap'
  BY <1>0 DEF HardCap, Longer
<1> QED
  BY <1>0, <1>2, <1>3

\* And the report: it reaches that processor.
LEMMA ReportKeeps == LimiterInv /\ ReportDecision => LimiterInv'
<1> SUFFICES ASSUME LimiterInv, ReportDecision PROVE LimiterInv'
  OBVIOUS
<1> DEFINE event == IF above THEN "RecoverableError" ELSE "OK"
<1> USE DEF LimiterInv, LimiterTypeOK
<1>0. /\ tpc = "report" /\ tpc' = "store" /\ to' = NoHost
      /\ status' = [status EXCEPT ![to] = ReportStatus(@, event)]
      /\ UNCHANGED <<lpc, host, refCounter, above, mustRefuse, sinceGC, interval, lastAlloc>>
  BY DEF ReportDecision, readVars
<1>1. /\ to \in Limiters /\ lpc[to] \notin {"new", "starting"}
      /\ refCounter > 0 /\ host \in Limiters /\ lpc[host] \notin {"new", "starting"}
  BY <1>0 DEF HostIsStarted
<1>2. event \in {"OK", "RecoverableError"}
  OBVIOUS
<1> HIDE DEF event
<1>3. status' \in [Limiters -> Status]
  BY <1>0, <1>1, <1>2, ReportIsStatus DEF Status
<1>4. \A n \in Limiters : n # to => status'[n] = status[n]
  BY <1>0, <1>1
<1>5. lpc[to] \in {"started", "up"} => status'[to] = event
  BY <1>0, <1>1, <1>2, ReportArrives DEF StatusFollowsStart
<1>6. StatusFollowsStart'
  BY <1>0, <1>1, <1>2, <1>4, <1>5 DEF StatusFollowsStart
<1>7. Serving => lpc[to] \in {"started", "up"}
  BY <1>1 DEF Serving
<1>8. StatusTells'
  <2>1. Told' = above
    BY <1>0 DEF Told
  <2>2. (event = "RecoverableError") <=> above
    BY DEF event
  <2>3. Serving' <=> Serving
    BY <1>0 DEF Serving
  <2>4. ASSUME Serving PROVE status'[to] = event
    BY <2>4, <1>5, <1>7
  <2>5. ASSUME Serving, to # host PROVE status'[host] # "RecoverableError"
    BY <1>0, <1>1, <1>4, <2>5 DEF HostIsStarted
  <2> QED
    BY <1>0, <1>1, <2>1, <2>2, <2>3, <2>4, <2>5 DEF StatusTells
<1>9. HostIsStarted'
  BY <1>0, <1>1 DEF HostIsStarted
<1>10. interval'.hard <= HardCap'
  BY <1>0 DEF HardCap, Longer
<1> QED
  BY <1>0, <1>3, <1>6, <1>8, <1>9, <1>10

\* And so does letting the decision take effect.
LEMMA StoreKeeps == LimiterInv /\ StoreDecision => LimiterInv'
<1> SUFFICES ASSUME LimiterInv, StoreDecision PROVE LimiterInv'
  OBVIOUS
<1> USE DEF LimiterInv, LimiterTypeOK
<1>0. /\ tpc = "store" /\ tpc' = "wait" /\ mustRefuse' = above
      /\ UNCHANGED <<lpc, host, refCounter, above, to, sinceGC, interval, lastAlloc, status>>
  BY DEF StoreDecision, readVars
<1>1. Told' = Told
  BY <1>0 DEF Told
<1>2. StatusTells' /\ StatusFollowsStart' /\ HostIsStarted'
  BY <1>0, <1>1 DEF StatusTells, StatusFollowsStart, HostIsStarted, Serving
<1>3. interval'.hard <= HardCap'
  BY <1>0 DEF HardCap, Longer
<1> QED
  BY <1>0, <1>2, <1>3

\* The steps with which the service starts and stops the processors keep it.
LEMMA ServiceKeeps ==
  ASSUME LimiterInv, NEW n \in Limiters, StartStep(n) \/ StopStep(n)
  PROVE  LimiterInv'
<1> USE DEF LimiterInv, LimiterTypeOK, checkVars, readVars, Move
<1>0. interval.hard <= HardCap => interval.hard <= HardCap'
  BY DEF HardCap, Longer
<1>a. ASSUME UNCHANGED checkVars PROVE Told' = Told
  BY ZenonT(30), <1>a DEF Told
<1>1. CASE LimiterStarting(n)
  <2>1. status[n] = "None" /\ lpc[n] = "new"
    BY ZenonT(30), <1>1 DEF LimiterStarting, StatusFollowsStart
  <2>2. /\ status' = [status EXCEPT ![n] = "Starting"]
        /\ lpc' = [lpc EXCEPT ![n] = "starting"]
        /\ UNCHANGED <<host, refCounter, checkVars>>
    BY <1>1, <2>1 DEF LimiterStarting, ReportStatus, Transitions
  <2>3. LimiterTypeOK'
    BY <2>2 DEF Status
  <2>4. HostIsStarted' /\ StatusFollowsStart'
    BY <2>1, <2>2 DEF HostIsStarted, StatusFollowsStart, Serving
  <2>5. StatusTells'
    BY <1>a, <2>1, <2>2 DEF StatusTells, Serving
  <2> QED
    BY <1>0, <2>2, <2>3, <2>4, <2>5
<1>2. CASE LimiterStart(n)
  <2>1. /\ lpc[n] = "starting"
        /\ lpc' = [lpc EXCEPT ![n] = "started"]
        /\ host' = n /\ refCounter' = refCounter + 1
        /\ UNCHANGED <<checkVars, status>>
    BY <1>2 DEF LimiterStart
  <2>2. LimiterTypeOK'
    BY <2>1
  <2>3. HostIsStarted' /\ StatusFollowsStart'
    BY <2>1 DEF HostIsStarted, StatusFollowsStart, Serving
  <2>4. StatusTells'
    BY <1>a, <2>1 DEF StatusTells, StatusFollowsStart, Serving
  <2> QED
    BY <1>0, <2>1, <2>2, <2>3, <2>4
<1>3. CASE LimiterStarted(n)
  <2>1. /\ lpc[n] = "started"
        /\ lpc' = [lpc EXCEPT ![n] = "up"]
        /\ UNCHANGED <<host, refCounter, checkVars>>
        /\ status' = [status EXCEPT ![n] = IF status[n] = "Starting" THEN "OK" ELSE status[n]]
    <3>1. ReportOKIfStarting(status[n]) = IF status[n] = "Starting" THEN "OK" ELSE status[n]
      BY DEF ReportOKIfStarting, ReportStatus, Transitions
    <3> QED
      BY ZenonT(30), <1>3, <3>1 DEF LimiterStarted
  <2>2. LimiterTypeOK'
    BY <2>1 DEF Status
  <2>3. HostIsStarted' /\ StatusFollowsStart'
    BY <2>1 DEF HostIsStarted, StatusFollowsStart, Serving
  <2>4. StatusTells'
    BY <1>a, <2>1 DEF StatusTells, Serving
  <2> QED
    BY <1>0, <2>1, <2>2, <2>3, <2>4
<1>4. CASE LimiterStopping(n)
  <2>1. /\ lpc' = [lpc EXCEPT ![n] = "stopping"]
        /\ UNCHANGED <<host, refCounter, checkVars>>
        /\ status' = [status EXCEPT ![n] = ReportStatus(status[n], "Stopping")]
    BY <1>4 DEF LimiterStopping
  <2>2. ReportStatus(status[n], "Stopping") \in Status
    BY ReportIsStatus DEF Status
  <2>3. LimiterTypeOK'
    BY <2>1, <2>2
  <2>4. HostIsStarted' /\ StatusFollowsStart' /\ ~Serving'
    BY <2>1 DEF HostIsStarted, StatusFollowsStart, Serving
  <2> QED
    BY <1>0, <2>1, <2>3, <2>4 DEF StatusTells
<1>5. CASE LimiterShutdown(n)
  <2>1. /\ lpc' = [lpc EXCEPT ![n] = "stopped"]
        /\ refCounter' = Longer(refCounter - 1, 0)
        /\ UNCHANGED <<host, checkVars, status>>
        /\ refCounter = 1 => tpc = "wait"
    BY <1>5 DEF LimiterShutdown
  <2>2. /\ refCounter' \in Nat /\ (refCounter' > 0 => refCounter > 0)
        /\ refCounter > 0 /\ refCounter # 1 => refCounter' > 0
    BY <2>1 DEF Longer
  <2>3. LimiterTypeOK'
    BY <2>1, <2>2
  <2>4. HostIsStarted' /\ StatusFollowsStart' /\ ~Serving'
    BY <2>1, <2>2 DEF HostIsStarted, StatusFollowsStart, Serving
  <2> QED
    BY <1>0, <2>1, <2>3, <2>4 DEF StatusTells
<1>6. CASE LimiterStopped(n)
  <2>1. /\ lpc' = [lpc EXCEPT ![n] = "down"]
        /\ UNCHANGED <<host, refCounter, checkVars>>
        /\ status' = [status EXCEPT ![n] = ReportStatus(status[n], "Stopped")]
    BY <1>6 DEF LimiterStopped
  <2>2. ReportStatus(status[n], "Stopped") \in Status
    BY ReportIsStatus DEF Status
  <2>3. LimiterTypeOK'
    BY <2>1, <2>2
  <2>4. HostIsStarted' /\ StatusFollowsStart' /\ ~Serving'
    BY <2>1 DEF HostIsStarted, StatusFollowsStart, Serving
  <2> QED
    BY <1>0, <2>1, <2>3, <2>4 DEF StatusTells
<1> QED
  BY <1>1, <1>2, <1>3, <1>4, <1>5, <1>6 DEF StartStep, StopStep

\* The limiter's invariant holds at first.
LEMMA LimiterInitHolds == LimiterInit => LimiterInv
<1> SUFFICES ASSUME LimiterInit PROVE LimiterInv
  OBVIOUS
<1>1. LimiterTypeOK
  BY ZenonT(30) DEF LimiterInit, LimiterTypeOK, NoInterval, Status
<1>2. HostIsStarted /\ StatusFollowsStart /\ StatusTells
  BY LimiterConstants DEF LimiterInit, HostIsStarted, StatusFollowsStart, StatusTells, Told
<1>3. interval.hard <= HardCap
  BY ConfigIsValid DEF LimiterInit, NoInterval, HardCap, Longer
<1> QED
  BY <1>1, <1>2, <1>3 DEF LimiterInv

\* No step of the limiter or of the service breaks the invariant.
LEMMA LimiterKeeps ==
  ASSUME LimiterInv, [LimiterNext]_limiterVars
  PROVE  LimiterInv'
<1>1. CASE LimiterLoop
  BY <1>1, CheckKeeps, ReadHostKeeps, ReportKeeps, StoreKeeps DEF LimiterLoop
<1>2. CASE \E n \in Limiters : StartStep(n) \/ StopStep(n)
  BY <1>2, ServiceKeeps
<1>3. CASE UNCHANGED limiterVars
  BY <1>3 DEF limiterVars, checkVars, readVars, LimiterInv, LimiterTypeOK, HostIsStarted, StatusFollowsStart,
              StatusTells, Told, Serving, HardCap, Longer
<1> QED
  BY <1>1, <1>2, <1>3 DEF LimiterNext

\* The limiter's invariant holds always.
LEMMA InvariantHolds == LimiterSpec => []LimiterInv
<1>1. LimiterInv /\ [LimiterNext]_limiterVars => LimiterInv'
  BY LimiterKeeps
<1> QED
  BY <1>1, LimiterInitHolds, PTL DEF LimiterSpec

\* Data is never refused (MustRefuse) before a status says so, and the limiter takes
\* the status back before it accepts data again: for every configuration and all
\* readings, whatever the service and the processors do between the reading of the
\* memory, the report and the moment when the decision takes effect.
THEOREM RefusalReported == LimiterSpec => []RefusalIsReported
<1>1. LimiterInv => RefusalIsReported
  BY DEF LimiterInv, LimiterTypeOK, StatusTells, Told, RefusalIsReported, Announced
<1> QED
  BY <1>1, InvariantHolds, PTL

\* No series of useless collections keeps CheckMemLimits from forcing another one
\* for longer than the hard limit's longest interval.
THEOREM BackoffCapped == LimiterSpec => BackoffIsCapped
<1> DEFINE Capped ==
      \A alloc \in Readings : \A since \in Elapsed :
        AboveHardLimit(alloc) /\ since > Longer(MinHard, MaxHard) /\ ~GCDisabled
          => ~LimitedWithoutGC(alloc, since)
<1>1. LimiterInv => Capped
  <2> SUFFICES ASSUME LimiterInv, NEW alloc \in Readings, NEW since \in Elapsed,
                      AboveHardLimit(alloc), since > HardCap, ~GCDisabled,
                      LimitedWithoutGC(alloc, since)
               PROVE  FALSE
    BY DEF HardCap
  <2>1. /\ alloc \in Nat /\ lastAlloc \in Nat /\ since \in Nat /\ HardCap \in Nat
        /\ interval \in [soft : Nat, hard : Nat] /\ interval.hard <= HardCap
    BY LimiterConstants, NumbersAreNatural DEF LimiterInv, LimiterTypeOK
  <2>2. interval' = CheckLimitAndBackoff(interval, lastAlloc, alloc, FALSE)
    BY DEF LimitedWithoutGC
  <2>3. interval'.hard <= HardCap /\ interval'.hard \in Nat
    BY ZenonT(30), <2>1, <2>2, IntervalIsCapped, NumbersAreNatural DEF LimiterInv
  <2>4. since <= Longer(MinHard, interval'.hard)
    BY ZenonT(30) DEF LimitedWithoutGC, Gate
  <2>5. Longer(MinHard, interval'.hard) <= HardCap
    BY <2>3, ConfigIsValid DEF Longer, HardCap
  <2> QED
    BY <2>1, <2>3, <2>4, <2>5, ConfigIsValid DEF Longer
<1>2. LimiterInv /\ [LimiterNext]_limiterVars => [Capped]_limiterVars
  BY <1>1
<1> QED
  BY <1>2, InvariantHolds, PTL DEF LimiterSpec, BackoffIsCapped

(***************************************************************************)
(* The pipeline as a whole.  Every step of it is a step of the data flow   *)
(* or leaves the data alone, and likewise for the limiter.                 *)
(***************************************************************************)
\* A step of the pipeline is a step of the data flow or leaves it alone.
LEMMA FlowOrNothing == [Next]_vars => [FlowNext]_flowVars
BY ZenonT(30) DEF Next, vars, Scraping, FlowStep, Ticking, Keeping, Limit, StartLimiter, StartReceiver, StopReceiver,
       ReceiverStopped, StopLimiter, FlowNext

\* A step of the pipeline is a step of the limiter or leaves it alone.
LEMMA LimiterOrNothing ==
  ASSUME FlowTypeOK, [Next]_vars
  PROVE  [LimiterNext]_limiterVars
<1>1. Limiting \subseteq Limiters
  BY LimitersAssumption DEF Limiting, Node, FlowTypeOK
<1>2. CASE Limit \/ StartLimiter \/ StopLimiter
  BY <1>1, <1>2 DEF Limit, StartLimiter, StopLimiter, LimiterNext
<1>3. CASE \/ Scraping \/ Ticking \/ Keeping \/ StartReceiver \/ StopReceiver \/ ReceiverStopped
           \/ UNCHANGED vars
  BY <1>3 DEF Scraping, Ticking, Keeping, StartReceiver, StopReceiver, ReceiverStopped, vars
<1> QED
  BY <1>2, <1>3 DEF Next

\* The data flow's invariant holds in the pipeline.
LEMMA PipelineFlows == Spec => []FlowInv
<1>1. Init => FlowInv
  BY FlowInitHolds DEF Init
<1>2. FlowInv /\ [Next]_vars => FlowInv'
  BY FlowOrNothing, FlowKeeps
<1> QED
  BY <1>1, <1>2, PTL DEF Spec

\* Whatever the graph and the declarations of its components: no component changes
\* data that is read-only or that somebody else still uses (internal/fanoutconsumer,
\* the capabilities of service/internal/graph).
THEOREM WritersAreAlone == Spec => []WriterIsAlone
BY PipelineFlows, WriterFollows, PTL

\* Whatever the graph and the order of work: a component finds the changes of the
\* components on its way, and those of no others.
THEOREM ChangesAreOwn == Spec => []OwnChangesOnly
BY PipelineFlows, ChangesFollow, PTL

\* Whatever the graph, as long as every fan-out with several read-only consumers is
\* called by a component where pooling is enabled: no data is deleted while a component
\* uses it, and no reference is dropped twice (refconsumer, pdata's Ref and Unref).
THEOREM DataStaysAlive == PoolingSheltered => (Spec => []UsedIsAlive)
<1> SUFFICES ASSUME PoolingSheltered PROVE Spec => []UsedIsAlive
  OBVIOUS
<1>1. Init => CountInv /\ PoolInv
  BY PoolInitHolds DEF Init
<1>2. FlowInv /\ CountInv /\ PoolInv /\ [Next]_vars => CountInv' /\ PoolInv'
  BY FlowOrNothing, PoolKeeps
<1>3. FlowInv /\ CountInv /\ PoolInv => UsedIsAlive
  BY AliveFollows
<1> QED
  BY <1>1, <1>2, <1>3, PipelineFlows, PTL DEF Spec

\* In the pipeline, too, the limiter is started, ticks and stops as it does alone.
LEMMA PipelineLimits == Spec => LimiterSpec
<1>1. Init => LimiterInit
  BY DEF Init
<1>2. FlowInv /\ [Next]_vars => [LimiterNext]_limiterVars
  BY LimiterOrNothing DEF FlowInv
<1> QED
  BY <1>1, <1>2, PipelineFlows, PTL DEF Spec, LimiterSpec

\* So its status tells what it does while the data flows.
THEOREM PipelineRefusalReported == Spec => []RefusalIsReported
BY PipelineLimits, RefusalReported

(***************************************************************************)
(* The order of starting and stopping.  A consumer is called only while    *)
(* the goroutine is in its call of nextConsumer, the goroutine runs only   *)
(* between StartScraping and the end of Shutdown's wait, and for that long *)
(* no limiter is started or stopped.                                       *)
(***************************************************************************)
Active == {"delay", "scraping", "consuming", "select"}

OrderInv ==
  /\ spc \in Active \union {"none", "exited"}
  /\ cpc \in {"new", "starting", "failed"} => spc = "none"
  /\ cpc = "stopped" => spc \notin Active
  /\ \A i \in DOMAIN scrapers : scrapers[i] = "stopped" => cpc = "stopped"
  /\ stack # <<>> => spc = "consuming"
  /\ spc \in Active => \A n \in Limiting : lpc[n] = "up"

\* No step of the pipeline breaks the order of starting and stopping.
LEMMA OrderKept ==
  ASSUME OrderInv, FlowInv, [Next]_vars
  PROVE  OrderInv'
<1>0. /\ Limiting' = Limiting
      /\ Limiting \subseteq Limiters
  <2>1. config' = config
    BY FlowOrNothing, ZenonT(30) DEF FlowNext, flowVars, Receive, FanOutMutable, FanOutReadOnly, Process, Drop, Export,
                         Keep, Return, Modify, Release
  <2> QED
    BY <2>1, LimitersAssumption DEF Limiting, Node, FlowInv, FlowTypeOK
<1>1. CASE (DelayOver \/ Scrape \/ Await \/ Tick) /\ UNCHANGED <<flowVars, limiterVars>>
  BY <1>0, <1>1 DEF OrderInv, Active, DelayOver, Scrape, Await, Tick, flowVars, limiterVars
<1>2. CASE ConsumeScraped /\ Receive /\ UNCHANGED limiterVars
  BY <1>0, <1>2 DEF OrderInv, Active, ConsumeScraped, limiterVars
<1>3. CASE (FlowStep \/ Keeping) /\ UNCHANGED <<scraperVars, limiterVars>>
  <2>1. stack' # <<>> => stack # <<>>
    BY <1>3, ZenonT(30) DEF FlowStep, FanOutMutable, FanOutReadOnly, Process, Drop, Export, Keep, Return,
                Keeping, Modify, Release
  <2> QED
    BY <1>0, <1>3, <2>1 DEF OrderInv, Active, scraperVars, limiterVars
<1>4. CASE Consumed /\ stack = <<>> /\ UNCHANGED <<flowVars, limiterVars>>
  BY <1>0, <1>4 DEF OrderInv, Active, Consumed, flowVars, limiterVars
<1>5. CASE StartReceiver
  BY <1>0, <1>5 DEF OrderInv, Active, StartReceiver, StartScraper, StartScraping, flowVars, limiterVars
<1>6. CASE StopReceiver \/ ReceiverStopped
  BY <1>0, <1>6 DEF OrderInv, Active, StopReceiver, ReceiverStopped, StopScraping, StopScrapers,
                    flowVars, limiterVars
<1>7. CASE StartLimiter \/ StopLimiter
  <2>1. spc \notin Active /\ UNCHANGED <<flowVars, scraperVars>>
    BY <1>7 DEF StartLimiter, StopLimiter, OrderInv, Active
  <2> QED
    BY <1>0, <2>1, ZenonT(30) DEF OrderInv, flowVars, scraperVars
<1>8. CASE Limit \/ UNCHANGED vars
  <2>1. UNCHANGED <<flowVars, scraperVars, lpc>>
    BY <1>8 DEF Limit, LimiterLoop, CheckMemLimits, ReadHost, ReportDecision, StoreDecision, vars, limiterVars
  <2> QED
    BY <1>0, <2>1 DEF OrderInv, flowVars, scraperVars
<1> QED
  BY <1>1, <1>2, <1>3, <1>4, <1>5, <1>6, <1>7, <1>8 DEF Next, Scraping, Ticking, Keeping

\* A scraper is not called after it was shut down, a consumer not after the receiver's
\* Shutdown has returned, a memory limiter only while it is up (Controller.Shutdown,
\* memorylimiter.Start and Shutdown, the order of service/internal/graph).
THEOREM OrderlyStop == Spec => []StoppedInOrder
<1>1. Init => OrderInv
  BY DEF Init, ScraperInit, FlowInit, OrderInv, Active
<1>2. FlowInv /\ OrderInv => StoppedInOrder
  <2> SUFFICES ASSUME FlowInv, OrderInv PROVE StoppedInOrder
    OBVIOUS
  <2>1. \A i \in DOMAIN stack : stack # <<>> /\ stack[i].node \in DOMAIN config.nodes
    BY DEF FlowInv, CallsInOrder
  <2> QED
    BY <2>1 DEF OrderInv, StoppedInOrder, Active, Limiting
<1>3. FlowInv /\ OrderInv /\ [Next]_vars => OrderInv'
  BY OrderKept
<1> QED
  BY <1>1, <1>2, <1>3, PipelineFlows, PTL DEF Spec
============================================================================
