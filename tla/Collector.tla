----------------------------- MODULE Collector -----------------------------
(***************************************************************************)
(* Collector.Run (otelcol/collector.go) and the service it builds, starts, *)
(* reloads and shuts down (service/service.go, service/extensions,         *)
(* service/internal/graph).                                                *)
(*                                                                         *)
(* One goroutine executes Run; pc is its position.  Around it run the      *)
(* configuration provider, the callers of Shutdown, the operating system's *)
(* signals, and the goroutines of components that report a fatal error.    *)
(***************************************************************************)
EXTENDS PipelineGraph, ComponentStatus

CONSTANTS
  Configs,        \* what the configuration source may hold
  InitialConfigs, \* what it may hold at first
  Dependencies,   \* <<extension, extension it depends on>>
  SharedIds,      \* receivers built on internal/sharedcomponent
  SignalsCap,     \* the capacity of signalsChannel
  NoNode,         \* no component is being started or stopped
  MaxChanges, MaxSignals, MaxFaults  \* bounds of the environment

VARIABLES
  pc, ret,     \* Run's position; what the service's shutdown returns to
  todo, at,    \* the nodes a loop has yet to visit; the one it is at, with the outcome
  errs,        \* the shutdown under way has met an error
  state,       \* Collector.state
  cfg,         \* the configuration resolved last
  applied,     \* currentFingerprint: the configuration applied last
  edges,       \* componentGraph
  extOrder,    \* the extensions in their start order
  life,        \* of each component of the service: unbuilt, built, running, stopped
  built,       \* of each receiver: the version of its settings and the resolution they came from
  dead,        \* the shared components that were shut down
  status,      \* fsmMap: the reported status of each component
  fatal,       \* the goroutine that reports a fatal error: the nodes left, the one being sent
  latest, gen, \* what the source holds; how often it was resolved
  notify, ch,  \* provider goroutines inside onChange; the watcher channel
  providerUp,  \* the providers have not been shut down
  signals, listening,   \* signalsChannel; signal.Notify was called
  shutdownChan, ctxDone, \* closed; cancelled
  changes, sent, faults  \* counters for the bounds

service == <<edges, extOrder, life, built, dead, status>>
loop == <<todo, at, errs, ret>>
source == <<latest, notify, ch, providerUp, changes>>
requests == <<signals, listening, shutdownChan, ctxDone, sent>>
config == <<cfg, applied, gen>>
vars == <<pc, loop, state, config, service, source, requests, fatal, faults>>

Telemetry == <<"telemetry">>
Quiet == [todo |-> {}, sending |-> NoNode]
MuFree == fatal.sending = NoNode

Init ==
  /\ pc = "new" /\ ret = "none" /\ todo = {} /\ at = NoNode /\ errs = FALSE
  /\ state = "Starting"
  /\ latest \in InitialConfigs
  /\ cfg = latest /\ applied = latest /\ gen = 0
  /\ edges = {} /\ extOrder = <<>> /\ life = <<>> /\ built = <<>> /\ dead = {}
  /\ status = <<>>
  /\ fatal = Quiet
  /\ notify = 0 /\ ch = <<>> /\ providerUp = TRUE /\ changes = 0
  /\ signals = <<>> /\ listening = FALSE /\ shutdownChan = FALSE /\ ctxDone = FALSE
  /\ sent = 0 /\ faults = 0

(***************************************************************************)
(* Components.                                                             *)
(***************************************************************************)
Running == {n \in DOMAIN life : life[n] = "running"}
Extensions == {n \in DOMAIN life : n[1] = "extension"}
Components == DOMAIN life \ (Extensions \cup {Telemetry})

\* The component behind a node.  A shared receiver has one for all its
\* signals, found by the settings object it was built from.
Instance(n) ==
  IF IsReceiver(n)
    THEN <<IF n[3] \in SharedIds THEN <<"shared", n[3]>> ELSE n, built[n].gen>>
    ELSE <<n, 0>>

Sharing(n) == {m \in DOMAIN life : life[m] # "unbuilt" /\ Instance(m) = Instance(n)}

\* A goroutine of the component behind n is inside Report.
Reporting(n) == fatal.todo \cap Sharing(n) # {}

Fault == faults < MaxFaults /\ faults' = faults + 1

(***************************************************************************)
(* Run: return at once if Shutdown came first, else set up.                *)
(***************************************************************************)
RunAfterShutdown ==
  /\ pc = "new" /\ shutdownChan
  /\ notify = 0
  /\ pc' = "returned" /\ state' = "Closed" /\ providerUp' = FALSE
  /\ UNCHANGED <<loop, config, service, latest, notify, ch, changes, requests, fatal, faults>>

Run ==
  /\ pc = "new" /\ ~shutdownChan
  /\ pc' = "setup"
  /\ UNCHANGED <<loop, state, config, service, source, requests, fatal, faults>>

(***************************************************************************)
(* setupConfigurationComponents and service.New: resolve and validate,     *)
(* create the telemetry, then the graph and the extensions.  When it fails *)
(* Run returns; only the first time does it set the state.                 *)
(***************************************************************************)
SetupFails ==
  /\ pc' = "returned"
  /\ state' = IF listening THEN "Starting" ELSE "Closed"

Resolve ==
  /\ pc = "setup"
  /\ cfg' = latest /\ gen' = gen + 1
  /\ \/ /\ latest.valid
        /\ pc' = "build" /\ state' = "Starting"
        /\ edges' = {} /\ extOrder' = <<>> /\ built' = <<>> /\ dead' = {}
        /\ life' = Telemetry :> "running" /\ status' = <<>>
        /\ UNCHANGED faults
     \/ ~latest.valid /\ SetupFails /\ UNCHANGED <<service, faults>>
     \/ Fault /\ SetupFails /\ UNCHANGED service
  /\ UNCHANGED <<loop, applied, source, requests, fatal>>

\* computeOrder: dependencies first.
StartOrders(exts) ==
  {s \in SetToSeqs(exts) : \A i, j \in DOMAIN s : <<s[i], s[j]>> \in Dependencies => j < i}

Buildable(c) ==
  /\ ConnectorsMatch(c) /\ Acyclic(c)
  /\ StartOrders(c.extensions) # {}
  /\ \A d \in Dependencies : d[1] \in c.extensions => d[2] \in c.extensions

Build ==
  /\ pc = "build"
  /\ LET comps == {n \in Nodes(cfg) : IsComponent(n)}
         exts == {Extension(x) : x \in cfg.extensions}
     IN \/ /\ Buildable(cfg)
           /\ edges' = Edges(cfg)
           /\ \E s \in StartOrders(cfg.extensions) :
                extOrder' = [i \in DOMAIN s |-> Extension(s[i])]
           /\ life' = [n \in comps \cup exts |-> "built"] @@ life
           /\ status' = [n \in comps \cup exts |-> "None"]
           /\ built' = [n \in {n \in comps : IsReceiver(n)} |->
                          [version |-> cfg.receivers[n[3]], gen |-> gen]]
           /\ pc' = "extStart" /\ todo' = exts
           /\ UNCHANGED <<state, dead, faults>>
        \/ /\ (~Buildable(cfg) /\ UNCHANGED faults) \/ Fault
           /\ SetupFails
           /\ life' = [life EXCEPT ![Telemetry] = "stopped"]
           /\ UNCHANGED <<edges, extOrder, built, dead, status, todo>>
  /\ UNCHANGED <<at, errs, ret, config, source, requests, fatal>>

(***************************************************************************)
(* Service.Start: the extensions in their order, then the components, each *)
(* after those it sends to and the receivers last.  The loop of a partial  *)
(* reload over its receivers has no order.                                 *)
(***************************************************************************)
Position(n) == CHOOSE i \in DOMAIN extOrder : extOrder[i] = n

\* MayStart with the topological order reversed.
MayStartUpstreamFirst(n) ==
  \/ pc = "extStart" /\ \A m \in todo : Position(n) <= Position(m)
  \/ pc = "start" /\ \A m \in todo : n \notin Downstream(edges, m)
  \/ pc = "upStart"

MayStart(n) ==
  \/ pc = "extStart" /\ \A m \in todo : Position(n) <= Position(m)
  \/ /\ pc = "start"
     /\ Downstream(edges, n) \cap todo = {}
     /\ IsReceiver(n) => \A m \in todo : IsReceiver(m)
  \/ pc = "upStart"

\* Report Starting and call Start.  The Start of a shared component waits for
\* the lock its Report holds.
StartComponent(n) ==
  /\ n \in todo /\ at = NoNode /\ MayStart(n) /\ MuFree /\ ~Reporting(n)
  /\ status' = [status EXCEPT ![n] = ReportStatus(@, "Starting")]
  /\ \/ /\ at' = <<n, "ok">> /\ life' = [life EXCEPT ![n] = "running"]
        /\ UNCHANGED faults
     \/ at' = <<n, "failed">> /\ Fault /\ UNCHANGED life
  /\ UNCHANGED <<pc, todo, errs, ret, state, config, edges, extOrder, built, dead,
                 source, requests, fatal>>

\* Start has returned: report OK and go on, or report the error and give up.
Started ==
  /\ pc \in {"extStart", "start", "upStart"} /\ at # NoNode /\ MuFree
  /\ LET n == at[1] IN
     \/ /\ at[2] = "ok"
        /\ status' = [status EXCEPT ![n] = ReportOKIfStarting(@)]
        /\ todo' = todo \ {n}
        /\ UNCHANGED <<pc, ret>>
     \/ /\ at[2] = "failed"
        /\ status' = [status EXCEPT ![n] = ReportStatus(@, "PermanentError")]
        /\ todo' = {}
        /\ IF pc = "upStart" THEN pc' = "retire" /\ UNCHANGED ret
                             ELSE pc' = "shutdown" /\ ret' = "fail"
  /\ at' = NoNode
  /\ UNCHANGED <<errs, state, config, edges, extOrder, life, built, dead,
                 source, requests, fatal, faults>>

\* NotifyConfigSnapshot after the extensions, NotifyPipelineReady after the
\* components; an extension may refuse either.
StartPhaseDone ==
  /\ pc \in {"extStart", "start"} /\ at = NoNode /\ todo = {}
  /\ \/ /\ pc = "extStart" /\ pc' = "start" /\ todo' = Components
        /\ UNCHANGED <<ret, state, applied, listening, faults>>
     \/ /\ pc = "start" /\ pc' = "select"
        /\ applied' = cfg /\ state' = "Running" /\ listening' = TRUE
        /\ UNCHANGED <<ret, todo, faults>>
     \/ /\ Fault /\ pc' = "shutdown" /\ ret' = "fail"
        /\ UNCHANGED <<todo, state, applied, listening>>
  /\ UNCHANGED <<at, errs, cfg, gen, service, source, signals, shutdownChan, ctxDone, sent, fatal>>

(***************************************************************************)
(* Service.Shutdown: the components, each before those it sends to, the    *)
(* extensions in reverse order, the telemetry.  An error is remembered and *)
(* the loop goes on, except in a partial reload.                           *)
(***************************************************************************)
Shutdown ==
  /\ pc = "shutdown"
  /\ pc' = "stop" /\ todo' = {n \in Components : life[n] # "unbuilt"}
  /\ \/ errs' = FALSE /\ UNCHANGED faults
     \/ errs' = TRUE /\ Fault
  /\ UNCHANGED <<at, ret, state, config, service, source, requests, fatal>>

MayStop(n) ==
  \/ pc = "stop" /\ \A m \in todo : n \notin Downstream(edges, m)
  \/ pc = "extStop" /\ \A m \in todo : Position(n) >= Position(m)
  \/ /\ pc = "upStop"
     /\ n \notin ToRemove(edges, cfg) => todo \cap ToRemove(edges, cfg) = {}

\* Report Stopping and call Shutdown, which waits for the component's goroutines.
StopComponent(n) ==
  /\ n \in todo /\ at = NoNode /\ MayStop(n) /\ MuFree /\ ~Reporting(n)
  /\ status' = [status EXCEPT ![n] = ReportStatus(@, "Stopping")]
  /\ life' = [life EXCEPT ![n] = "stopped"]
  /\ dead' = dead \cup {Instance(n)}
  /\ \/ at' = <<n, "ok">> /\ UNCHANGED faults
     \/ at' = <<n, "failed">> /\ Fault
  /\ UNCHANGED <<pc, todo, errs, ret, state, config, edges, extOrder, built,
                 source, requests, fatal>>

Stopped ==
  /\ pc \in {"stop", "extStop", "upStop"} /\ at # NoNode /\ MuFree
  /\ LET n == at[1]
         ok == at[2] = "ok"
     IN /\ status' = [status EXCEPT ![n] = ReportStatus(@, IF ok THEN "Stopped" ELSE "PermanentError")]
        /\ IF pc = "upStop" /\ ~ok
             THEN pc' = "retire" /\ todo' = {} /\ UNCHANGED errs
             ELSE todo' = todo \ {n} /\ errs' = (errs \/ ~ok) /\ UNCHANGED pc
  /\ at' = NoNode
  /\ UNCHANGED <<ret, state, config, edges, extOrder, life, built, dead,
                 source, requests, fatal, faults>>

ComponentsStopped ==
  /\ pc = "stop" /\ at = NoNode /\ todo = {}
  /\ pc' = "extStop" /\ todo' = Extensions
  /\ UNCHANGED <<at, errs, ret, state, config, service, source, requests, fatal, faults>>

\* Shut the telemetry down and return to the caller.
ShutdownReturns ==
  /\ pc = "extStop" /\ at = NoNode /\ todo = {}
  /\ life' = [life EXCEPT ![Telemetry] = "stopped"]
  /\ \/ errs' = errs /\ UNCHANGED faults
     \/ errs' = TRUE /\ Fault
  /\ \/ ret = "fail" /\ SetupFails
     \/ ret = "reload" /\ errs' /\ pc' = "returned" /\ UNCHANGED state
     \/ ret = "reload" /\ ~errs' /\ pc' = "setup" /\ UNCHANGED state
     \/ ret = "final" /\ pc' = "returned" /\ state' = "Closed"
  /\ UNCHANGED <<todo, at, ret, config, edges, extOrder, built, dead, status,
                 source, requests, fatal>>

(***************************************************************************)
(* The control loop: select takes any case that is ready.                  *)
(***************************************************************************)
BreakLoop == pc' = "provider" /\ state' = "Closing"
Reload == pc' = "reload" /\ UNCHANGED state

SelectWatch ==
  /\ pc = "select" /\ ch # <<>>
  /\ ch' = Tail(ch)
  /\ IF Head(ch) = "changed" THEN Reload ELSE BreakLoop
  /\ UNCHANGED <<loop, config, service, latest, notify, providerUp, changes,
                 requests, fatal, faults>>

SelectFatal ==
  /\ pc = "select" /\ ~MuFree
  /\ fatal' = [todo |-> fatal.todo \ {fatal.sending}, sending |-> NoNode]
  /\ BreakLoop
  /\ UNCHANGED <<loop, config, service, source, requests, faults>>

SelectSignal ==
  /\ pc = "select" /\ signals # <<>>
  /\ signals' = Tail(signals)
  /\ IF Head(signals) = "hup" THEN Reload ELSE BreakLoop
  /\ UNCHANGED <<loop, config, service, source, listening, shutdownChan, ctxDone, sent,
                 fatal, faults>>

\* SelectStop without the case of the cancelled context.
SelectStopIgnoresContext ==
  /\ pc = "select" /\ shutdownChan
  /\ BreakLoop
  /\ UNCHANGED <<loop, config, service, source, requests, fatal, faults>>

SelectStop ==
  /\ pc = "select" /\ (shutdownChan \/ ctxDone)
  /\ BreakLoop
  /\ UNCHANGED <<loop, config, service, source, requests, fatal, faults>>

\* shutdown: the providers first.  They wait for their goroutines inside onChange.
ProviderShutdown ==
  /\ pc = "provider" /\ notify = 0
  /\ providerUp' = FALSE
  /\ pc' = "shutdown" /\ ret' = "final"
  /\ UNCHANGED <<todo, at, errs, state, config, service, latest, notify, ch, changes,
                 requests, fatal, faults>>

(***************************************************************************)
(* reloadConfiguration.  tryPartialReceiverReload resolves the             *)
(* configuration; when it cannot use it, a full reload resolves it again.  *)
(* (The feature gates of the partial reload are on: with them off, every   *)
(* reload is a full one.)                                                  *)
(***************************************************************************)
Rebuilt(c) == ToRebuild(edges, ChangedReceivers(applied, c), c)

TryPartialReload ==
  /\ pc = "reload"
  /\ gen' = gen + 1 /\ cfg' = latest
  /\ \/ /\ latest.valid /\ ReceiversOnlyChanged(applied, latest)
        /\ todo' = ToRemove(edges, latest) \cup Rebuilt(latest)
        /\ IF todo' \cup ToAdd(edges, latest) = {} THEN pc' = "select" /\ applied' = latest
                            ELSE pc' = "upStop" /\ UNCHANGED applied
        /\ UNCHANGED faults
     \/ /\ \/ ~(latest.valid /\ ReceiversOnlyChanged(applied, latest)) /\ UNCHANGED faults
           \/ Fault
        /\ pc' = "retire" /\ UNCHANGED <<todo, applied>>
  /\ UNCHANGED <<at, errs, ret, state, service, source, requests, fatal>>

\* Retire without the shutdown of the service it replaces.
RetireAtOnce ==
  /\ pc = "retire"
  /\ pc' = "setup" /\ state' = "Closing"
  /\ UNCHANGED <<loop, config, service, source, requests, fatal, faults>>

Retire ==
  /\ pc = "retire"
  /\ pc' = "shutdown" /\ ret' = "reload" /\ state' = "Closing"
  /\ UNCHANGED <<todo, at, errs, config, service, source, requests, fatal, faults>>

(***************************************************************************)
(* UpdateReceivers, phases 5 to 8: take the removed and the rebuilt nodes  *)
(* out of the graph, put the rebuilt and the added ones in, and build      *)
(* their components until one fails.                                       *)
(***************************************************************************)
RebuildReceivers ==
  /\ pc = "upStop" /\ at = NoNode /\ todo = {}
  /\ LET gone == ToRemove(edges, cfg)
         fresh == Rebuilt(cfg) \cup ToAdd(edges, cfg)
         kept == DOMAIN life \ (gone \cup fresh)
     IN /\ edges' = {e \in edges : e[1] \notin gone \cup fresh}
                      \cup {e \in Desired(cfg) : e[1] \in fresh}
        /\ status' = [n \in (DOMAIN status \ gone) \cup fresh |->
                        IF n \in fresh THEN "None" ELSE status[n]]
        /\ \E made \in SUBSET fresh :
             /\ \/ made = fresh /\ pc' = "upStart" /\ todo' = fresh /\ UNCHANGED faults
                \/ made # fresh /\ pc' = "retire" /\ todo' = {} /\ Fault
             /\ life' = [n \in kept \cup fresh |->
                           IF n \in kept THEN life[n] ELSE IF n \in made THEN "built" ELSE "unbuilt"]
             /\ built' = [n \in {n \in kept : IsReceiver(n)} \cup made |->
                            IF n \in made THEN [version |-> cfg.receivers[n[3]], gen |-> gen]
                                          ELSE built[n]]
  /\ UNCHANGED <<at, errs, ret, state, config, extOrder, dead, source, requests, fatal>>

\* ReceiversUpdated that does not keep the new configuration for the next diff.
ReceiversUpdatedKeepsOldConfig ==
  /\ pc = "upStart" /\ at = NoNode /\ todo = {}
  /\ pc' = "select"
  /\ UNCHANGED <<loop, state, config, service, source, requests, fatal, faults>>

ReceiversUpdated ==
  /\ pc = "upStart" /\ at = NoNode /\ todo = {}
  /\ applied' = cfg /\ pc' = "select"
  /\ UNCHANGED <<loop, state, cfg, gen, service, source, requests, fatal, faults>>

(***************************************************************************)
(* A component meets a fatal error and reports it for each node it serves. *)
(* The reporter's mutex is held until Run receives from the unbuffered     *)
(* asyncErrorChannel (Host.NotifyComponentStatusChange).                   *)
(***************************************************************************)
MeetFatalError(n) ==
  /\ Fault /\ n \in Running \ {Telemetry} /\ Instance(n) \notin dead
  /\ fatal = Quiet
  /\ fatal' = [todo |-> Sharing(n) \cap Running, sending |-> NoNode]
  /\ UNCHANGED <<pc, loop, state, config, service, source, requests>>

ReportFatal(n) ==
  /\ n \in fatal.todo /\ MuFree
  /\ status' = [status EXCEPT ![n] = ReportStatus(@, "FatalError")]
  /\ fatal' = IF "FatalError" \in Transitions[status[n]]
                THEN [fatal EXCEPT !.sending = n]
                ELSE [fatal EXCEPT !.todo = @ \ {n}]
  /\ UNCHANGED <<pc, loop, state, config, edges, extOrder, life, built, dead,
                 source, requests, faults>>

(***************************************************************************)
(* The environment.                                                        *)
(***************************************************************************)
ChangeConfig ==
  /\ changes < MaxChanges /\ providerUp
  /\ latest' \in Configs \ {latest}
  /\ changes' = changes + 1
  /\ notify' = IF gen > 0 THEN notify + 1 ELSE notify
  /\ UNCHANGED <<pc, loop, state, config, service, ch, providerUp, requests, fatal, faults>>

WatchFails ==
  /\ Fault /\ providerUp /\ gen > 0 /\ ch = <<>>
  /\ ch' = <<"error">>
  /\ UNCHANGED <<pc, loop, state, config, service, latest, notify, providerUp, changes, requests, fatal>>

OnChange ==
  /\ notify > 0 /\ ch = <<>>
  /\ ch' = <<"changed">> /\ notify' = notify - 1
  /\ UNCHANGED <<pc, loop, state, config, service, latest, providerUp, changes, requests, fatal, faults>>

Signalled ==
  /\ sent < MaxSignals /\ listening /\ pc # "returned"
  /\ sent' = sent + 1
  /\ \E s \in {"hup", "term"} :
       signals' = IF Len(signals) < SignalsCap THEN Append(signals, s) ELSE signals
  /\ UNCHANGED <<pc, loop, state, config, service, source, listening, shutdownChan, ctxDone, fatal, faults>>

RequestShutdown ==
  /\ ~shutdownChan /\ ~ctxDone /\ shutdownChan' = TRUE
  /\ UNCHANGED <<pc, loop, state, config, service, source, signals, listening, ctxDone, sent, fatal, faults>>

CancelContext ==
  /\ ~shutdownChan /\ ~ctxDone /\ ctxDone' = TRUE
  /\ UNCHANGED <<pc, loop, state, config, service, source, signals, listening, shutdownChan, sent, fatal, faults>>

(***************************************************************************)
(* The specification.  Run's goroutine, the provider's and the reporting   *)
(* one are scheduled fairly; the environment owes nothing.                 *)
(***************************************************************************)
RunStep ==
  \/ RunAfterShutdown \/ Run \/ Resolve \/ Build
  \/ \E n \in todo : StartComponent(n) \/ StopComponent(n)
  \/ Started \/ StartPhaseDone \/ Shutdown \/ Stopped \/ ComponentsStopped \/ ShutdownReturns
  \/ SelectWatch \/ SelectFatal \/ SelectSignal \/ SelectStop \/ ProviderShutdown
  \/ TryPartialReload \/ Retire \/ RebuildReceivers \/ ReceiversUpdated

ReportStep == \E n \in fatal.todo : ReportFatal(n)

Environment ==
  \/ \E n \in DOMAIN life : MeetFatalError(n)
  \/ ChangeConfig \/ WatchFails \/ Signalled \/ RequestShutdown \/ CancelContext

Next == RunStep \/ ReportStep \/ OnChange \/ Environment

Fairness == WF_vars(RunStep) /\ WF_vars(ReportStep) /\ WF_vars(OnChange)

Spec == Init /\ [][Next]_vars /\ Fairness

(***************************************************************************)
(* Properties.                                                             *)
(***************************************************************************)
Life == {"unbuilt", "built", "running", "stopped"}

\* The variables keep their types.
TypeOK ==
  /\ pc \in {"new", "setup", "build", "extStart", "start", "select", "reload", "retire", "upStop",
             "upStart", "provider", "shutdown", "stop", "extStop", "returned"}
  /\ ret \in {"none", "fail", "reload", "final"}
  /\ state \in {"Starting", "Running", "Closing", "Closed"}
  /\ todo \subseteq DOMAIN life /\ errs \in BOOLEAN
  /\ at = NoNode \/ (at[1] \in DOMAIN life /\ at[2] \in {"ok", "failed"})
  /\ \A n \in DOMAIN life : life[n] \in Life
  /\ DOMAIN status = DOMAIN life \ {Telemetry}
  /\ \A n \in DOMAIN status : status[n] \in Status
  /\ \A n \in Components : IsReceiver(n) => (n \in DOMAIN built <=> life[n] # "unbuilt")
  /\ fatal.todo \subseteq DOMAIN status
  /\ Len(ch) <= 1 /\ Len(signals) <= SignalsCap

Uses ==
  UNION {{n} \X Downstream(edges, n) : n \in Components}
    \cup (Components \X Extensions)
    \cup {<<n, m>> \in Extensions \X Extensions : <<n[2], m[2]>> \in Dependencies}
    \cup ((DOMAIN life \ {Telemetry}) \X {Telemetry})

Lifecycled == INSTANCE Lifecycle WITH up <- Running, uses <- Uses

\* Through startup, failed startup, partial and full reload and shutdown, a
\* component starts after everything it uses and stops before it: components
\* after those they send to, extensions after their dependencies, pipelines
\* after the extensions, everything after the telemetry (StartAll, ShutdownAll,
\* Extensions.Start and Shutdown, Service.Start and Shutdown).
RefinesLifecycle == Lifecycled!Spec

\* When a new service is about to be built, and when Run has returned, no
\* component of the old one is left running, whatever failed on the way, a
\* partial reload included (reloadConfiguration, Run).
NothingLeftRunning == pc \in {"new", "setup", "returned"} => Running = {}

Serving(n) == life[n] = "running" /\ Instance(n) \notin dead

\* Whenever the collector waits for events, the graph is the one a restart
\* with the applied configuration would build, every receiver was built from
\* the applied version of its settings, and every component serves: a partial
\* reload leaves nothing behind (UpdateReceivers).
GraphMatchesConfig ==
  pc = "select" =>
    /\ edges = Edges(applied)
    /\ Components = {n \in Nodes(applied) : IsComponent(n)}
    /\ \A n \in DOMAIN built : built[n].version = applied.receivers[n[3]]
    /\ \A n \in DOMAIN life \ {Telemetry} : Serving(n)

\* Once the service is down, the last status reported for a component that was
\* shut down is final: the extensions that watch are not left with a component
\* that is starting, running or stopping (ShutdownAll, Extensions.Shutdown).
StatusesAreFinal ==
  pc \in {"setup", "returned"} =>
    \A n \in DOMAIN status :
      life[n] = "stopped" => status[n] \in {"Stopped", "PermanentError", "FatalError", "None"}

FatalMet == fatal # Quiet \/ \E n \in DOMAIN status : status[n] = "FatalError"

\* A request to stop that the collector has accepted makes Run return, unless a
\* component reports a fatal error or a provider is stuck in onChange.
StopRequestHonoured ==
  (shutdownChan \/ ctxDone \/ "term" \in Range(signals))
    ~> (pc = "returned" \/ FatalMet \/ notify > 0)

\* A configuration change that the provider announces is applied, or the
\* collector stops: no announcement is lost between the watcher channel, the
\* two resolutions of a reload and the source (Resolver.onChange, Resolve).
ChangeIsApplied ==
  (notify > 0 \/ ch = <<"changed">>) ~> (pc \in {"provider", "returned"} \/ (pc = "select" /\ applied = latest) \/ FatalMet)

\* A fatal error that a component reports makes the collector shut down.
FatalErrorShutsDown == (fatal # Quiet) ~> (pc = "returned")
=============================================================================
