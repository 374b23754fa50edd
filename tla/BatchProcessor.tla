--------------------------- MODULE BatchProcessor ---------------------------
(***************************************************************************)
(* The batch processor, processor/batchprocessor.  Producers (whatever     *)
(* precedes the processor in a pipeline) hand it data; a shard collects    *)
(* the data of one combination of metadata values and a goroutine of its   *)
(* own sends it on, by size or when the timer fires.  Without metadata     *)
(* keys there is one shard, started by Start; with them a shard is created *)
(* by the first producer that brings its combination.                      *)
(*                                                                         *)
(* Data is a sequence of resources, a resource a header and a sequence of  *)
(* scopes, a scope a header and a sequence of items: what the split        *)
(* functions walk.  An item is a log record, a span or a metric.  A metric *)
(* is itself a header and a sequence of data points, and the points are    *)
(* what is counted.                                                        *)
(***************************************************************************)
EXTENDS Integers, Sequences, FiniteSets, SequencesExt

CONSTANTS
  Producer,      \* calls of ConsumeLogs, ConsumeTraces or ConsumeMetrics
  MetadataOf,    \* the metadata values each of them carries
  LogsOf,        \* the data each of them brings, as logs (or traces)
  MetricsOf,     \* the data each of them brings, as metrics
  Configs,       \* configurations of the processor
  NumCPU         \* capacity of a shard's channel

Single == "single"
Shard == {MetadataOf[p] : p \in Producer} \cup {Single}

\* Config.Validate: the maximum is no less than the size that triggers a send.
Valid(c) == c.max = 0 \/ c.max >= c.size

ASSUME ConfigAssumption ==
  /\ NumCPU \in Nat \ {0}
  /\ \A c \in Configs :
       /\ c.metrics \in BOOLEAN /\ c.keys \in BOOLEAN /\ c.timeout \in BOOLEAN
       /\ c.limit \in Nat /\ c.size \in Nat /\ c.max \in Nat
       /\ Valid(c)

VARIABLES
  cfg,        \* the configuration: signal, metadata keys and limit, timeout, sizes
  started,    \* Start has returned
  shutdown,   \* "no", "called" (shutdownC is closed) or "returned"
  ppc,        \* where each producer is
  batchers,   \* the shards of the map: the goroutines that were started
  size,       \* multiShardBatcher.size
  newItem,    \* the channel of each shard
  batch,      \* the data each shard has collected
  count,      \* the number of its items as the shard counts them
  timer,      \* its timer: "none", "armed", or "fired" and not yet received
  loop,       \* where its goroutine is: "off", "select", "drain" or "exited"
  sending,    \* why it is in a call of the next consumer, or "no"
  accepted,   \* history: the producers that were told nil, in order
  sent        \* history: the requests that were sent and answered, in order

vars == <<cfg, started, shutdown, ppc, batchers, size, newItem, batch, count,
          timer, loop, sending, accepted, sent>>

----------------------------------------------------------------------------
(* The data and how it is split. *)

Data(p) == IF cfg.metrics THEN MetricsOf[p] ELSE LogsOf[p]

\* The items of a scope, each with its own header when it is a metric's point.
ScopeItems(s) ==
  IF cfg.metrics
  THEN FlattenSeq([i \in 1..Len(s.kids) |->
         [j \in 1..Len(s.kids[i].kids) |-> <<s.kids[i].of, s.kids[i].kids[j]>>]])
  ELSE s.kids

\* Every item of the data with the headers of the resource and the scope it is under.
Items(data) ==
  FlattenSeq([i \in 1..Len(data) |->
    FlattenSeq([j \in 1..Len(data[i].kids) |->
      LET items == ScopeItems(data[i].kids[j])
      IN  [k \in 1..Len(items) |-> <<data[i].of, data[i].kids[j].of, items[k]>>]])])

\* LogRecordCount, SpanCount, DataPointCount and the counts of their parts.
One(r) == 1
PointCount(m) == Len(m.kids)
ScopeCount(s) ==
  IF cfg.metrics THEN FoldLeft(LAMBDA n, m : n + PointCount(m), 0, s.kids) ELSE Len(s.kids)
ResourceCount(r) == FoldLeft(LAMBDA n, s : n + ScopeCount(s), 0, r.kids)
Count(data) == FoldLeft(LAMBDA n, r : n + ResourceCount(r), 0, data)

\* One RemoveIf over a sequence of nodes: move the nodes that fit into what is
\* left of n, split the first that does not, keep the others.  A node that is
\* split is copied with its header, and always keeps something.
Take(nodes, n, CountOf(_), Part(_, _)) ==
  FoldLeft(LAMBDA acc, x :
             IF acc.left = 0
             THEN [acc EXCEPT !.src = Append(@, x)]
             ELSE IF CountOf(x) <= acc.left
             THEN [acc EXCEPT !.left = @ - CountOf(x), !.dest = Append(@, x)]
             ELSE LET part == Part(x, acc.left)
                  IN  [left |-> part.left,
                       src  |-> Append(acc.src,  [x EXCEPT !.kids = part.src]),
                       dest |-> Append(acc.dest, [x EXCEPT !.kids = part.dest])],
           [left |-> n, src |-> <<>>, dest |-> <<>>], nodes)

Whole(x, n) == [left |-> n, src |-> <<>>, dest |-> <<>>]   \* an item is never split
SplitMetric(m, n) == Take(m.kids, n, One, Whole)
SplitScope(s, n) ==
  IF cfg.metrics THEN Take(s.kids, n, PointCount, SplitMetric)
                 ELSE Take(s.kids, n, One, Whole)
SplitResource(r, n) == Take(r.kids, n, ScopeCount, SplitScope)

\* splitLogs, splitTraces, splitMetrics: the first n items, and the others.
SplitData(n, data) == Take(data, n, ResourceCount, SplitResource)

\* batch.split: all of the batch, or as much as a request may hold.
SplitCountsWrong(data, n) ==
  IF cfg.max > 0 /\ n > cfg.max
  THEN LET s == SplitData(cfg.max, data) IN [dest |-> s.dest, src |-> s.src, n |-> n - 1]
  ELSE [dest |-> data, src |-> <<>>, n |-> 0]
Split(data, n) ==
  IF cfg.max > 0 /\ n > cfg.max
  THEN LET s == SplitData(cfg.max, data) IN [dest |-> s.dest, src |-> s.src, n |-> n - cfg.max]
  ELSE [dest |-> data, src |-> <<>>, n |-> 0]

----------------------------------------------------------------------------
ShardOf(p) == IF cfg.keys THEN MetadataOf[p] ELSE Single
HasTimer == cfg.timeout /\ cfg.size # 0
NewTimer == IF HasTimer THEN "armed" ELSE "none"

Init ==
  /\ cfg \in Configs
  /\ started = FALSE
  /\ shutdown = "no"
  /\ ppc = [p \in Producer |-> "idle"]
  /\ batchers = {}
  /\ size = 0
  /\ newItem = [s \in Shard |-> <<>>]
  /\ batch = [s \in Shard |-> <<>>]
  /\ count = [s \in Shard |-> 0]
  /\ timer = [s \in Shard |-> "none"]
  /\ loop = [s \in Shard |-> "off"]
  /\ sending = [s \in Shard |-> "no"]
  /\ accepted = [s \in Shard |-> <<>>]
  /\ sent = [s \in Shard |-> <<>>]

\* shard.start: the goroutine, with its timer when it has one.
StartShard(s) ==
  /\ batchers' = batchers \cup {s}
  /\ loop' = [loop EXCEPT ![s] = "select"]
  /\ timer' = [timer EXCEPT ![s] = NewTimer]

Start ==
  /\ ~started
  /\ started' = TRUE
  /\ IF cfg.keys THEN UNCHANGED <<batchers, loop, timer>> ELSE StartShard(Single)
  /\ UNCHANGED <<cfg, shutdown, ppc, size, newItem, batch, count, sending, accepted, sent>>

\* consume, up to the lookup of the shard in the map.
Consume(p) ==
  /\ started /\ shutdown = "no"
  /\ ppc[p] = "idle"
  /\ ppc' = [ppc EXCEPT ![p] = IF ShardOf(p) \in batchers THEN "send" ELSE "lock"]
  /\ UNCHANGED <<cfg, started, shutdown, batchers, size, newItem, batch, count, timer,
                 loop, sending, accepted, sent>>

\* The section of consume under the lock: refused at the limit, even when
\* another producer has stored the same shard since the lookup.
AtLimit == cfg.limit # 0 /\ size >= cfg.limit

AddShard(p) ==
  /\ ppc[p] = "lock"
  /\ \/ /\ AtLimit
        /\ ppc' = [ppc EXCEPT ![p] = "refused"]
        /\ UNCHANGED <<batchers, loop, timer, size>>
     \/ /\ ~AtLimit
        /\ ppc' = [ppc EXCEPT ![p] = "send"]
        /\ IF ShardOf(p) \in batchers
           THEN UNCHANGED <<batchers, loop, timer, size>>
           ELSE StartShard(ShardOf(p)) /\ size' = size + 1
  /\ UNCHANGED <<cfg, started, shutdown, newItem, batch, count, sending, accepted, sent>>

\* The send on the channel of the shard, which blocks while it is full.
Send(p) ==
  LET s == ShardOf(p) IN
  /\ ppc[p] = "send"
  /\ Len(newItem[s]) < NumCPU
  /\ newItem' = [newItem EXCEPT ![s] = Append(@, Data(p))]
  /\ accepted' = [accepted EXCEPT ![s] = Append(@, p)]
  /\ ppc' = [ppc EXCEPT ![p] = "returned"]
  /\ UNCHANGED <<cfg, started, shutdown, batchers, size, batch, count, timer, loop,
                 sending, sent>>

----------------------------------------------------------------------------
(* The goroutine of a shard, startLoop. *)

\* The condition of the loop of processItem.
Full(n) == n > 0 /\ (~HasTimer \/ n >= cfg.size)

\* batch.add: data without items is not kept.
Add(data, item) == IF Count(item) = 0 THEN data ELSE data \o item

\* processItem, up to the first request it has to send.
ProcessItem(s) ==
  /\ newItem[s] # <<>>
  /\ newItem' = [newItem EXCEPT ![s] = Tail(@)]
  /\ batch' = [batch EXCEPT ![s] = Add(@, Head(newItem[s]))]
  /\ \E n \in {count[s] + Count(Head(newItem[s]))} :
       /\ count' = [count EXCEPT ![s] = n]
       /\ sending' = [sending EXCEPT ![s] = IF Full(n) THEN "size" ELSE "no"]

TakeItem(s) ==
  /\ loop[s] = "select" /\ sending[s] = "no"
  /\ ProcessItem(s)
  /\ UNCHANGED <<cfg, started, shutdown, ppc, batchers, size, timer, loop, accepted, sent>>

TimerFires(s) ==
  /\ timer[s] = "armed"
  /\ timer' = [timer EXCEPT ![s] = "fired"]
  /\ UNCHANGED <<cfg, started, shutdown, ppc, batchers, size, newItem, batch, count,
                 loop, sending, accepted, sent>>

\* The timer's case of the select: send what there is, then arm the timer again.
OnTimerForgetsReset(s) ==
  /\ loop[s] = "select" /\ sending[s] = "no" /\ timer[s] = "fired"
  /\ IF count[s] > 0
     THEN sending' = [sending EXCEPT ![s] = "timeout"] /\ UNCHANGED timer
     ELSE timer' = [timer EXCEPT ![s] = "none"] /\ UNCHANGED sending
  /\ UNCHANGED <<cfg, started, shutdown, ppc, batchers, size, newItem, batch, count,
                 loop, accepted, sent>>
OnTimer(s) ==
  /\ loop[s] = "select" /\ sending[s] = "no" /\ timer[s] = "fired"
  /\ IF count[s] > 0
     THEN sending' = [sending EXCEPT ![s] = "timeout"] /\ UNCHANGED timer
     ELSE timer' = [timer EXCEPT ![s] = "armed"] /\ UNCHANGED sending
  /\ UNCHANGED <<cfg, started, shutdown, ppc, batchers, size, newItem, batch, count,
                 loop, accepted, sent>>

\* sendItems: split, the call of the next consumer, and back to the caller.  The
\* goroutine alone sees its batch, so the split is taken when the call returns.
\* An error of the next consumer is logged and the request is gone: what follows
\* is the same.  processItem goes on while there is a full request left, and it
\* and the timer's case then arm the timer again.
SendItems(s) ==
  /\ sending[s] # "no"
  /\ \E parts \in {Split(batch[s], count[s])} :
       /\ sent' = [sent EXCEPT ![s] = Append(@, parts.dest)]
       /\ batch' = [batch EXCEPT ![s] = parts.src]
       /\ count' = [count EXCEPT ![s] = parts.n]
       /\ \/ /\ sending[s] = "size" /\ Full(parts.n)
             /\ UNCHANGED <<sending, timer, loop>>
          \/ /\ (sending[s] = "size" /\ ~Full(parts.n)) \/ sending[s] = "timeout"
             /\ sending' = [sending EXCEPT ![s] = "no"]
             /\ timer' = [timer EXCEPT ![s] = NewTimer]
             /\ UNCHANGED loop
          \/ /\ sending[s] = "final"
             /\ sending' = [sending EXCEPT ![s] = "no"]
             /\ loop' = [loop EXCEPT ![s] = "exited"]
             /\ UNCHANGED timer
  /\ UNCHANGED <<cfg, started, shutdown, ppc, batchers, size, newItem, accepted>>

\* The case of shutdownC; then the loop that empties the channel, and the last
\* request.
SeeShutdown(s) ==
  /\ loop[s] = "select" /\ sending[s] = "no" /\ shutdown # "no"
  /\ loop' = [loop EXCEPT ![s] = "drain"]
  /\ UNCHANGED <<cfg, started, shutdown, ppc, batchers, size, newItem, batch, count,
                 timer, sending, accepted, sent>>

LastRequest(s) ==
  \/ /\ count[s] > 0
     /\ sending' = [sending EXCEPT ![s] = "final"]
     /\ UNCHANGED <<newItem, batch, count, loop>>
  \/ /\ count[s] = 0
     /\ loop' = [loop EXCEPT ![s] = "exited"]
     /\ UNCHANGED <<newItem, batch, count, sending>>

DrainNothing(s) ==
  /\ loop[s] = "drain" /\ sending[s] = "no"
  /\ LastRequest(s)
  /\ UNCHANGED <<cfg, started, shutdown, ppc, batchers, size, timer, accepted, sent>>
Drain(s) ==
  /\ loop[s] = "drain" /\ sending[s] = "no"
  /\ \/ ProcessItem(s) /\ UNCHANGED loop
     \/ newItem[s] = <<>> /\ LastRequest(s)
  /\ UNCHANGED <<cfg, started, shutdown, ppc, batchers, size, timer, accepted, sent>>

\* Shutdown closes shutdownC.  The service calls it when everything before the
\* processor in its pipelines has been shut down: no producer is in a call.
Shutdown ==
  /\ started /\ shutdown = "no"
  /\ \A p \in Producer : ppc[p] \in {"idle", "returned", "refused"}
  /\ shutdown' = "called"
  /\ UNCHANGED <<cfg, started, ppc, batchers, size, newItem, batch, count, timer, loop,
                 sending, accepted, sent>>

\* goroutines.Wait
WaitGoroutines ==
  /\ shutdown = "called"
  /\ \A s \in batchers : loop[s] = "exited"
  /\ shutdown' = "returned"
  /\ UNCHANGED <<cfg, started, ppc, batchers, size, newItem, batch, count, timer, loop,
                 sending, accepted, sent>>

\* A processor that was shut down, or that nobody calls any more, may stay as it is.
Idle ==
  /\ shutdown = "returned"
  /\ UNCHANGED vars

Loop(s) == TakeItem(s) \/ OnTimer(s) \/ SeeShutdown(s) \/ Drain(s)

Next ==
  \/ Start \/ Shutdown \/ WaitGoroutines \/ Idle
  \/ \E p \in Producer : Consume(p) \/ AddShard(p) \/ Send(p)
  \/ \E s \in Shard : TakeItem(s) \/ TimerFires(s) \/ OnTimer(s) \/ SendItems(s)
                        \/ SeeShutdown(s) \/ Drain(s)

\* The goroutines run, the clock advances and the next consumer answers.  A
\* select chooses among its ready cases at random: the timer's is not taken for
\* ever while another is ready.
Fairness ==
  /\ WF_vars(Start) /\ WF_vars(WaitGoroutines)
  /\ \A p \in Producer : WF_vars(AddShard(p)) /\ WF_vars(Send(p))
  /\ \A s \in Shard :
       /\ WF_vars(Loop(s)) /\ SF_vars(TakeItem(s) \/ SeeShutdown(s))
       /\ WF_vars(TimerFires(s)) /\ WF_vars(SendItems(s))

Spec == Init /\ [][Next]_vars /\ Fairness

----------------------------------------------------------------------------
(* Properties *)

\* The variables keep their types.
TypeOK ==
  /\ cfg \in Configs
  /\ started \in BOOLEAN
  /\ shutdown \in {"no", "called", "returned"}
  /\ ppc \in [Producer -> {"idle", "lock", "send", "returned", "refused"}]
  /\ batchers \subseteq Shard
  /\ size \in 0..Cardinality(Shard)
  /\ timer \in [Shard -> {"none", "armed", "fired"}]
  /\ loop \in [Shard -> {"off", "select", "drain", "exited"}]
  /\ sending \in [Shard -> {"no", "size", "timeout", "final"}]
  /\ \A s \in Shard : Len(newItem[s]) <= NumCPU

AcceptedItems(s) == FlattenSeq([i \in 1..Len(accepted[s]) |-> Items(Data(accepted[s][i]))])
SentItems(s) == FlattenSeq([i \in 1..Len(sent[s]) |-> Items(sent[s][i])])
Waiting(s) == FlattenSeq([i \in 1..Len(newItem[s]) |-> Items(newItem[s][i])])

\* What a shard has sent, has collected and finds in its channel is
\* what its producers were told nil for: no item is lost, repeated, overtaken or
\* put under another resource or scope, however the data was batched and split,
\* and the count the shard keeps of its batch is right.
OrderKept ==
  \A s \in Shard :
    /\ SentItems(s) \o Items(batch[s]) \o Waiting(s) = AcceptedItems(s)
    /\ count[s] = Count(batch[s])

\* No request is empty, and none holds more items than send_batch_max_size.
RequestsWithinMax ==
  \A s \in Shard :
    \A i \in 1..Len(sent[s]) :
      Count(sent[s][i]) > 0 /\ (cfg.max > 0 => Count(sent[s][i]) <= cfg.max)

\* One goroutine for each shard of the map, never more shards than
\* metadata_cardinality_limit, and size counts them.
ShardsWithinLimit ==
  /\ cfg.keys => size = Cardinality(batchers)
  /\ cfg.keys /\ cfg.limit # 0 => Cardinality(batchers) <= cfg.limit
  /\ \A s \in Shard : (loop[s] # "off") <=> (s \in batchers)

\* When Shutdown returns, every item a producer was told nil for has been given
\* to the next consumer.  The last request of a shard is sent without a loop:
\* that it holds all that is left is due to Validate and to processItem.
ShutdownFlushes == shutdown = "returned" => \A s \in Shard : SentItems(s) = AcceptedItems(s)

\* An item is sent in the end even if no other arrives and nobody calls
\* Shutdown: what a shard holds goes (and by OrderKept it goes to the next consumer).
Empty(s) == newItem[s] = <<>> /\ count[s] = 0 /\ sending[s] = "no"
AcceptedIsSent == \A s \in Shard : ~Empty(s) ~> Empty(s)

\* The limit is on the combinations of metadata values that are processed: data
\* whose combination has a shard is not refused.  (It is, in a race.)
RefusedHasNoShard ==
  [][\A p \in Producer :
       ppc[p] = "lock" /\ ppc'[p] = "refused" => ShardOf(p) \notin batchers]_vars
============================================================================
