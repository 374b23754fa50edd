# Verification of the OpenTelemetry Collector

TLA+ specifications of the OpenTelemetry Collector, their model checking with
TLC and machine-checked proofs with TLAPS. Every definition is translated from
the Go source; `PROJECT.json` maps each to its lines. Paths below are relative
to `src/`; *queue/* and *queuebatch/* stand for
`exporter/exporterhelper/internal/queue/` and `.../queuebatch/`.

## 1. The system

| Part | State | What is hard |
|---|---|---|
| collector (`otelcol/collector.go`), resolver (`confmap/resolver.go`) | run state, channels, watcher | events in any order, partial and full reload, a source that changes meanwhile |
| service, graph, extensions, status (`service/`), shared component (`internal/sharedcomponent`) | component graph, status per component | failure half way, order, reports under a mutex, several owners |
| scraper controller (`scraper/scraperhelper`) | goroutine, ticker, stop channel | stop against tick |
| fan-out, capabilities, references (`internal/fanoutconsumer`, `service/internal`, `pdata/internal/state.go`) | read-only mark, reference count | who may write, who must copy, when data may be deleted |
| memory limiter (`internal/memorylimiter`) | limits, back-off, references, status | ticks against the service's own reports |
| batch processor (`processor/batchprocessor`) | shards, channels, timers | drain at shutdown, splitting, cardinality limit |
| exporter chain, retry sender (`exporter/exporterhelper/internal`) | stop channel | order of shutdown, back-off against stop |
| memory queue, condition variable, consumers (*queue/*) | list, size, tokens, pooled channels | overflow, cancellation, the caller that gives up while its element is taken |
| persistent queue (*queue/*) | indices, dispatched list, storage, client references | crashes, partial writes, recovery, legacy format |
| partition, sharded and multi batcher (*queuebatch/*) | current batch, timers, worker pool, LRU cache | flush after the unlock, one Done for many flushes, callbacks under a lock |
| merging and splitting (*queuebatch/\*_batch.go*, `sizer/`) | cached size | nested byte sizes with varint lengths |
| pdata, config, OTLP, cmd, helpers | - | data, I/O, build tools |

`Collector.Run` resolves the configuration, builds the service, starts telemetry,
extensions and then the graph from the exporters back to the receivers, and
waits for events. A receiver's data pass through processors and fan-outs to
exporters. In an exporter `Offer` puts a request into the queue; a consumer hands
it to the batcher, which merges and splits requests and exports from a pool of
workers through the retry and timeout senders. The outcome travels back as
`OnDone`. Shutdown goes in the direction of the data: receivers first, in an
exporter the retry sender, the queue, the batcher, the exporter itself.

Correctness means: what was accepted is exported or reported as failed, once and
with the right outcome; capacities and limits hold; nobody sleeps for ever; an
orderly shutdown drains; a crash loses nothing the storage had accepted; what a
running component uses is running; consumers that share data do not disturb each
other; the running graph is the one the configuration describes.

## 2. Modules

| Module | Models |
|---|---|
| `PermitCond` | abstract: waiters and permits to leave |
| `Cond` | *queue/cond.go* |
| `BoundedQueue` | abstract: bounded FIFO queue with elements in flight |
| `MemoryQueue` | memory queue, its consumers and its use of `cond` |
| `Exporter` | extends `MemoryQueue` with the retry sender, the wrapped exporter and the order of `BaseExporter.Shutdown` |
| `PersistentQueue` | persistent queue, its storage, the process and its restarts |
| `PartitionBatcher` | one partition, the worker pool, merging and splitting of items, Done |
| `ShardedBatcher`, `MultiBatcher` | extend `PartitionBatcher` with the choice and life of partitions |
| `MergeSplit` | `MergeSplit` of requests in items and bytes, with the sizers and the cached size |
| `BatchProcessor` | batch processor: shards, limit, loop, timer, splitting, drain |
| `Lifecycle` | abstract: start after what you use, stop before it |
| `ComponentStatus` | the status state machine and its reporter |
| `PipelineGraph` | nodes and edges of the graph; the differences that `UpdateReceivers` and `config_diff.go` compute |
| `Collector` | extends both with `Run`, the resolver's watch, the service, extensions and shared components |
| `DataFlow` | ownership of data through fan-outs, capabilities, connectors and reference counters |
| `MemoryLimiter` | memory limiter and the processors that share it |
| `Scraper` | controller of scraping receivers |
| `ScrapedPipeline` | composes the last three: a receiver, pipelines, limiter |
| `MC*` | instances for TLC: sizes, keys, graphs, configurations |
| `*Proofs`, `PersistentQueueSteps` | proofs (section 5) |

An action is what a goroutine does between taking a lock and giving it back;
where the code unlocks in the middle, calls another component or waits, there
are several actions and a program counter between them. A call of `Offer`,
`Consume` or `ConsumeLogs` is named after its element, request or producer.
`Collector.Run` is one goroutine with the position `pc`; its loops over
components keep the set still to visit (`todo`), so that every order the
topological sort may produce is explored. `DataFlow` has the stack of nested
`Consume` calls of one goroutine, and beside it the consumers that keep data
(`kept`) and use them later.

Operators that end in what goes wrong (`OnDoneWithoutSignal`, `DrainNothing`)
are deliberate faults: each property is shown to fail when the definition that
follows is replaced by its faulty form, so that it depends on the code.

### What is abstracted

- Elements are model values with a size. Batcher items have size one, or are
  larger than the maximum (`Oversized`); `MergeSplit` has the byte sizes of
  resources, scopes, metrics and items, and of content nothing but sizes.
- `ItemsSize` and `BytesSize` of the persistent queue are one counter, `used`.
- A failed storage batch has written any subset of its keys; a call on a closed
  client fails and writes nothing. This is an assumption about the storage
  extension, which is not in this repository. An error of the encoding in
  `putInternal` is a failed batch that wrote nothing.
- A crash is the end of the process between two steps; within a storage batch
  it is the failure of that batch followed by the end of the process.
- A worker's `stopWG.Done` and the return of its token are one step (`Export`).
- The LRU cache is the library's `simplelru`: `Add`, `Remove` and `Purge` call
  the eviction callback synchronously.
- `UpstreamStopsFirst`: no `Offer` during or after Shutdown, because the graph
  stops receivers and processors before exporters (`RefinesLifecycle`).
  `memory_queue_wait_for_result` runs without this assumption. Liveness needs
  it: an Offer that waits for its result and comes when the consumers have
  exited waits until its context ends.
- `FlushTimeout` is positive, as the configuration's validation demands.
- Retry: durations are abstract. Whether the elapsed time, the deadline or the
  server still allow a retry is a free choice, and so is the answer.
- Batch processor: an item is a number under its resource, scope and metric, so
  that a header lost or mixed up in splitting shows. Traces split like logs.
- Collector: a configuration is its pipelines, connectors, extensions, one
  version per receiver and one for all the rest. There is one provider. The
  feature gates of partial reload are taken as on; without them the reload is
  always the full one. The notifications of extensions are part of the
  steps of the service and may fail.
- `DataFlow` follows one received object at a time through all its clones;
  logs, traces, metrics and profiles share the code, logs are translated.
- Memory limiter: time enters as what has passed since the last collection,
  memory as a reading before and one after a collection, both free choices. A
  check has four steps: the readings and the decision, reading `ml.host`, the
  report (which waits for the status reporter's mutex), and the store of
  `mustRefuse`. `Start` writes `ml.host` without a lock while the goroutine reads
  it; old and new value are pointers of one type, so it reads one or the other.

## 3. Runs that pass

Run one with `tlc -config <cfg> <module>`; `PROJECT.json` names both.

| Run | Instance | Shows |
|---|---|---|
| `condition_variable` | 3 goroutines, 1 slot | implements `PermitCond`: no wake-up is lost or left over; calls return |
| `memory_queue_wait_for_result` | 5 offers, one larger than the queue, 1 consumer, batching, Offers also after Shutdown | space accounted, no stranded producer, truthful results, exclusive done channels, implements `BoundedQueue` |
| `exporter` | 4 offers, one as large as the queue and one larger, 2 consumers, a destination that may fail for ever | no stranded element, queue flushed into a live exporter, Shutdown returns |
| `persistent_queue_crash` | 3 offers, 2 consumers, 2 ends of the process | no loss, no repetition, storage accounted, accepted elements are exported |
| `persistent_queue_failures` | 4 offers, any storage call fails, 2 failures, 1 end, 1 legacy element, 1 slot | no element is lost but by failed calls of its own, client references |
| `sharded_batcher` | 2 shards, 2 workers, requests of 5, 1, 2 items, 2 oversized | items conserved, Done truthful, drain, requests reported done |
| `multi_batcher` | 3 requests, 2 keys, cache of 1, 2 workers, idle removal | partitions tracked, no forgotten batch |
| `collector` | 2 pipelines joined by a connector, 2 extensions, 7 configurations, 1 change, 1 signal, 1 fault | start and stop order (implements `Lifecycle`), nothing left running, graph as configured, stop requests honoured, changes applied |
| `batch_processor` | 3 producers, 2 combinations of metadata, logs or metrics, 5 configurations | order and headers kept, Shutdown flushes, accepted data are sent |
| `request_splitting` | logs in bytes and items, metrics in items; up to 2 scopes of 2 items or 3 points, 11 maxima | items accounted, pieces within the maximum, cached size true, only oversized items dropped, the loop ends |
| `scraped_pipeline` | 4 shapes of graph with every assignment of mutating components, 2 processors sharing a limiter, 2 scrapers | writers are alone, own changes only, data alive while used, refusal reported before it takes effect, Shutdown returns |

The bounds are chosen so that the contended case happens: capacity 2 with
elements of size 1 and 2, so some fit and some wait; one slot (the code has
`runtime.NumCPU()`), so that `Signal` finds the channel full; a cache of one
partition, so that every second key evicts; batches that straddle the minimum
and maximum; items of 61 bytes, of which two make a scope of 128 bytes, the first
length that takes two bytes; maxima just above and below what a request without
items takes. The change of the collector's configuration is one of: settings of a
receiver, a receiver that moves or pipelines that swap receivers, something other than
receivers, an invalid configuration, one whose graph cannot be built. The single
fault is any failing call or a fatal status, at any point. The signals channel of
capacity 3 has capacity 1, so that a signal finds it full. `MaxIndex` bounds the
write index of the persistent queue, in the guards of what raises it; no state of
its passing runs reaches it.
Three runs use symmetry between elements of equal size, key and place in the
initial storage (`SameSize`, `Alike`, `SameKey`); they check no liveness, and no
definition tells such elements apart.
Larger numbers of goroutines, more than three requests in a batcher and a second
change of the configuration are not covered by TLC.

Deadlock is checked except in four runs. `persistent_queue_failures`,
`multi_batcher` and `collector` have a real deadlock of the code, shown by a
configuration of its own in the next section (`PersistentQueueHang`,
`MultiBatcherStop`, `CollectorFatal`); their safety properties hold up to and
including the stuck states. `collector` and `scraped_pipeline` also end for good
when Run has returned and when the receiver has stopped.

`StopRequestHonoured` excuses two situations in which Run does not return: a
fatal status (`CollectorFatal`), and a provider that is inside `onChange` with
the watcher channel full: `Provider.Shutdown` is expected to wait for its
goroutine, which nobody will relieve. `DroppedIsOversized` allows two bytes for
the lengths the code reserves. `RefusalIsReported` allows the status to be ahead by
the one decision that is reported and not yet stored (`Announced`), never behind: the
processors read `mustRefuse` without a lock between the two. It speaks of the time
before the first processor is being stopped, as status reports are then rejected by
the state machine. `NoCollateralLoss` excuses an element (`hit`) only when a call of
its own failed after it was accepted: to read it, to read the metadata that lists
it, or to put it back at start. With the pooling gate on, `scraped_pipeline` has the graphs in
which every fan-out to several read-only consumers is called by a component
(`Sheltered`); on the others `UsedIsAlive` fails, see `DataFlowPooling` below.

### Configurations outside the list

Two more configurations pass: `MemoryQueueAsync` (5 offers, 2 consumers; Offer and
Shutdown return, references balanced, queue drained), `MultiBatcherLive` (two
requests with two workers: no deadlock, requests reported done, Shutdown returns). On the instances
of the list these properties hold too, and can be added to the configuration
named:

| Configuration | Further properties |
|---|---|
| `Cond` | `CondTypeOK`, `WaitersAccounted`, `DrainHasToken` |
| `MemoryQueueWait` | `TypeOK`, `RefinesPermitCond` |
| `MemoryQueueAsync` with `EdgeSizes`, `BlockOnOverflow` and `UpstreamStopsFirst` false, `Spec` | `SizeAccounted` (sizes -1 to 3 against capacity 2) |
| `Exporter` | `ReferencesBalanced` |
| `PersistentQueueCrash` | `ShutdownReturns`; with `MaxCrashes` 0, one slot and `Spec`: `RefinesBoundedQueue`; with `TwoLegacy`, `MaxCrashes` 1, `BlockOnOverflow` false and `Spec`: `TypeOK`, `NoLoss`, `StorageAccounted` |
| `PersistentQueueFailures` | `TypeOK`, `WithinCapacity`; with `FailOps = {"put", "finish"}`: `NoLoss` |
| `PersistentQueueHang` with `Spec` | `ClientReferences`, `RefinesPermitCond` |
| `ShardedBatcher` | `TypeOK`, `SizesRespected` |
| `MultiBatcherIdle` | `ItemsConserved`, `KeysStayApart`, `WorkersAccounted` |
| `Collector` | `StatusesAreFinal` |
| `BatchProcessor` | `RequestsWithinMax`, `ShardsWithinLimit` |
| `ScrapedPipeline` | `StoppedInOrder`, `BackoffIsCapped` |

### Fairness

Weak fairness for every goroutine that can run, as the Go scheduler gives.
Exports and consumers return, timers fire, a process that is down is started
again. Strong fairness for taking the mutex in `Cond`, as a Go mutex hands itself
over to a goroutine that has starved. Strong fairness for cases of a `select`
that are ready again and again, since it chooses at random: the stop of the
batcher's timer loop, the stop during a retry's back-off (`BackoffInterrupted`),
the channel or the shutdown in the loop of the batch processor. In `Collector`
Run's goroutine, a reporting component and a provider inside `onChange` are
weakly fair, in `ScrapedPipeline` the scraping goroutine, Shutdown and those who
keep data. Nobody is obliged to offer, cancel, signal, change the configuration,
shut down or crash, and no request need ever succeed. Not assumed: that callers'
contexts end.

## 4. Where code and text disagree

In each of these TLC finds a sentence of the repository's comments, docs or
tests violated by what the code does. They mark where the claims of the passing
runs end. The first is the run `collector_fatal_error` of `PROJECT.json`, which
quotes the sentence; the others are configurations in this directory, or one of
them with the property in place of its own and the changes given.

| Configuration | Property violated | What happens |
|---|---|---|
| `CollectorFatal` | `FatalErrorShutsDown` (docs/component-status.md:15) | a fatal status is sent on an unbuffered channel with the reporter's mutex held; Run, outside its select, waits for that mutex, and neither goes on |
| `CollectorShared` | `GraphMatchesConfig` (graph.go:566-567, "Unchanged receivers keep running") | a partial reload that takes a shared receiver out of one signal's pipelines shuts the instance down for the other signal |
| `BatchProcessor` | `RefusedHasNoShard` (batchprocessor/README.md:43, the limit is on "unique combinations") | two producers bring the same new combination; the second finds no shard, then the limit reached by the first, and is refused although its shard exists |
| `MergeSplit` | `OnlyOversizedDropped` | items are dropped that would fit, behind a resource or scope that takes all of the maximum |
| `MergeSplitMetrics` | `PiecesWithinMax`, `CachedSizeTrue` (metrics_batch.go:16-17, requests "conforming with the MaxSizeConfig") | for metrics in bytes the length of the message around the points is not counted, pieces exceed the maximum and the cached size drifts |
| `DataFlowPooling` | `UsedIsAlive` (processor/README.md, "the same single shared copy") | with the pooling gate, a receiver's fan-out to several read-only pipelines: the first owns the data and releases them when its call returns, before the others are called |
| `ScrapedPipelineShared` | `RecoveryIsReported` | processors that share a limiter overwrite its host (memorylimiter.go:134): the recovery is reported to another processor than the refusal |
| `PersistentQueueCrash` with `Spec`, `CrashInStart` true, `BlockOnOverflow` false | `NoLoss` (exporterhelper/README.md:104) | recovery deletes the dispatched items before it puts them back; a crash in between loses them |
| `PersistentQueueHang` | `ShutdownReturns` (async_queue.go:65) | a consumer whose `Signal` in `Read` gave up the lock goes to sleep after Shutdown's broadcast; Shutdown never returns |
| `PersistentQueueGhost` | `FullQueueDrains` (persistent_queue.go:311) | a failed write leaves a phantom element that fills the queue, with all consumers asleep and nobody to wake them |
| `PersistentQueueCrash` with `Spec`, 1 crash, 1 failure of `"recover"` | `EmptyIsUnused` (persistent_queue.go:334, 512) | dispatched items that cannot be retrieved at start stay counted in an empty queue |
| `PersistentQueueHang` with `Spec` | `ClientUnusedAfterClose` (persistent_queue.go:387) | `Read` gives up the lock in its inner loop and goes on with a client that Shutdown has closed |
| `MultiBatcherStop` | `ShutdownReturns` (partition_batcher.go:249) | Shutdown holds the lock that the timer goroutine it waits for needs |
| `MultiBatcherIdle` with `ThreeKeys`, `MayIdle` false | `EvictionsLeaveAWorker` (config.go:140, multi_batcher_test.go:191) | with two workers two evictions hold both and each needs one more |
| `MultiBatcherIdle` | `NoPanic` (partition_batcher.go:240) | the timer calls `onEmpty` after an eviction has set it to nil |
| `MultiBatcherIdle` with 3 workers, `MayIdle` false | `ShutdownDrains` (component.go:52) | Shutdown returns while an evicted partition still flushes |
| `Cond` | `SignalWakesTheWaiter` (cond.go:26) | a `Wait` that starts after `Signal` takes the token of the goroutine that was waiting. Harmless to callers that loop |

Met while modelling, and in no configuration: `Provider.Shutdown` is not called
when startup or a reload fails (`Run` returns before `shutdown`);
`nextBackoffInterval` is documented to start at the floor and starts at twice the
floor (memorylimiter.go:245-248); when the read of a queued element fails, the
persistent queue deletes the element, and the only trace is a line of level Debug
(persistent_queue.go:377); a reference to the data is kept when the batch
processor refuses them (batch_processor.go:426-427).

These are behaviours of the models, read off the code and not reproduced by
running the collector. Several need rare conditions: `FullQueueDrains` and
`EmptyIsUnused` a storage failure, `ClientUnusedAfterClose` and
`PersistentQueueHang` items that cannot be dispatched and as many outstanding
wake-ups as there are processors, `NoPanic` an eviction that coincides with an
expired idle timeout, `DataFlowPooling` and `CollectorShared` feature gates that
are off by default.

## 5. Proofs

For every value of the constants, under the named assumptions of the modules.

**`ComponentProofs`** has the results about two small parts. For `Cond` (finite set
of goroutines, at least one slot): `TypeCorrect`, `NoLostWakeup`
(`WaitersAccounted`), `DrainNeverStuck` (`DrainHasToken`) and `Refinement`
(`RefinesPermitCond`). The count of waiters is not inductive alone:
a waiter that drains must not meet a new `Wait` between its test of `waiting` and
its receive. The invariant adds mutual exclusion and that `waiting` is still zero
while a goroutine drains; by the count there is then a token to receive. The
refinement maps the goroutines inside `Wait` to waiters, tokens and blocked
senders to permits, and goes action by action.

For `BatchProcessor` (any producers, metadata and configurations): `LimitHolds`
(`ShardsWithinLimit`). The invariant `ShardsInv` adds that the map is finite, that
only goroutines that run send, and that nothing happens before Start; the step
that counts is `AddShard`, which tests again under the lock.

**`MemoryQueueProofs`** (finite sets of producers and consumers, any integer
sizes, any capacity): `TypeCorrect`, `SpaceAccounted` (`SizeAccounted`) and
`ElementServed` (`NoStrandedElement`).
`SizeAccounted` is not inductive: an element must enter the sum only once and
leave it only once. The strengthening says that an Offer that has not pushed its
element has nothing in the queue, that what enters has a size between 1 and the
capacity, that the list holds each waiting element once, and that only callers
that wait for the result abandon. Sums are cardinalities of sets of units,
because induction over data is beyond the provers. `NoStrandedElement` is
inductive beside the types: add wakes one sleeper if there is any, and a consumer
goes to sleep only in front of an empty list.

The second half of the module is about `Exporter` (for a queue that returns on
acceptance, without batching, whose producers stop first): `ShutdownFlushes`
(`FlushedBeforeShutdown`). That the wrapped exporter is down says nothing about
the queue by itself. The invariant `FInv` follows the element: what was accepted
has been tried or is in the list; a consumer that has exited leaves the list
empty and no Offer comes later; an element that is being sent is in the hands of
a busy consumer, and the stages of Shutdown are passed in order. So when the
queue's Shutdown has returned all consumers have exited, the list is empty and
nothing is being sent. `ExporterServesElements` is `NoStrandedElement` inside the
exporter, whose consumers also stay in the retry sender and in the export.

**`QueuePromiseProofs`** (the same assumptions): what the memory queue promises its
users.
- `ProducersServed` (`NoStrandedProducer`). The property alone does not survive a
  cancelled `Wait` that holds the lock to drain a token. `WakeInv` adds that the
  lock is free whenever somebody is counted as waiting; so nobody begins to wait
  beside the drain, and the last element to leave the queue signals.
- `OutcomeIsOwn` (`ResultIsTruthful`) and `DoneExclusive`
  (`BlockingDoneExclusive`). A `blockingDone` goes back to the pool and to another
  element. `DoneInv` ties each one in use to a single element (`Holds`), says that
  its channel is empty until the outcome of just that element is in it, that those
  in the pool are empty, and that the position of the caller and the place of its
  element agree.
- `Refinement` (`RefinesBoundedQueue`). The abstract queue is ordered by a
  relation. With every queued element in the list, once, removing the head and the
  abandoned ones before it is removing a least element; each action then maps to
  an abstract step or to a stutter.

**`PersistentQueueSteps`, `PersistentQueueProofs`** (any elements, sizes, consumers
and capacity, any number of restarts, any sets of failing calls):
`ReferencesCounted` (`ClientReferences`), `LossStaysLocal` (`NoCollateralLoss`, unless
the process ends inside Start) and `AcceptedIsKept` (`NoLoss`, when moreover only
the calls of `Put` and of the completions fail).
The first module says of each operation what it leaves in memory and in the
storage, whichever of its batches fail or are half written, and keeps the
invariant `Core`: the metadata in memory, in the storage and in the legacy format
are well formed (dispatched indices below the read index, each once); nothing is
retrieved outside Start and no element with a consumer before its end; what a
consumer has is what the storage has at its index. This needs a client that is
open while it is in use (`OpenInv`), which follows from the count of references
(`RefInv`: one of the queue, one per element with a consumer, and closed once when
none is left). `LossInv` says where an accepted element is: at an index that the
metadata in the storage, from which the next Start would begin, list as queued or
dispatched; and as long as the client is open also the metadata in memory, because
they overwrite the others; during Start it may also be among those retrieved. It
is not enough to ask this of the storage alone: a later write of the metadata
would lose the element. With a process that ends inside Start `LossInv` is not
kept, and section 4 has the counterexample.

**`DataFlowProofs`, `DataPoolProofs`, `ScrapedPipelineProofs`** are about the pipeline
that a scraping receiver feeds: any graph as `createEdges` builds it
(`WellBuilt`), any declarations of its components, any scrapers, limits and
readings of the memory. `ConfigsAssumption` says moreover that `Capabilities`
satisfies its equations, which it does in a graph without cycles;
`LimitersAssumption` that the memory limiter processors of the graph share the
limiter. TLC evaluates both on every graph of its instance.
- `WritersAreAlone` (`WriterIsAlone`) and `ChangesAreOwn` (`OwnChangesOnly`). The
  properties speak of the innermost call and of those who keep data; the data
  of the outer calls become theirs later. `FlowInv` says it of all calls that
  will still use their object: if the node, or one behind it, changes the data
  (`Needs`), then no other such call and no keeper has the object, and the object
  is not read-only; and an object shows the changes of the path to its user. The
  lemmas about the graph show that a need to change is declared by every
  pipeline, connector and fan-out before it, so that a fan-out clones for all
  but the last of the consumers that need it, and for the last one, too, if a
  read-only consumer shares the data.
- `DataStaysAlive` (`UsedIsAlive`), for configurations with the pooling gate off, or
  whose graph is `Sheltered`. `CountInv` says what the counter of an object counts:
  its owner, which is at most one call, and the keepers. `PoolInv` says that a
  deleted object has no reference left, and that with pooling a call that will
  still use an owned object is the owner's or was made on its behalf. The
  premise is needed where a fan-out hands the same object to several: their
  caller must be the owner, or the first of them becomes it.
- `RefusalReported` (`RefusalIsReported`) and `BackoffCapped` (`BackoffIsCapped`), of
  the limiter alone. The reports go through the status machine, which drops some,
  and the host may be replaced between the moment it is read and the report. So
  `LimiterInv` adds that the host, and the one the goroutine is about to report to,
  are processors that were started, that a processor that is starting or up has a
  status from which the report is accepted (`StatusFollowsStart`), and what the
  statuses say at each position of the check (`StatusTells`). For the back-off it keeps the interval of the hard limit
  below its cap. `PipelineRefusalReported` carries the first over: the pipeline
  implements the limiter's specification (`PipelineLimits`).
- `OrderlyStop` (`StoppedInOrder`). `OrderInv` ties the positions of the receiver,
  of its goroutine and of the limiters to each other: there are calls in progress
  only while the goroutine is in `nextConsumer`, the goroutine runs only between
  Start and the end of Shutdown's wait, and all limiters are up for that long.

Only model-checked: all liveness (the prover does not handle fairness or
ENABLED), the refinement of `Lifecycle`, that the persistent queue repeats nothing
and accounts for its storage, the properties of the batchers, the order kept by
the batch processor, and splitting, where what a recursive function computes would
need induction over data. The inductive invariants `FlowInv`, `CountInv`, `PoolInv`,
`OrderInv` and `LimiterInv` were checked by TLC on the instance of `scraped_pipeline` before they
were proved.

## 6. Not modelled

See `components` in `PROJECT.json` for every part and the reason.

- Generated code: `pdata` and the output of `mdatagen` are most of the lines of
  the repository. They are data structures, codecs and metric registrations
  without control to model, and keep the share of mapped lines small; the parts
  with state that others read are mapped.
- Construction of clients and servers (`config`), network I/O (OTLP receiver and
  exporters), command line and build tools.
- Expansion, merging and unmarshalling of configurations (`confmap`): functions
  on strings and maps; the resolver's watching is in `Collector`.
- Metrics and logs about the collector itself.
- A queue and a merging batcher in one state space. The batcher modules have the
  queue's consumers as callers and the order of Shutdown; the product of both is
  beyond TLC.
- The replay of earlier status events by a shared component, the aggregation of
  statuses, the `DryRun` of the collector.

## 7. What could follow

1. Proofs: `NoRepeat` and `StorageAccounted` of the persistent queue, worker
   accounting of the batchers, the refinement of `Lifecycle` for every
   configuration.
2. `Collector` with two changes of the configuration and several providers.
3. A second received object in `DataFlow`, to cover what components keep
   between calls.
