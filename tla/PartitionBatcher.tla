-------------------------- MODULE PartitionBatcher --------------------------
(***************************************************************************)
(* The batcher of one partition and the worker pool that batchers share    *)
(* (exporter/exporterhelper/internal/queuebatch/partition_batcher.go).     *)
(* ShardedBatcher and MultiBatcher extend this module with the two ways in *)
(* which partitions are chosen, created and shut down.                     *)
(*                                                                         *)
(* A request is a sequence of items; what counts is which item ends up in  *)
(* which flush and when the Done of a request is called.  Four kinds of    *)
(* goroutines use a partition: <<"consume", r>> is the call of Consume     *)
(* with request r, <<"timer", p>> the goroutine of Start, <<"stop", p>> a  *)
(* call of Shutdown, <<"evict", p>> a worker that runs shutdownInternal.   *)
(* A goroutine is at one of                                                *)
(*   "new"       not called yet, or not started                            *)
(*   "consume"   (consume) about to run consumeInternal                    *)
(*   "begin"     (stop, evict) about to run shutdownInternal               *)
(*   "select"    (timer) at its select                                     *)
(*   "last"      about to run flushCurrentBatchOrRemovePartition           *)
(*   "flush"     about to flush the first of its jobs                      *)
(*   "flushlast" the same, and "last" after all of them                    *)
(*   "token" "tokenlast"   in flush, waiting for a worker                  *)
(*   "onEmpty"   (timer) about to call qb.onEmpty                          *)
(*   "panic"     (timer) called a nil onEmpty                              *)
(*   "removing"  (timer) in qb.onEmpty, before it has mb.lock              *)
(*   "evicting"  in the callback of the LRU cache, see MultiBatcher        *)
(*   "wait"      (stop, evict) in stopWG.Wait                              *)
(*   "returned"                                                            *)
(***************************************************************************)
EXTENDS Integers, Sequences, FiniteSets, SequencesExt

CONSTANTS
  Requests,   \* calls of Consume, and their requests
  Parts,      \* partition batchers
  Count,      \* number of items in each request
  Oversized,  \* items larger than MaxSize by themselves
  MinSize,    \* cfg.MinSize
  MaxSize,    \* cfg.MaxSize, 0 if there is no limit
  MaxWorkers, \* size of the worker pool
  MayFail,    \* an export may fail
  MayIdle     \* a partition may be empty for longer than the idle timeout

ASSUME CountAssumption == Count \in [Requests -> Nat \ {0}]

\* BatchConfig.Validate.
ASSUME BatchAssumption ==
  /\ MinSize \in Nat /\ MaxSize \in Nat
  /\ MaxSize = 0 \/ MinSize <= MaxSize
  /\ MaxWorkers \in Nat \ {0}

VARIABLES
  pc,        \* where each goroutine is
  jobs,      \* what it has yet to flush
  part,      \* the partition a call of Consume works on
  cur,       \* qb.currentBatch
  active,    \* qb.active
  onEmpty,   \* qb.onEmpty # nil
  armed,     \* qb.timer will fire
  shut,      \* qb.shutdownCh is closed
  stopWG,    \* qb.stopWG
  workers,   \* tokens in wp.workers
  running,   \* the flushes that have a worker
  refs,      \* calls its Done still waits for, for each request
  failed,    \* requests one of whose calls carried an error
  doneCalls, \* times the Done of each request was called
  exported,  \* items whose export succeeded
  lost       \* items whose export failed, or that cannot be split

partVars == <<cur, active, onEmpty, armed, shut>>
poolVars == <<workers, running>>
doneVars == <<refs, failed, doneCalls, exported, lost>>
vars == <<pc, jobs, part, partVars, stopWG, poolVars, doneVars>>

Items == UNION {{r} \X (1..Count[r]) : r \in Requests}
ItemsOf(r) == [k \in 1..Count[r] |-> <<r, k>>]
NoBatch == [items |-> <<>>, dones |-> {}]

Consumes == {<<"consume", r>> : r \in Requests}
Timers == {<<"timer", p>> : p \in Parts}
Stops == {<<"stop", p>> : p \in Parts}
Evicts == {<<"evict", p>> : p \in Parts}
Threads == Consumes \cup Timers \cup Stops \cup Evicts

PartOf(t) == IF t[1] = "consume" THEN part[t[2]] ELSE t[2]

Batches == [items : Seq(Items), dones : SUBSET Requests]

\* The type of each variable.
TypeOK ==
  /\ pc \in [Threads -> {"new", "consume", "begin", "select", "last", "flush", "flushlast",
                         "token", "tokenlast", "onEmpty", "panic", "removing", "evicting",
                         "wait", "returned"}]
  /\ jobs \in [Threads -> Seq(Batches)]
  /\ part \in [Requests -> Parts]
  /\ cur \in [Parts -> Batches]
  /\ active \in [Parts -> BOOLEAN]
  /\ onEmpty \in [Parts -> BOOLEAN]
  /\ armed \in [Parts -> BOOLEAN]
  /\ shut \in [Parts -> BOOLEAN]
  /\ stopWG \in [Parts -> Nat]
  /\ workers \in 0..MaxWorkers
  /\ running \subseteq [part : Parts, items : Seq(Items), dones : SUBSET Requests]
  /\ refs \in [Requests -> Nat]
  /\ failed \subseteq Requests
  /\ doneCalls \in [Requests -> Nat]
  /\ exported \subseteq Items
  /\ lost \subseteq Items

\* The partitions of `started' exist, with a goroutine and a timer each; `first' only
\* gives part a value.
InitWith(started, removable, first) ==
  /\ pc = [t \in Threads |-> IF t[1] = "timer" /\ t[2] \in started THEN "select" ELSE "new"]
  /\ jobs = [t \in Threads |-> <<>>]
  /\ part = first
  /\ cur = [p \in Parts |-> NoBatch]
  /\ active = [p \in Parts |-> TRUE]
  /\ onEmpty = [p \in Parts |-> removable]
  /\ armed = [p \in Parts |-> p \in started]
  /\ shut = [p \in Parts |-> FALSE]
  /\ stopWG = [p \in Parts |-> IF p \in started THEN 1 ELSE 0]
  /\ workers = MaxWorkers
  /\ running = {}
  /\ refs = [r \in Requests |-> 0]
  /\ failed = {}
  /\ doneCalls = [r \in Requests |-> 0]
  /\ exported = {}
  /\ lost = {}

Goto(t, l) == pc' = [pc EXCEPT ![t] = l]

\* Where a goroutine goes with these jobs left to flush, and then perhaps the
\* current batch.
AfterFlush(t) ==
  CASE t[1] = "consume" -> "returned"
    [] t[1] = "timer" -> "select"
    [] OTHER -> "wait"

Onward(t, left, last) ==
  CASE left # <<>> /\ ~last -> "flush"
    [] left # <<>> /\ last -> "flushlast"
    [] left = <<>> /\ ~last -> AfterFlush(t)
    [] left = <<>> /\ last -> "last"

(***************************************************************************)
(* MergeSplit of the requests, with the sizer of the batch.                *)
(***************************************************************************)
Sizeof(items) == Len(items)

Chunks(s, max) ==
  LET n == (Len(s) + max - 1) \div max IN
  [k \in 1..n |-> SubSeq(s, (k - 1) * max + 1, IF k = n THEN Len(s) ELSE k * max)]

\* Items beyond the limit are dropped with an error, the others go into requests
\* of MaxSize, the last of which may be smaller.  None is left when all are dropped.
MergeSplit(s) ==
  IF MaxSize = 0 THEN <<s>>
  ELSE Chunks(SelectSeq(s, LAMBDA x : x \notin Oversized), MaxSize)

Dropped(s) == IF MaxSize = 0 THEN {} ELSE Range(s) \cap Oversized


NumRefs(n, err) == IF err THEN n + 1 ELSE n

\* The requests in D each get a call of OnDone, carrying an error or not.
OnDone(D, err) ==
  /\ refs' = [r \in Requests |-> IF r \in D THEN refs[r] - 1 ELSE refs[r]]
  /\ failed' = IF err THEN failed \cup D ELSE failed
  /\ doneCalls' = [r \in Requests |->
                     IF r \in D /\ refs[r] = 1 THEN doneCalls[r] + 1 ELSE doneCalls[r]]

(***************************************************************************)
(* Consume.                                                                *)
(***************************************************************************)
\* Whether the last request of a split waits for more data.
StaysCurrent(items) == Sizeof(items) < MinSize

FlushesAfterwardsNever(p) == FALSE

\* Consume flushes what is left when the partition is no longer active.
FlushesAfterwards(p) == ~active[p]

\* consumeInternal up to its unlock.
ConsumeInternal(r) ==
  LET t == <<"consume", r>>
      p == part[r]
      all == cur[p].items \o ItemsOf(r)
      list == MergeSplit(all)
      n == Len(list)
      err == Dropped(all) # {}
      batches == [k \in 1..n |-> [items |-> list[k],
                                  dones |-> {r} \cup IF k = 1 THEN cur[p].dones ELSE {}]]
      keep == StaysCurrent(list[n])
  IN
  /\ pc[t] = "consume"
  /\ lost' = lost \cup Dropped(all)
  /\ failed' = IF err THEN failed \cup {r} ELSE failed
  /\ \/ /\ n = 0
        /\ doneCalls' = [doneCalls EXCEPT ![r] = @ + 1]
        /\ UNCHANGED <<jobs, cur, armed, refs>>
     \/ /\ n > 0
        /\ refs' = [refs EXCEPT ![r] = NumRefs(n, err) - (IF err THEN 1 ELSE 0)]
        /\ jobs' = [jobs EXCEPT ![t] = IF keep THEN Front(batches) ELSE batches]
        /\ cur' = [cur EXCEPT ![p] = IF keep THEN batches[n] ELSE NoBatch]
        /\ armed' = [armed EXCEPT ![p] = @ \/ (keep /\ (cur[p] = NoBatch \/ n > 1))]
        /\ UNCHANGED doneCalls
  /\ Goto(t, Onward(t, jobs'[t], FlushesAfterwards(p)))
  /\ UNCHANGED <<part, active, onEmpty, shut, stopWG, poolVars, exported>>

(***************************************************************************)
(* flush and the worker pool.                                              *)
(***************************************************************************)
\* flush counts itself in stopWG before it waits for a worker.
FlushAdd(t) ==
  /\ pc[t] \in {"flush", "flushlast"}
  /\ Goto(t, IF pc[t] = "flush" THEN "token" ELSE "tokenlast")
  /\ stopWG' = [stopWG EXCEPT ![PartOf(t)] = @ + 1]
  /\ UNCHANGED <<jobs, part, partVars, poolVars, doneVars>>

\* execute gets a worker.
FlushExecute(t) ==
  /\ pc[t] \in {"token", "tokenlast"}
  /\ workers > 0
  /\ workers' = workers - 1
  /\ running' = running \cup {[part |-> PartOf(t), items |-> Head(jobs[t]).items,
                               dones |-> Head(jobs[t]).dones]}
  /\ jobs' = [jobs EXCEPT ![t] = Tail(@)]
  /\ Goto(t, Onward(t, Tail(jobs[t]), pc[t] = "tokenlast"))
  /\ UNCHANGED <<part, partVars, stopWG, doneVars>>

ExportKeepsWorker(job) ==
  /\ job \in running
  /\ running' = running \ {job}
  /\ stopWG' = [stopWG EXCEPT ![job.part] = @ - 1]
  /\ OnDone(job.dones, FALSE)
  /\ exported' = exported \cup Range(job.items)
  /\ UNCHANGED <<pc, jobs, part, partVars, lost, workers>>

\* consumeFunc returns, its outcome is reported, then the worker is free again.
Export(job) ==
  /\ job \in running
  /\ running' = running \ {job}
  /\ workers' = workers + 1
  /\ stopWG' = [stopWG EXCEPT ![job.part] = @ - 1]
  /\ \/ /\ OnDone(job.dones, FALSE)
        /\ exported' = exported \cup Range(job.items)
        /\ UNCHANGED lost
     \/ /\ MayFail
        /\ OnDone(job.dones, TRUE)
        /\ lost' = lost \cup Range(job.items)
        /\ UNCHANGED exported
  /\ UNCHANGED <<pc, jobs, part, partVars>>

(***************************************************************************)
(* The timer goroutine, and flushCurrentBatchOrRemovePartition.            *)
(***************************************************************************)
TimerFires(p) ==
  /\ pc[<<"timer", p>>] = "select"
  /\ armed[p]
  /\ armed' = [armed EXCEPT ![p] = FALSE]
  /\ Goto(<<"timer", p>>, "last")
  /\ UNCHANGED <<jobs, part, cur, active, onEmpty, shut, stopWG, poolVars, doneVars>>

TimerExits(p) ==
  /\ pc[<<"timer", p>>] = "select"
  /\ shut[p]
  /\ Goto(<<"timer", p>>, "returned")
  /\ stopWG' = [stopWG EXCEPT ![p] = @ - 1]
  /\ UNCHANGED <<jobs, part, partVars, poolVars, doneVars>>

FlushCurrentKeepsBatch(t) ==
  LET p == PartOf(t) IN
  /\ pc[t] = "last"
  /\ jobs' = [jobs EXCEPT ![t] = IF cur[p] = NoBatch THEN <<>> ELSE <<cur[p]>>]
  /\ armed' = [armed EXCEPT ![p] = TRUE]
  /\ Goto(t, Onward(t, jobs'[t], FALSE))
  /\ UNCHANGED <<part, cur, active, onEmpty, shut, stopWG, poolVars, doneVars>>

\* flushCurrentBatchOrRemovePartition: a batch is taken and flushed; without one,
\* the partition is removed if it can be and was empty for long enough.
FlushCurrent(t) ==
  LET p == PartOf(t) IN
  /\ pc[t] = "last"
  /\ \/ /\ cur[p] = NoBatch
        /\ MayIdle /\ onEmpty[p]
        /\ Goto(t, "onEmpty")
        /\ UNCHANGED <<jobs, cur, armed>>
     \/ /\ cur[p] = NoBatch
        /\ Goto(t, AfterFlush(t))
        /\ armed' = [armed EXCEPT ![p] = TRUE]
        /\ UNCHANGED <<jobs, cur>>
     \/ /\ cur[p] # NoBatch
        /\ jobs' = [jobs EXCEPT ![t] = <<cur[p]>>]
        /\ cur' = [cur EXCEPT ![p] = NoBatch]
        /\ armed' = [armed EXCEPT ![p] = TRUE]
        /\ Goto(t, "flush")
  /\ UNCHANGED <<part, active, onEmpty, shut, stopWG, poolVars, doneVars>>

\* qb.onEmpty is read a second time, now without the lock.
CallOnEmpty(p) ==
  /\ pc[<<"timer", p>>] = "onEmpty"
  /\ Goto(<<"timer", p>>, IF onEmpty[p] THEN "removing" ELSE "panic")
  /\ UNCHANGED <<jobs, part, partVars, stopWG, poolVars, doneVars>>

(***************************************************************************)
(* shutdownInternal.                                                       *)
(***************************************************************************)
\* Its first critical section and the close of shutdownCh; only the first call
\* goes on.
StopBegin(t) ==
  LET p == PartOf(t) IN
  /\ pc[t] = "begin"
  /\ active' = [active EXCEPT ![p] = FALSE]
  /\ onEmpty' = [onEmpty EXCEPT ![p] = FALSE]
  /\ shut' = [shut EXCEPT ![p] = TRUE]
  /\ Goto(t, IF active[p] THEN "last" ELSE "returned")
  /\ workers' = IF ~active[p] /\ t \in Evicts THEN workers + 1 ELSE workers
  /\ UNCHANGED <<jobs, part, cur, armed, stopWG, running, doneVars>>

StopWaitedNot(t) ==
  /\ pc[t] = "wait"
  /\ Goto(t, "returned")
  /\ workers' = IF t \in Evicts THEN workers + 1 ELSE workers
  /\ UNCHANGED <<jobs, part, partVars, stopWG, running, doneVars>>

\* stopWG.Wait returns; a worker is free again.
StopWaited(t) ==
  /\ pc[t] = "wait"
  /\ stopWG[PartOf(t)] = 0
  /\ Goto(t, "returned")
  /\ workers' = IF t \in Evicts THEN workers + 1 ELSE workers
  /\ UNCHANGED <<jobs, part, partVars, stopWG, running, doneVars>>

(***************************************************************************)
(* The steps of a goroutine, however partitions are managed.               *)
(***************************************************************************)
ThreadStep(t) ==
  FlushAdd(t) \/ FlushExecute(t) \/ FlushCurrent(t) \/ StopBegin(t) \/ StopWaited(t)

TimerStep(p) == TimerFires(p) \/ TimerExits(p) \/ CallOnEmpty(p)

(***************************************************************************)
(* Properties of the batchers.                                             *)
(***************************************************************************)
Consumed(r) == pc[<<"consume", r>>] \notin {"new", "consume", "evicting"}

\* Every batch there is: waiting, held by a goroutine, or with a worker.
AllBatches ==
  {cur[p] : p \in Parts} \cup UNION {Range(jobs[t]) : t \in Threads}
    \cup {[items |-> j.items, dones |-> j.dones] : j \in running}

\* How many of the places an item can be in it is in.
Places(x) ==
  Cardinality({p \in Parts : x \in Range(cur[p].items)})
  + Cardinality({t \in Threads : \E b \in Range(jobs[t]) : x \in Range(b.items)})
  + Cardinality({j \in running : x \in Range(j.items)})
  + Cardinality({S \in {<<1, exported>>, <<2, lost>>} : x \in S[2]})

\* Merging, splitting, keeping and flushing neither lose nor duplicate an item: once
\* consumeInternal has taken a request, each of its items is in exactly one place.
ItemsConserved ==
  \A r \in Requests : Consumed(r) => \A x \in Range(ItemsOf(r)) : Places(x) = 1


\* No flush exceeds MaxSize, and what waits for more data is below MinSize.
SizesRespected ==
  /\ MaxSize > 0 => \A b \in AllBatches : Sizeof(b.items) <= MaxSize
  /\ \A p \in Parts : cur[p] # NoBatch => Sizeof(cur[p].items) < MinSize

\* Data that waits in a partition has someone who will flush it: the running timer
\* of an active partition, or a goroutine on its way to the flush.
NoForgottenBatch ==
  \A p \in Parts : cur[p] # NoBatch =>
    \/ active[p] /\ armed[p] /\ pc[<<"timer", p>>] \notin {"new", "returned"}
    \/ \E t \in Threads : PartOf(t) = p /\ pc[t] \in {"last", "flushlast", "tokenlast"}

\* A request given to the batcher is eventually reported done.
ConsumedIsDone ==
  \A r \in Requests : pc[<<"consume", r>>] # "new" ~> doneCalls[r] = 1
=============================================================================
