---------------------------- MODULE MultiBatcher ----------------------------
(***************************************************************************)
(* The batcher with partitioning: a partition batcher for each key, kept   *)
(* in an LRU cache that evicts the partition used longest ago, and removed *)
(* when it was empty for too long                                          *)
(* (exporter/exporterhelper/internal/queuebatch/multi_batcher.go).         *)
(*                                                                         *)
(* A partition is named after the request that created it.  The cache is   *)
(* the library's simplelru: Add beyond its size, Remove and Purge each     *)
(* call the eviction callback, which waits for a worker with mb.lock held. *)
(***************************************************************************)
EXTENDS PartitionBatcher

CONSTANTS
  KeyOf,     \* the partition key of each request
  CacheSize  \* cfg.Partition.CacheSize

ASSUME CacheAssumption ==
  /\ Parts = Requests
  /\ CacheSize \in Nat \ {0}

VARIABLES
  lru,     \* mb.partitions, the one used last first
  victim,  \* the partition, if any, whose eviction callback is running, with the lock held
  stage    \* of Shutdown: "running", "waiting" for the partitions, "purging", "stopped"

mvars == <<vars, lru, victim, stage>>

Init ==
  /\ InitWith({}, TRUE, [r \in Requests |-> r])
  /\ lru = <<>>
  /\ victim = {}
  /\ stage = "running"

Cached == Range(lru)
Consuming == {r \in Requests : pc[<<"consume", r>>] \notin {"new", "returned"}}
LockFree == stage \in {"running", "stopped"} /\ victim = {}

WithKey(k) == {p \in Cached : KeyOf[p] = k}

(***************************************************************************)
(* getPartition, called by as many queue consumers as there are workers.   *)
(***************************************************************************)
MayConsume(r) ==
  /\ pc[<<"consume", r>>] = "new"
  /\ stage = "running"
  /\ Cardinality(Consuming) < MaxWorkers
  /\ LockFree

GetExisting(r) ==
  /\ MayConsume(r)
  /\ \E p \in WithKey(KeyOf[r]) :
       /\ part' = [part EXCEPT ![r] = p]
       /\ lru' = <<p>> \o SelectSeq(lru, LAMBDA q : q # p)
  /\ Goto(<<"consume", r>>, "consume")
  /\ UNCHANGED <<jobs, partVars, stopWG, poolVars, doneVars, victim, stage>>

\* newPB.Start, then the unlock.
StartNew(r, label) ==
  /\ pc' = [label EXCEPT ![<<"consume", r>>] = "consume", ![<<"timer", r>>] = "select"]
  /\ armed' = [armed EXCEPT ![r] = TRUE]
  /\ stopWG' = [stopWG EXCEPT ![r] = @ + 1]

\* The new partition is added; in a full cache the oldest one is taken out and its
\* callback called before the new one is started.
AddNew(r) ==
  /\ part' = [part EXCEPT ![r] = r]
  /\ \/ /\ Len(lru) < CacheSize
        /\ lru' = <<r>> \o lru
        /\ StartNew(r, pc)
        /\ UNCHANGED victim
     \/ /\ Len(lru) = CacheSize
        /\ lru' = <<r>> \o Front(lru)
        /\ victim' = {Last(lru)}
        /\ Goto(<<"consume", r>>, "evicting")
        /\ UNCHANGED <<armed, stopWG>>

GetNew(r) ==
  /\ MayConsume(r)
  /\ WithKey(KeyOf[r]) = {}
  /\ AddNew(r)
  /\ UNCHANGED <<jobs, cur, active, onEmpty, shut, poolVars, doneVars, stage>>

(***************************************************************************)
(* The eviction callback gets a worker for shutdownInternal of the victim. *)
(***************************************************************************)
Evicting == [t \in Threads |-> IF t \in Evicts /\ t[2] \in victim THEN "begin" ELSE pc[t]]

EvictForConsume(r) ==
  /\ pc[<<"consume", r>>] = "evicting"
  /\ workers > 0
  /\ workers' = workers - 1
  /\ victim' = {}
  /\ StartNew(r, Evicting)
  /\ UNCHANGED <<jobs, part, cur, active, onEmpty, shut, running, doneVars, lru, stage>>

EvictForTimer(p) ==
  /\ pc[<<"timer", p>>] = "evicting"
  /\ workers > 0
  /\ workers' = workers - 1
  /\ victim' = {}
  /\ pc' = [Evicting EXCEPT ![<<"timer", p>>] = "select"]
  /\ UNCHANGED <<jobs, part, partVars, stopWG, running, doneVars, lru, stage>>

RemoveIdleWithoutCallback(p) ==
  /\ pc[<<"timer", p>>] = "removing"
  /\ LockFree
  /\ lru' = SelectSeq(lru, LAMBDA x : KeyOf[x] # KeyOf[p])
  /\ Goto(<<"timer", p>>, "select")
  /\ UNCHANGED <<jobs, part, partVars, stopWG, poolVars, doneVars, victim, stage>>

\* onEmpty: removes whatever partition now has the key of p.
RemoveIdle(p) ==
  LET t == <<"timer", p>> IN
  /\ pc[t] = "removing"
  /\ LockFree
  /\ \/ /\ WithKey(KeyOf[p]) = {}
        /\ Goto(t, "select")
        /\ UNCHANGED <<lru, victim>>
     \/ \E q \in WithKey(KeyOf[p]) :
          /\ lru' = SelectSeq(lru, LAMBDA x : x # q)
          /\ victim' = {q}
          /\ Goto(t, "evicting")
  /\ UNCHANGED <<jobs, part, partVars, stopWG, poolVars, doneVars, stage>>

(***************************************************************************)
(* Shutdown, after the queue consumers have ended.                         *)
(***************************************************************************)
Shutdown ==
  /\ stage = "running"
  /\ Consuming = {}
  /\ LockFree
  /\ stage' = "waiting"
  /\ pc' = [t \in Threads |-> IF t \in Stops /\ t[2] \in Cached THEN "begin" ELSE pc[t]]
  /\ UNCHANGED <<jobs, part, partVars, stopWG, poolVars, doneVars, lru, victim>>

\* wg.Wait returns.
ShutdownWaited ==
  /\ stage = "waiting"
  /\ \A p \in Cached : pc[<<"stop", p>>] = "returned"
  /\ stage' = "purging"
  /\ UNCHANGED <<vars, lru, victim>>

\* Purge calls the callback for every partition.
Purge(p) ==
  /\ stage = "purging"
  /\ p \in Cached
  /\ workers > 0
  /\ workers' = workers - 1
  /\ Goto(<<"evict", p>>, "begin")
  /\ lru' = SelectSeq(lru, LAMBDA q : q # p)
  /\ UNCHANGED <<jobs, part, partVars, stopWG, running, doneVars, victim, stage>>

ShutdownReturn ==
  /\ stage = "purging"
  /\ lru = <<>>
  /\ stage' = "stopped"
  /\ UNCHANGED <<vars, lru, victim>>

(***************************************************************************)
(* The specification.                                                      *)
(***************************************************************************)
managed == <<lru, victim, stage>>

Working(t) == ThreadStep(t) /\ UNCHANGED managed
Timer(p) == TimerStep(p) /\ UNCHANGED managed
Merge(r) == ConsumeInternal(r) /\ UNCHANGED managed
Worker(job) == Export(job) /\ UNCHANGED managed
Locked(r) == EvictForConsume(r) \/ EvictForTimer(r) \/ RemoveIdle(r)
Stopper == ShutdownWaited \/ ShutdownReturn \/ \E p \in Parts : Purge(p)

\* A panic in a goroutine ends the process.
Panicked == \E p \in Parts : pc[<<"timer", p>>] = "panic"

Step ==
  \/ \E r \in Requests : GetExisting(r) \/ GetNew(r) \/ Merge(r) \/ Locked(r)
  \/ \E p \in Parts : Timer(p)
  \/ \E t \in Threads : Working(t)
  \/ \E job \in running : Worker(job)
  \/ Shutdown
  \/ Stopper

Terminated ==
  /\ Panicked \/ (stage = "stopped" /\ running = {}
                  /\ \A t \in Threads : pc[t] \in {"new", "returned"})
  /\ UNCHANGED mvars

Next == (~Panicked /\ Step) \/ Terminated

Spec == Init /\ [][Next]_mvars

\* Goroutines are scheduled, timers fire and exports return.  A select does not pass
\* over a ready case forever: strong fairness of the exit from the timer's loop.
Fairness ==
  /\ \A r \in Requests : WF_mvars(Merge(r)) /\ WF_mvars(Locked(r))
  /\ \A p \in Parts : /\ WF_mvars(Timer(p))
                      /\ SF_mvars(TimerExits(p) /\ UNCHANGED managed)
  /\ \A t \in Threads : WF_mvars(Working(t))
  /\ WF_mvars(\E job \in running : Worker(job))
  /\ WF_mvars(Stopper)

FairSpec == Spec /\ Fairness

(***************************************************************************)
(* Properties.                                                             *)
(***************************************************************************)
\* Requests of different keys never share a batch, whatever evictions, removals and
\* late calls of Consume do to the partitions.
KeysStayApart ==
  \A b \in AllBatches : \A x, y \in Range(b.items) : KeyOf[x[1]] = KeyOf[y[1]]

\* The cache holds one partition for a key and no more than CacheSize, and a partition
\* that runs is in it, or about to be started or shut down by the callback: none is left
\* to run on its own.
PartitionsTracked ==
  /\ Len(lru) <= CacheSize
  /\ \A p, q \in Cached : KeyOf[p] = KeyOf[q] => p = q
  /\ \A p \in Parts :
       active[p] /\ pc[<<"timer", p>>] # "new" =>
         \/ p \in Cached
         \/ p \in victim
         \/ pc[<<"evict", p>>] = "begin"

\* A worker is free, flushes a batch, or shuts a partition down: tokens are neither
\* lost nor made.
WorkersAccounted ==
  workers + Cardinality(running)
    + Cardinality({t \in Evicts : pc[t] \notin {"new", "returned"}}) = MaxWorkers

\* Some worker can finish: they are not all shutting partitions down, each in need of
\* one more worker for the partition's last flush.
EvictionsLeaveAWorker ==
  \/ workers > 0
  \/ running # {}
  \/ \E t \in Evicts : pc[t] \in {"begin", "last", "flush", "wait"}

\* onEmpty is not called once shutdownInternal has cleared it.
NoPanic == ~Panicked

\* When Shutdown has returned no export is under way and nothing waits for one.
ShutdownDrains ==
  stage = "stopped" =>
    \A r \in Requests : pc[<<"consume", r>>] # "new" => doneCalls[r] = 1

\* Shutdown returns once it was called.
ShutdownReturns == stage = "waiting" ~> stage = "stopped"
=============================================================================
