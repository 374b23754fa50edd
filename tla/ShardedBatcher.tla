--------------------------- MODULE ShardedBatcher ---------------------------
(***************************************************************************)
(* The batcher without partitioning: requests go round robin to a fixed    *)
(* number of partition batchers that share one worker pool                 *)
(* (exporter/exporterhelper/internal/queuebatch/sharded_batcher.go).       *)
(* QueueBatch.Shutdown (queue_batch.go) stops the queue, which ends with   *)
(* the return of every Consume, before it stops the batcher.               *)
(***************************************************************************)
EXTENDS PartitionBatcher

CONSTANTS
  Shards,       \* length of sb.shards
  NumConsumers  \* queue consumers that call Consume

ASSUME ShardAssumption ==
  /\ Shards \in Nat \ {0} /\ Parts = 0..(Shards - 1)
  /\ NumConsumers \in Nat \ {0}

VARIABLE next  \* sb.next

svars == <<vars, next>>

Init ==
  /\ InitWith(Parts, FALSE, [r \in Requests |-> 0])
  /\ next = 0

Stopping == \E p \in Parts : pc[<<"stop", p>>] # "new"
Consuming == {r \in Requests : pc[<<"consume", r>>] \notin {"new", "returned"}}

\* A queue consumer calls Consume, which picks the shard.
Consume(r) ==
  /\ pc[<<"consume", r>>] = "new"
  /\ ~Stopping
  /\ Cardinality(Consuming) < NumConsumers
  /\ Goto(<<"consume", r>>, "consume")
  /\ part' = [part EXCEPT ![r] = next % Shards]
  /\ next' = next + 1
  /\ UNCHANGED <<jobs, partVars, stopWG, poolVars, doneVars>>

\* Shutdown calls Shutdown of one shard after the other.
Shutdown(p) ==
  /\ pc[<<"stop", p>>] = "new"
  /\ Consuming = {}
  /\ \A q \in 0..(p - 1) : pc[<<"stop", q>>] = "returned"
  /\ Goto(<<"stop", p>>, "begin")
  /\ UNCHANGED <<jobs, part, partVars, stopWG, poolVars, doneVars, next>>

Working(t) == ThreadStep(t) /\ UNCHANGED next
Timer(p) == TimerStep(p) /\ UNCHANGED next
Merge(r) == ConsumeInternal(r) /\ UNCHANGED next
Worker(job) == Export(job) /\ UNCHANGED next

\* Shutdown has returned, and the timer goroutines and workers have ended.
Terminated ==
  /\ \A p \in Parts : pc[<<"stop", p>>] = "returned"
  /\ \A t \in Threads : pc[t] \in {"new", "returned"}
  /\ running = {}
  /\ UNCHANGED svars

Next ==
  \/ \E r \in Requests : Consume(r) \/ Merge(r)
  \/ \E p \in Parts : Shutdown(p) \/ Timer(p)
  \/ \E t \in Threads : Working(t)
  \/ \E job \in running : Worker(job)
  \/ Terminated

Spec == Init /\ [][Next]_svars

\* Goroutines are scheduled, timers fire, and every export returns.  Neither a
\* further Consume nor Shutdown has to come, but a Shutdown that began goes on to
\* the next shard.  A select does not pass over a ready case forever: strong
\* fairness of the exit from the timer's loop.
Fairness ==
  /\ \A r \in Requests : WF_svars(Merge(r))
  /\ \A p \in Parts : /\ WF_svars(Timer(p))
                     /\ SF_svars(TimerExits(p) /\ UNCHANGED next)
                     /\ WF_svars(Stopping /\ Shutdown(p))
  /\ \A t \in Threads : WF_svars(Working(t))
  /\ WF_svars(\E job \in running : Worker(job))

FairSpec == Spec /\ Fairness

(***************************************************************************)
(* Properties.                                                             *)
(***************************************************************************)
\* When Shutdown returns no goroutine of the batcher is left and every request it
\* was given has been reported done.
ShutdownDrains ==
  (\A p \in Parts : pc[<<"stop", p>>] = "returned") =>
    /\ running = {}
    /\ \A p \in Parts : pc[<<"timer", p>>] = "returned" /\ cur[p] = NoBatch
    /\ \A r \in Requests : pc[<<"consume", r>>] # "new" => doneCalls[r] = 1

\* Shutdown returns once it was called.
ShutdownReturns == Stopping ~> \A p \in Parts : pc[<<"stop", p>>] = "returned"
=============================================================================
