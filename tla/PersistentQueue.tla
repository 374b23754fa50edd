-------------------------- MODULE PersistentQueue --------------------------
(***************************************************************************)
(* The sending queue that keeps its elements in a storage extension        *)
(* (exporter/exporterhelper/internal/queue/persistent_queue.go, with its   *)
(* consumers of async_queue.go), over crashes, restarts and failures of    *)
(* the storage.                                                            *)
(*                                                                         *)
(* As in MemoryQueue a call of Offer is named after its element, and an    *)
(* action is what a goroutine does while it holds pq.mu.  The phase of the *)
(* process:                                                                *)
(*   "down"       not running: only the storage exists                     *)
(*   "requeue" "requeueLegacy"   in Start: the elements that were with     *)
(*                consumers have been deleted and are being put back       *)
(*   "run"        serving                                                  *)
(*   "stopping"   the exporter shuts down, its retry sender has stopped    *)
(*   "stopped"    Shutdown of the queue has been called                    *)
(* Offers stand as in MemoryQueue.  A consumer is at "read" (to lock and   *)
(* look at `stopped'), in the inner loop of Read with the lock held        *)
(* ("loop") or inside its hasMoreSpace.Signal ("sending" "relock", see     *)
(* Cond), asleep on hasMoreElements, in consumeFunc ("busy"), or "exited". *)
(***************************************************************************)
EXTENDS Integers, Sequences, FiniteSets, Functions

CONSTANTS
  Offers,             \* calls of Offer, and the elements they offer
  Consumers,          \* the goroutines of asyncQueue.Start
  Size,               \* items (or bytes) in each element
  Cap,                \* pq.capacity
  RequestSizer,       \* the capacity counts requests, not items or bytes
  BlockOnOverflow,    \* pq.blockOnOverflow
  Slots,              \* capacity of hasMoreSpace.ch
  NilDecodes,         \* the encoding takes a missing value for an empty request
  UpstreamStopsFirst, \* no Offer runs during or after the exporter's shutdown
  Legacy,             \* elements found in the legacy format, the first dispatched
  MaxIndex,           \* bound on pq.metadata.WriteIndex
  MaxCrashes,         \* bound on the ends of the process
  CrashInStart,       \* the process may also end during Start
  FailOps,            \* the operations whose storage calls may fail
  MaxFailures,        \* bound on failed storage calls
  Nil                 \* a key without a value

ASSUME SizeAssumption == Size \in [Offers -> Nat]

ASSUME BoundAssumption ==
  /\ Slots \in Nat \ {0} /\ MaxIndex \in Nat \ {0}
  /\ MaxCrashes \in Nat /\ MaxFailures \in Nat

\* Every call of Offer has an element of its own.
ASSUME LegacyAssumption ==
  /\ Legacy \in Seq(Offers) /\ Len(Legacy) <= MaxIndex
  /\ \A j, k \in 1..Len(Legacy) : Legacy[j] = Legacy[k] => j = k

VARIABLES
  phase,      \* of the process
  md,         \* pq.metadata
  disk,       \* the storage: metadata keys and items
  pending,    \* in Start: values retrieved, to be put back
  refClient,  \* pq.refClient
  closes,     \* calls of pq.client.Close
  opc,        \* where each Offer is
  result,     \* what it returned
  cpc,        \* where each consumer is
  dpc,        \* where the completion of the item at each index is
  item,       \* what the consumer got for the index
  waiting,    \* pq.hasMoreSpace.waiting
  ch,         \* tokens in pq.hasMoreSpace.ch
  finished,   \* elements reported done, otherwise than by a shutdown error
  hit,        \* elements one of whose own later storage calls failed: a read of the
              \* element or of what lists it, or the write that puts it back
  crashes,    \* ends of the process so far
  fails       \* failed storage calls so far

clientVars == <<refClient, closes>>
condVars == <<waiting, ch>>
doneVars == <<dpc, item>>
outcome == <<finished, hit>>
vars == <<phase, md, disk, pending, clientVars, opc, result, cpc, doneVars, condVars,
          outcome, crashes, fails>>

Indices == 0..(MaxIndex - 1)
Elements == Offers \cup {Nil}

\* pq.metadata; `used' is the counter of items or bytes the capacity is about.
Metadata == [r : 0..MaxIndex, w : 0..MaxIndex, cdi : Seq(Indices), used : Nat]
ZeroMetadata == [r |-> 0, w |-> 0, cdi |-> <<>>, used |-> 0]

ASSUME NilAssumption == Nil \notin Offers /\ Nil \notin Metadata

TypeOK ==
  /\ phase \in {"down", "requeue", "requeueLegacy", "run", "stopping", "stopped"}
  /\ md \in Metadata /\ md.r <= md.w
  /\ disk \in [meta : Metadata \cup {Nil}, legacy : Metadata \cup {Nil},
              items : [Indices -> Elements]]
  /\ pending \in Seq(Elements)
  /\ refClient \in Nat
  /\ closes \in Nat
  /\ opc \in [Offers -> {"new", "select", "woken", "cancelled", "drain", "returned"}]
  /\ result \in [Offers -> {"none", "nil", "full", "ctx", "error", "crashed"}]
  /\ cpc \in [Consumers -> {"read", "loop", "sending", "relock", "asleep", "busy", "exited"}]
  /\ dpc \in [Indices -> {"no", "inflight", "sending", "relock"}]
  /\ item \in [Indices -> Elements]
  /\ waiting \in Nat
  /\ ch \in 0..Slots
  /\ finished \cup hit \subseteq Offers
  /\ crashes \in 0..MaxCrashes
  /\ fails \in 0..MaxFailures

Init ==
  /\ phase = "down"
  /\ md = ZeroMetadata
  /\ disk = [meta |-> Nil,
             legacy |-> IF Legacy = <<>> THEN Nil
                        ELSE [ZeroMetadata EXCEPT !.r = 1, !.w = Len(Legacy), !.cdi = <<0>>],
             items |-> [i \in Indices |-> IF i < Len(Legacy) THEN Legacy[i + 1] ELSE Nil]]
  /\ pending = <<>>
  /\ refClient = 0
  /\ closes = 0
  /\ opc = [o \in Offers |-> IF o \in Range(Legacy) THEN "returned" ELSE "new"]
  /\ result = [o \in Offers |-> IF o \in Range(Legacy) THEN "nil" ELSE "none"]
  /\ cpc = [c \in Consumers |-> "exited"]
  /\ dpc = [i \in Indices |-> "no"]
  /\ item = [i \in Indices |-> Nil]
  /\ waiting = 0
  /\ ch = 0
  /\ finished = {}
  /\ hit = {}
  /\ crashes = 0
  /\ fails = 0

(***************************************************************************)
(* The metadata.                                                           *)
(***************************************************************************)
RequestSize(m) == (m.w - m.r) + Len(m.cdi)

InternalSize == IF RequestSizer THEN RequestSize(md) ELSE md.used

ActiveSize(e) == IF RequestSizer THEN 1 ELSE Size[e]

\* The size of what a consumer got; an empty request has none.
ItemSize(v) == IF v = Nil THEN 0 ELSE Size[v]

InSyncWhenDrained(m) == IF RequestSize(m) = 0 THEN [m EXCEPT !.used = 0] ELSE m

\* itemDispatchingFinish on pq.metadata: the last index takes the place of i.
Undispatch(m, i) ==
  LET n == Len(m.cdi)
      cdi == IF i \notin Range(m.cdi) THEN m.cdi
             ELSE [k \in 1..(n - 1) |-> IF m.cdi[k] = i THEN m.cdi[n] ELSE m.cdi[k]]
  IN InSyncWhenDrained([m EXCEPT !.cdi = cdi])

(***************************************************************************)
(* The storage client.  A batch that fails may have written some of its    *)
(* keys; one on a closed client fails and writes nothing.  An outcome is   *)
(* the storage, the number of failures so far and whether the last call    *)
(* succeeded.                                                              *)
(***************************************************************************)
Closed == closes > 0

Now == [disk |-> disk, fails |-> fails, ok |-> TRUE]

Write(d, keys, m, i, v) ==
  [d EXCEPT !.meta = IF "meta" \in keys THEN m ELSE @,
            !.items = IF "item" \in keys THEN [@ EXCEPT ![i] = v] ELSE @]

Batch(op, s, keys, m, i, v) ==
  IF Closed THEN {[s EXCEPT !.ok = FALSE]}
  ELSE {[s EXCEPT !.disk = Write(@, keys, m, i, v), !.ok = TRUE]}
       \cup {[disk |-> Write(s.disk, k, m, i, v), fails |-> s.fails + 1, ok |-> FALSE] :
               k \in IF op \in FailOps /\ s.fails < MaxFailures THEN SUBSET keys ELSE {}}

DispatchingFinishKeepsItem(s, m, i) == Batch("finish", s, {"meta"}, m, i, Nil)

\* itemDispatchingFinish on the storage: both keys at once; failing that the
\* item, and then the metadata.
DispatchingFinish(s, m, i) ==
  UNION {IF first.ok THEN {first}
         ELSE UNION {IF deleted.ok THEN Batch("finish", deleted, {"meta"}, m, i, Nil) ELSE {deleted} :
                       deleted \in Batch("finish", first, {"item"}, m, i, Nil)} :
           first \in Batch("finish", s, {"meta", "item"}, m, i, Nil)}

Becomes(s) == disk' = s.disk /\ fails' = s.fails

\* unrefClient
UnrefClient ==
  /\ refClient' = refClient - 1
  /\ closes' = IF refClient = 1 THEN closes + 1 ELSE closes

(***************************************************************************)
(* The lock and the two condition variables.                               *)
(***************************************************************************)
LockFree == (\A o \in Offers : opc[o] # "drain") /\ (\A c \in Consumers : cpc[c] # "loop")

Goto(o, l) == opc' = [opc EXCEPT ![o] = l]

Return(o, r) == Goto(o, "returned") /\ result' = [result EXCEPT ![o] = r]

\* hasMoreSpace.Signal, see MemoryQueue.
SignalSpace(returns, blocks) ==
  \/ waiting = 0 /\ returns /\ UNCHANGED condVars
  \/ /\ waiting > 0
     /\ waiting' = waiting - 1
     /\ \/ ch < Slots /\ ch' = ch + 1 /\ returns
        \/ ch = Slots /\ blocks /\ UNCHANGED ch

WakeOneConsumer ==
  LET asleep == {c \in Consumers : cpc[c] = "asleep"} IN
  IF asleep = {} THEN UNCHANGED cpc
  ELSE \E c \in asleep : cpc' = [cpc EXCEPT ![c] = "read"]

Serving == phase \in {"run", "stopping", "stopped"}

(***************************************************************************)
(* Start: initClient.                                                      *)
(***************************************************************************)
CanFail(op) == op \in FailOps /\ fails < MaxFailures

Failed(b) == IF b THEN 1 ELSE 0

\* The elements at some indices.
At(indices) == {disk.items[i] : i \in indices} \ {Nil}

RetrieveWithoutCleanup(indices, next, earlier, unread) ==
  /\ pending' = [k \in 1..Len(indices) |-> disk.items[indices[k]]]
  /\ fails' = earlier
  /\ hit' = hit \cup At(unread)
  /\ phase' = next
  /\ UNCHANGED <<cpc, disk>>

\* enqueueNotDispatchedReqs up to its loop: retrieve the items, delete them.
\* The two calls fail independently, and the deletion may be partial; `earlier'
\* calls have failed before, which left some indices unread.
Retrieve(indices, next, earlier, unread) ==
  \E retrieved \in BOOLEAN, deleted \in SUBSET Range(indices) :
    LET failures == Failed(~retrieved) + Failed(deleted # Range(indices)) IN
    /\ indices = <<>> => failures = 0  \* no call is made
    /\ failures = 0 \/ ("recover" \in FailOps /\ earlier + failures <= MaxFailures)
    /\ pending' = IF retrieved THEN [k \in 1..Len(indices) |-> disk.items[indices[k]]] ELSE <<>>
    /\ hit' = hit \cup At(IF retrieved THEN unread ELSE unread \cup Range(indices))
    /\ disk' = [disk EXCEPT !.items = [i \in Indices |-> IF i \in deleted THEN Nil ELSE @[i]]]
    /\ fails' = earlier + failures
    /\ phase' = next
    /\ UNCHANGED cpc

\* Start has returned: the consumers run.
Serve ==
  /\ phase' = "run"
  /\ cpc' = [c \in Consumers |-> "read"]

Queued(m) == m.r .. (m.w - 1)

InUse(m) == Queued(m) \cup Range(m.cdi)

\* The metadata, and the elements, that Start would find in the storage now.
Found == IF disk.meta # Nil THEN disk.meta ELSE disk.legacy

Recoverable == IF Found = Nil THEN {} ELSE At(InUse(Found))

Start ==
  /\ phase = "down"
  /\ refClient' = 1
  /\ \/ /\ CanFail("load")  \* the metadata cannot be read: start with new ones
        /\ md' = ZeroMetadata
        /\ fails' = fails + 1
        /\ hit' = hit \cup Recoverable
        /\ Serve
        /\ UNCHANGED <<disk, pending>>
     \/ /\ disk.meta # Nil
        /\ md' = disk.meta
        /\ Retrieve(disk.meta.cdi, "requeue", fails, {})
     \/ /\ disk.meta = Nil
        /\ disk.legacy = Nil
        /\ md' = ZeroMetadata
        /\ Retrieve(<<>>, "requeueLegacy", fails, {})
     \/ /\ disk.meta = Nil
        /\ disk.legacy # Nil
        /\ \E indexes, dispatched \in BOOLEAN :  \* whether each of the two is read
             LET earlier == fails + Failed(~indexes) + Failed(~dispatched)
                 unread == (IF indexes THEN {} ELSE Queued(disk.legacy))
                           \cup (IF dispatched THEN {} ELSE Range(disk.legacy.cdi)) IN
             /\ earlier = fails \/ ("load" \in FailOps /\ earlier <= MaxFailures)
             /\ md' = IF indexes THEN [disk.legacy EXCEPT !.cdi = <<>>] ELSE ZeroMetadata
             /\ Retrieve(IF dispatched THEN disk.legacy.cdi ELSE <<>>, "requeueLegacy", earlier, unread)
  /\ UNCHANGED <<closes, opc, result, doneVars, condVars, finished, crashes>>

\* One round of the loop of enqueueNotDispatchedReqs: a missing value is skipped;
\* putInternal, whose error is only counted.
Requeue ==
  /\ phase \in {"requeue", "requeueLegacy"}
  /\ pending # <<>>
  /\ pending' = Tail(pending)
  /\ \/ Head(pending) = Nil /\ UNCHANGED <<md, disk, fails, hit>>
     \/ /\ Head(pending) # Nil
        /\ md.w < MaxIndex
        /\ md' = [md EXCEPT !.w = @ + 1]
        /\ \E s \in Batch("recover", Now, {"meta", "item"}, md', md.w, Head(pending)) :
             /\ Becomes(s)
             /\ hit' = IF s.ok THEN hit ELSE hit \cup {Head(pending)}
  /\ UNCHANGED <<phase, clientVars, opc, result, cpc, doneVars, condVars, finished, crashes>>

RequeueDone ==
  /\ phase = "requeue"
  /\ pending = <<>>
  /\ md' = [md EXCEPT !.cdi = <<>>]
  /\ Serve
  /\ UNCHANGED <<disk, pending, clientVars, opc, result, doneVars, condVars, outcome, crashes, fails>>

\* The end of loadLegacyMetadata: save in the new format, delete the old keys.
MigrateLegacy ==
  /\ phase = "requeueLegacy"
  /\ pending = <<>>
  /\ \E s \in Batch("recover", Now, {"meta"}, md, 0, Nil) :
       \/ s.ok /\ Becomes([s EXCEPT !.disk.legacy = Nil])
       \/ s.ok /\ CanFail("recover") /\ Becomes([s EXCEPT !.fails = @ + 1])
       \/ ~s.ok /\ Becomes(s)
  /\ Serve
  /\ UNCHANGED <<md, pending, clientVars, opc, result, doneVars, condVars, outcome, crashes>>

(***************************************************************************)
(* Offer.                                                                  *)
(***************************************************************************)
MayCall == phase = "run" \/ (~UpstreamStopsFirst /\ phase \in {"stopping", "stopped"})

Fits(o) == InternalSize + ActiveSize(o) <= Cap

PutWithoutSignal(o) ==
  /\ md.w < MaxIndex
  /\ md' = [md EXCEPT !.used = @ + Size[o], !.w = @ + 1]
  /\ \E s \in Batch("put", Now, {"meta", "item"}, md', md.w, o) :
       /\ Becomes(s)
       /\ Return(o, IF s.ok THEN "nil" ELSE "error")
  /\ UNCHANGED <<cpc, condVars>>

PutSwallowsError(o) ==
  /\ md.w < MaxIndex
  /\ md' = [md EXCEPT !.used = @ + Size[o], !.w = @ + 1]
  /\ \E s \in Batch("put", Now, {"meta", "item"}, md', md.w, o) : Becomes(s)
  /\ Return(o, "nil")
  /\ WakeOneConsumer
  /\ UNCHANGED condVars

\* The end of Offer, with putInternal.  A failed write leaves the counters and
\* the write index as they are and wakes nobody.
Put(o) ==
  /\ md.w < MaxIndex
  /\ md' = [md EXCEPT !.used = @ + Size[o], !.w = @ + 1]
  /\ \E s \in Batch("put", Now, {"meta", "item"}, md', md.w, o) :
       /\ Becomes(s)
       /\ \/ s.ok /\ Return(o, "nil") /\ WakeOneConsumer
          \/ ~s.ok /\ Return(o, "error") /\ UNCHANGED cpc
  /\ UNCHANGED condVars

WaitForSpace(o) ==
  /\ waiting' = waiting + 1
  /\ Goto(o, "select")
  /\ UNCHANGED <<md, disk, result, cpc, ch, fails>>

Offer(o) ==
  /\ opc[o] = "new"
  /\ MayCall
  /\ LockFree
  /\ \/ Fits(o) /\ Put(o)
     \/ ~Fits(o) /\ BlockOnOverflow /\ WaitForSpace(o)
     \/ /\ ~Fits(o) /\ ~BlockOnOverflow
        /\ Return(o, "full")
        /\ UNCHANGED <<md, disk, cpc, condVars, fails>>
  /\ UNCHANGED <<phase, pending, clientVars, doneVars, outcome, crashes>>

OfferWoken(o) ==
  /\ opc[o] = "woken"
  /\ LockFree
  /\ \/ Fits(o) /\ Put(o)
     \/ ~Fits(o) /\ WaitForSpace(o)
  /\ UNCHANGED <<phase, pending, clientVars, doneVars, outcome, crashes>>

\* The steps inside hasMoreSpace.Wait, see Cond.
SpaceSelectDone(o) ==
  /\ opc[o] = "select"
  /\ Goto(o, "cancelled")
  /\ UNCHANGED <<phase, md, disk, pending, clientVars, result, cpc, doneVars, condVars,
                 outcome, crashes, fails>>

SpaceSelectToken(o) ==
  /\ opc[o] = "select"
  /\ ch > 0
  /\ ch' = ch - 1
  /\ Goto(o, "woken")
  /\ UNCHANGED <<phase, md, disk, pending, clientVars, result, cpc, doneVars, waiting,
                 outcome, crashes, fails>>

SpaceCancel(o) ==
  /\ opc[o] = "cancelled"
  /\ LockFree
  /\ \/ waiting = 0 /\ Goto(o, "drain") /\ UNCHANGED <<result, waiting>>
     \/ waiting > 0 /\ waiting' = waiting - 1 /\ Return(o, "ctx")
  /\ UNCHANGED <<phase, md, disk, pending, clientVars, cpc, doneVars, ch, outcome, crashes, fails>>

SpaceDrain(o) ==
  /\ opc[o] = "drain"
  /\ ch > 0
  /\ ch' = ch - 1
  /\ Return(o, "ctx")
  /\ UNCHANGED <<phase, md, disk, pending, clientVars, cpc, doneVars, waiting, outcome, crashes, fails>>

(***************************************************************************)
(* The consumers: Read, onDone.                                            *)
(***************************************************************************)
ConsumerGoto(c, l) == cpc' = [cpc EXCEPT ![c] = l]

\* One round of the inner loop of Read, with getNextItem.  An item that cannot be
\* read is given up and deleted.
NextItem(c) ==
  LET i == md.r
      taken == [md EXCEPT !.r = @ + 1, !.cdi = Append(@, i)]
      value == disk.items[i]
  IN
  \E s \in Batch("get", Now, {"meta"}, taken, i, Nil) :
    \/ /\ s.ok /\ (value # Nil \/ NilDecodes)
       /\ Becomes(s)
       /\ md' = taken
       /\ refClient' = refClient + 1
       /\ dpc' = [dpc EXCEPT ![i] = "inflight"]
       /\ item' = [item EXCEPT ![i] = value]
       /\ ConsumerGoto(c, "busy")
       /\ UNCHANGED <<condVars, hit>>
    \/ /\ ~(s.ok /\ (value # Nil \/ NilDecodes))
       /\ md' = Undispatch(taken, i)
       /\ hit' = hit \cup ({value} \ {Nil})
       /\ \E f \in DispatchingFinish(s, md', i) : Becomes(f)
       /\ SignalSpace(ConsumerGoto(c, "loop"), ConsumerGoto(c, "sending"))
       /\ UNCHANGED <<refClient, doneVars>>

Read(c) ==
  /\ cpc[c] = "read"
  /\ LockFree
  /\ \/ /\ phase = "stopped"
        /\ ConsumerGoto(c, "exited")
        /\ UNCHANGED <<md, disk, refClient, doneVars, condVars, hit, fails>>
     \/ phase # "stopped" /\ md.r # md.w /\ NextItem(c)
     \/ /\ phase # "stopped" /\ md.r = md.w
        /\ ConsumerGoto(c, "asleep")
        /\ UNCHANGED <<md, disk, refClient, doneVars, condVars, hit, fails>>
  /\ UNCHANGED <<phase, pending, closes, opc, result, finished, crashes>>

\* The inner loop goes on, without another look at `stopped'.
ReadOn(c) ==
  /\ cpc[c] = "loop"
  /\ \/ md.r # md.w /\ NextItem(c)
     \/ /\ md.r = md.w
        /\ ConsumerGoto(c, "asleep")
        /\ UNCHANGED <<md, disk, refClient, doneVars, condVars, hit, fails>>
  /\ UNCHANGED <<phase, pending, closes, opc, result, finished, crashes>>

ReadSend(c) ==
  /\ cpc[c] = "sending"
  /\ ch < Slots
  /\ ch' = ch + 1
  /\ ConsumerGoto(c, "relock")
  /\ UNCHANGED <<phase, md, disk, pending, clientVars, opc, result, doneVars, waiting,
                 outcome, crashes, fails>>

ReadRelock(c) ==
  /\ cpc[c] = "relock"
  /\ LockFree
  /\ ConsumerGoto(c, "loop")
  /\ UNCHANGED <<phase, md, disk, pending, clientVars, opc, result, doneVars, condVars,
                 outcome, crashes, fails>>

ConsumeReturns(c) ==
  /\ cpc[c] = "busy"
  /\ ConsumerGoto(c, "read")
  /\ UNCHANGED <<phase, md, disk, pending, clientVars, opc, result, doneVars, condVars,
                 outcome, crashes, fails>>

DoneGoto(i, l) == dpc' = [dpc EXCEPT ![i] = l]

Forget(i) == DoneGoto(i, "no") /\ item' = [item EXCEPT ![i] = Nil]

OnDoneShutdownDeletes(i) ==
  /\ dpc[i] = "inflight"
  /\ LockFree
  /\ phase \in {"stopping", "stopped"}
  /\ Forget(i)
  /\ UnrefClient
  /\ md' = Undispatch(md, i)
  /\ \E s \in DispatchingFinish(Now, md', i) : Becomes(s)
  /\ UNCHANGED <<phase, pending, opc, result, cpc, condVars, outcome, crashes>>

OnDoneShutdownKeepsClient(i) ==
  /\ dpc[i] = "inflight"
  /\ LockFree
  /\ phase \in {"stopping", "stopped"}
  /\ Forget(i)
  /\ UNCHANGED <<phase, md, disk, pending, clientVars, opc, result, cpc, condVars, outcome, crashes, fails>>

\* The export was interrupted by the shutdown: the item stays as it is.
OnDoneShutdown(i) ==
  /\ dpc[i] = "inflight"
  /\ LockFree
  /\ phase \in {"stopping", "stopped"}
  /\ Forget(i)
  /\ UnrefClient
  /\ UNCHANGED <<phase, md, disk, pending, opc, result, cpc, condVars, outcome, crashes, fails>>

OnDone(i) ==
  /\ dpc[i] = "inflight"
  /\ LockFree
  /\ LET left == IF md.used < ItemSize(item[i]) THEN 0 ELSE md.used - ItemSize(item[i]) IN
     md' = Undispatch([md EXCEPT !.used = left], i)
  /\ \E s \in DispatchingFinish(Now, md', i) : Becomes(s)
  /\ finished' = finished \cup ({item[i]} \ {Nil})
  /\ SignalSpace(Forget(i) /\ UnrefClient, DoneGoto(i, "sending") /\ UNCHANGED <<item, clientVars>>)
  /\ UNCHANGED <<phase, pending, opc, result, cpc, hit, crashes>>

OnDoneSend(i) ==
  /\ dpc[i] = "sending"
  /\ ch < Slots
  /\ ch' = ch + 1
  /\ DoneGoto(i, "relock")
  /\ UNCHANGED <<phase, md, disk, pending, clientVars, opc, result, cpc, item, waiting,
                 outcome, crashes, fails>>

OnDoneRelock(i) ==
  /\ dpc[i] = "relock"
  /\ LockFree
  /\ Forget(i)
  /\ UnrefClient
  /\ UNCHANGED <<phase, md, disk, pending, opc, result, cpc, condVars, outcome, crashes, fails>>

(***************************************************************************)
(* The end of the exporter, and of the process.                            *)
(***************************************************************************)
\* BaseExporter.Shutdown stops its retry sender first, then the queue.
StopRetries ==
  /\ phase = "run"
  /\ UpstreamStopsFirst => \A o \in Offers : opc[o] \in {"new", "returned"}
  /\ phase' = "stopping"
  /\ UNCHANGED <<md, disk, pending, clientVars, opc, result, cpc, doneVars, condVars,
                 outcome, crashes, fails>>

Shutdown ==
  /\ phase = "stopping"
  /\ LockFree
  /\ phase' = "stopped"
  /\ cpc' = [c \in Consumers |-> IF cpc[c] = "asleep" THEN "read" ELSE cpc[c]]
  /\ UnrefClient
  /\ UNCHANGED <<md, disk, pending, opc, result, doneVars, condVars, outcome, crashes, fails>>

ShutdownReturned == phase = "stopped" /\ \A c \in Consumers : cpc[c] = "exited"

\* The process ends, by a crash or after an orderly shutdown: what is in memory
\* is lost.
ProcessEnds ==
  /\ Serving \/ (CrashInStart /\ phase # "down")
  /\ crashes < MaxCrashes
  /\ crashes' = crashes + 1
  /\ phase' = "down"
  /\ md' = ZeroMetadata
  /\ pending' = <<>>
  /\ refClient' = 0
  /\ closes' = 0
  /\ opc' = [o \in Offers |-> IF opc[o] = "new" THEN "new" ELSE "returned"]
  /\ result' = [o \in Offers |-> IF opc[o] \in {"new", "returned"} THEN result[o] ELSE "crashed"]
  /\ cpc' = [c \in Consumers |-> "exited"]
  /\ dpc' = [i \in Indices |-> "no"]
  /\ item' = [i \in Indices |-> Nil]
  /\ waiting' = 0
  /\ ch' = 0
  /\ UNCHANGED <<disk, outcome, fails>>

\* Nothing is left to do: not a deadlock.
Terminated ==
  /\ ShutdownReturned
  /\ \A o \in Offers : opc[o] \in {"new", "returned"}
  /\ \A i \in Indices : dpc[i] = "no"
  /\ UNCHANGED vars

StartStep == Start \/ Requeue \/ RequeueDone \/ MigrateLegacy

OfferStep(o) == OfferWoken(o) \/ SpaceSelectToken(o) \/ SpaceCancel(o) \/ SpaceDrain(o)

ConsumerStep(c) == Read(c) \/ ReadOn(c) \/ ReadSend(c) \/ ReadRelock(c) \/ ConsumeReturns(c)

DoneStep(i) == OnDoneShutdown(i) \/ OnDone(i) \/ OnDoneSend(i) \/ OnDoneRelock(i)

Next ==
  \/ StartStep
  \/ \E o \in Offers : Offer(o) \/ SpaceSelectDone(o) \/ OfferStep(o)
  \/ \E c \in Consumers : ConsumerStep(c)
  \/ \E i \in Indices : DoneStep(i)
  \/ StopRetries \/ Shutdown \/ ProcessEnds \/ Terminated

Spec == Init /\ [][Next]_vars

(***************************************************************************)
(* Fairness: a goroutine that can run does, exporting an element ends, a   *)
(* process that is down is started again.  Nobody is obliged to offer, to  *)
(* give up, to shut down or to crash.                                      *)
(***************************************************************************)
Fairness ==
  /\ WF_vars(StartStep)
  /\ \A o \in Offers : WF_vars(OfferStep(o))
  /\ \A c \in Consumers : WF_vars(ConsumerStep(c))
  /\ \A i \in Indices : WF_vars(DoneStep(i))

FairSpec == Spec /\ Fairness

(***************************************************************************)
(* Properties.                                                             *)
(***************************************************************************)
\* An element whose Offer succeeded is kept in the storage, where a restart finds
\* it, until its export is over: whatever crashes, failed writes and failed
\* deletions come in between (persistent_queue.go:305-318, 501-547).
NoLoss ==
  \A e \in Offers : result[e] = "nil" => e \in finished \cup Recoverable \cup Range(pending)

\* Whatever storage calls fail, those of Start included, an accepted element is
\* exported or kept in the storage, unless a later call for that element itself
\* failed: to read it or the metadata that lists it, or to put it back.  Nothing
\* else takes it away, no failed Offer of another element, no metadata that a failed
\* call wrote or did not write, no failed completion or deletion
\* (persistent_queue.go:305-318, 358-383, 456-490, 501-547).
NoCollateralLoss ==
  \A e \in Offers :
    result[e] = "nil" => e \in finished \cup hit \cup Recoverable \cup Range(pending)

\* An element whose export was reported done is not in the storage any more and
\* with no consumer, over any number of restarts: only an interrupted export is
\* repeated (persistent_queue.go:420, 456-490).
NoRepeat ==
  \A e \in finished :
    /\ e \notin Recoverable \cup Range(pending)
    /\ \A i \in Indices : dpc[i] = "inflight" => item[i] # e

\* The items or bytes in a set of elements, one by one.
Units(E) == UNION {{e} \X (1..ItemSize(e)) : e \in E}

\* While the queue serves, the storage holds exactly the items between the two
\* indices and the dispatched ones, and the counter is the size of the elements
\* there: nothing is left behind by completions, restarts or the legacy format.
StorageAccounted ==
  Serving => /\ {i \in Indices : disk.items[i] # Nil} = InUse(md)
             /\ {i \in Indices : dpc[i] = "inflight"} \subseteq Range(md.cdi)
             /\ Legacy = <<>> =>
                  md.used = Cardinality(Units({disk.items[i] : i \in InUse(md)}))

\* The size never exceeds the capacity, also when what a crashed process had
\* dispatched goes back into the queue (persistent_queue.go:144, 277).
WithinCapacity == Serving /\ Len(Legacy) <= Cap => InternalSize <= Cap

\* An empty queue has no used space (persistent_queue.go:334, 512).
EmptyIsUnused == Serving /\ RequestSize(md) = 0 => md.used = 0

\* The client has one reference for the queue and one for every element that is
\* with a consumer; it is closed once, when the last of them is gone.
ClientReferences ==
  Serving => /\ refClient = (IF phase = "stopped" THEN 0 ELSE 1)
                            + Cardinality({i \in Indices : dpc[i] # "no"})
             /\ closes = IF refClient = 0 THEN 1 ELSE 0

\* After the client is closed no goroutine of the queue is on its way to a storage
\* call (persistent_queue.go:386).
ClientUnusedAfterClose ==
  Closed => \A c \in Consumers : cpc[c] \notin {"loop", "sending", "relock"}

\* An accepted element is exported, after a restart if need be, unless the
\* exporter is shut down for good.
AcceptedIsExported ==
  \A e \in Offers : result[e] = "nil" ~> e \in finished \/ phase \in {"stopping", "stopped"}

\* Every Offer returns.
OfferReturns == \A o \in Offers : opc[o] \notin {"new", "returned"} ~> opc[o] = "returned"

\* Shutdown of the queue and its consumers returns, unless the process ends first.
ShutdownReturns == phase = "stopped" ~> ShutdownReturned \/ phase = "down"

\* A full queue has room again after a while (persistent_queue.go:311).
FullQueueDrains ==
  phase = "run" /\ InternalSize >= Cap ~> InternalSize < Cap \/ phase # "run"
=============================================================================
