----------------------------- MODULE MergeSplit -----------------------------
(***************************************************************************)
(* MergeSplit of the requests of logs, traces and metrics                  *)
(* (exporterhelper/internal/queuebatch/*_batch.go): a request is merged    *)
(* into the current one, and the result is split into requests of at most  *)
(* max, measured in items or in bytes of its protobuf encoding.            *)
(*                                                                         *)
(* A request is a sequence of resources, a resource a sequence of scopes,  *)
(* a scope a sequence of records, or of metrics that are sequences of data *)
(* points.  Of the contents only sizes matter: `own' is the size of what a *)
(* resource, scope or metric encodes besides its children.  Logs and       *)
(* traces are split by the same code.                                      *)
(***************************************************************************)
EXTENDS Integers, Sequences, FiniteSets, SequencesExt

CONSTANTS
  Modes,        \* pairs of a signal, "logs" (and traces) or "metrics", and a sizer
  Maxes,        \* values of max
  Requests,     \* current requests, for each signal
  Merged,       \* requests merged into them, for each signal
  NoRequest     \* r2 when there is nothing to merge

VARIABLES
  sig,          \* the signal
  szt,          \* the sizer: "items" or "bytes"
  max,          \* the maximum size of a request
  req,          \* the current request
  r2,           \* the request to merge into it
  cached,       \* the size of req in its SizeCache
  res,          \* the requests split from it
  dropped,      \* droppedItems
  reported,     \* the number of dropped items in the error that is returned
  pc,           \* "merge", "first", "loop", or "returned"
  turns,        \* history: the turns that the loop of split has taken
  whole         \* history: the items of the two requests

vars == <<sig, szt, max, req, r2, cached, res, dropped, reported, pc, turns, whole>>

----------------------------------------------------------------------------
(* The sizers. *)

\* sov: the length of n as a varint; a negative n is converted to a uint64.
Sov(n) == CASE n < 0 -> 10 [] n \in 0..127 -> 1 [] n \in 128..16383 -> 2 [] OTHER -> 3

\* What a child of size n adds to its parent: tag, length and contents.
DeltaSize(n) == IF szt = "bytes" THEN 1 + n + Sov(n) ELSE n

Own(x) == IF szt = "bytes" THEN x.own ELSE 0
Sum(kids, SizeOf(_)) == FoldLeft(LAMBDA n, x : n + DeltaSize(SizeOf(x)), 0, kids)

ItemSize(x) == IF szt = "bytes" THEN x.size ELSE 1

\* A metric's points are in a message of its own (Gauge, Sum...) with `extra'
\* bytes of other fields.
MetricSize(m) == Own(m) + DeltaSize((IF szt = "bytes" THEN m.extra ELSE 0) + Sum(m.kids, ItemSize))
ScopeSize(s) == Own(s) + (IF sig = "metrics" THEN Sum(s.kids, MetricSize) ELSE Sum(s.kids, ItemSize))
ResourceSize(r) == Own(r) + Sum(r.kids, ScopeSize)
RequestSize(r) == Sum(r, ResourceSize)

\* Every item with the resource, the scope and the metric it is under.
ScopeItems(r, s) ==
  IF sig = "metrics"
  THEN FlattenSeq([i \in 1..Len(s.kids) |->
         [j \in 1..Len(s.kids[i].kids) |->
            [item |-> s.kids[i].kids[j], own |-> <<r.own, s.own, s.kids[i].own>>]]])
  ELSE [i \in 1..Len(s.kids) |-> [item |-> s.kids[i], own |-> <<r.own, s.own>>]]
Items(request) ==
  FlattenSeq([i \in 1..Len(request) |->
    FlattenSeq([j \in 1..Len(request[i].kids) |-> ScopeItems(request[i], request[i].kids[j])])])
Count(request) == Len(Items(request))

----------------------------------------------------------------------------
(* Extraction: of a sequence, what fits into a capacity. *)

Start(left) == [left |-> left, removed |-> 0, src |-> <<>>, dest |-> <<>>]

\* The room for children in a parent that may take `capacity' of its own parent.
RoomWithoutLength(capacity, own) == capacity - own
Room(capacity, own) == capacity - (DeltaSize(capacity) - capacity) - own

\* The records of a scope or the points of a metric.  A record or a span larger
\* than maxItem fits no request and is dropped; a data point never is.
ExtractItems(items, capacity, maxItem) ==
  FoldLeft(LAMBDA acc, x :
    LET size == DeltaSize(ItemSize(x)) IN
      CASE acc.left = 0 -> [acc EXCEPT !.src = Append(@, x)]
        [] acc.left # 0 /\ sig = "logs" /\ size > maxItem -> [acc EXCEPT !.removed = @ + size]
        [] acc.left # 0 /\ ~(sig = "logs" /\ size > maxItem) /\ size > acc.left
             -> [acc EXCEPT !.left = 0, !.src = Append(@, x)]
        [] OTHER -> [acc EXCEPT !.left = @ - size, !.removed = @ + size, !.dest = Append(@, x)],
    Start(capacity), items)

\* The resources of a request, the scopes of a resource, the metrics of a scope:
\* those that fit are moved, the first that does not is extracted from, and what
\* is extracted is added if it has children.  With logs and traces a source that
\* was emptied goes.  The source shrinks to the delta size of what is left in it.
ExtractNested(nodes, capacity, SizeOf(_), Extract(_, _)) ==
  FoldLeft(LAMBDA acc, x :
    LET raw == SizeOf(x)
        ext == Extract(x, acc.left)
        emptied == sig = "logs" /\ ext.src = <<>>
    IN
      CASE acc.left = 0 -> [acc EXCEPT !.src = Append(@, x)]
        [] acc.left # 0 /\ DeltaSize(raw) > acc.left
             -> [left |-> 0,
                 removed |-> acc.removed + DeltaSize(raw)
                               - (IF emptied THEN 0 ELSE DeltaSize(raw - ext.removed)),
                 src |-> IF emptied THEN acc.src ELSE Append(acc.src, [x EXCEPT !.kids = ext.src]),
                 dest |-> IF ext.dest = <<>> THEN acc.dest
                          ELSE Append(acc.dest, [x EXCEPT !.kids = ext.dest])]
        [] OTHER -> [acc EXCEPT !.left = @ - DeltaSize(raw), !.removed = @ + DeltaSize(raw),
                                !.dest = Append(@, x)],
    Start(capacity), nodes)

\* The new metric has its message of points already, without the extra fields.
ExtractMetric(m, capacity) ==
  ExtractItems(m.kids, Room(capacity, Own(m) + DeltaSize(0)), 0)
ExtractScopeDropsUnfit(s, capacity, maxScope) ==
  IF sig = "metrics"
  THEN ExtractNested(s.kids, Room(capacity, Own(s)), MetricSize, ExtractMetric)
  ELSE ExtractItems(s.kids, Room(capacity, Own(s)), Room(capacity, Own(s)))
ExtractScope(s, capacity, maxScope) ==
  IF sig = "metrics"
  THEN ExtractNested(s.kids, Room(capacity, Own(s)), MetricSize, ExtractMetric)
  ELSE ExtractItems(s.kids, Room(capacity, Own(s)), Room(maxScope, Own(s)))
ExtractResource(r, capacity) ==
  ExtractNested(r.kids, Room(capacity, Own(r)), ScopeSize,
                LAMBDA s, left : ExtractScope(s, left, Room(max, Own(r))))
Extract(request) == ExtractNested(request, max, ResourceSize, ExtractResource)

----------------------------------------------------------------------------
Init ==
  /\ \E mode \in Modes : sig = mode[1] /\ szt = mode[2]
  /\ max \in Maxes
  /\ req \in Requests[sig]
  /\ r2 \in Merged[sig] \cup {NoRequest}
  /\ cached = RequestSize(req)
  /\ res = <<>>
  /\ dropped = 0
  /\ reported = 0
  /\ pc = "merge"
  /\ turns = 0
  /\ whole = Items(req) \o (IF r2 = NoRequest THEN <<>> ELSE Items(r2))

\* mergeTo, and the return when there is no maximum.
MergeForgetsSize ==
  /\ pc = "merge"
  /\ req' = IF r2 = NoRequest THEN req ELSE req \o r2
  /\ IF max = 0 THEN pc' = "returned" /\ res' = <<req'>>
                ELSE pc' = "first" /\ UNCHANGED res
  /\ UNCHANGED <<sig, szt, max, r2, cached, dropped, reported, turns, whole>>
Merge ==
  /\ pc = "merge"
  /\ req' = IF r2 = NoRequest THEN req ELSE req \o r2
  /\ cached' = IF r2 = NoRequest THEN cached ELSE cached + RequestSize(r2)
  /\ IF max = 0 THEN pc' = "returned" /\ res' = <<req'>>
                ELSE pc' = "first" /\ UNCHANGED res
  /\ UNCHANGED <<sig, szt, max, r2, dropped, reported, turns, whole>>

\* split returns a request that is small enough as it is.
Fits ==
  /\ pc = "first" /\ cached <= max
  /\ res' = <<req>>
  /\ pc' = "returned"
  /\ UNCHANGED <<sig, szt, max, req, r2, cached, dropped, reported, turns, whole>>

\* One turn of the loop of split.
NeverStuck(ext) == FALSE
Stuck(ext) == IF sig = "metrics" THEN Count(ext.dest) = 0 ELSE ext.removed = 0

SplitOnce ==
  /\ pc \in {"first", "loop"} /\ cached > max
  /\ \E ext \in {Extract(req)} :
       /\ req' = ext.src
       /\ \/ /\ Stuck(ext)
             /\ reported' = dropped + Count(ext.src)
             /\ pc' = "returned"
             /\ UNCHANGED <<cached, dropped, res>>
          \/ /\ ~Stuck(ext)
             /\ cached' = cached - ext.removed
             /\ dropped' = dropped + (IF sig = "metrics" THEN 0
                                      ELSE Count(req) - Count(ext.src) - Count(ext.dest))
             /\ res' = IF sig = "logs" /\ Count(ext.dest) = 0 THEN res ELSE Append(res, ext.dest)
             /\ pc' = "loop"
             /\ UNCHANGED reported
  /\ turns' = turns + 1
  /\ UNCHANGED <<sig, szt, max, r2, whole>>

\* The end of split: what is left is the last request.
FinishForgetsRest ==
  /\ pc = "loop" /\ cached <= max
  /\ reported' = dropped
  /\ pc' = "returned"
  /\ UNCHANGED <<sig, szt, max, req, r2, cached, res, dropped, turns, whole>>
Finish ==
  /\ pc = "loop" /\ cached <= max
  /\ res' = IF sig = "logs" /\ Count(req) = 0 THEN res ELSE Append(res, req)
  /\ reported' = dropped
  /\ pc' = "returned"
  /\ UNCHANGED <<sig, szt, max, req, r2, cached, dropped, turns, whole>>

Returned == pc = "returned" /\ UNCHANGED vars

Next == Merge \/ Fits \/ SplitOnce \/ Finish \/ Returned

Spec == Init /\ [][Next]_vars

----------------------------------------------------------------------------
(* Properties *)

\* The variables keep their types.
TypeOK ==
  /\ <<sig, szt>> \in Modes
  /\ max \in Maxes
  /\ dropped \in Nat /\ reported \in Nat /\ cached \in Int
  /\ pc \in {"merge", "first", "loop", "returned"}

Out == FlattenSeq([i \in 1..Len(res) |-> Items(res[i])])
Left == IF pc = "merge" THEN whole ELSE IF pc = "returned" THEN <<>> ELSE Items(req)

\* No item is lost, repeated, reordered or put under another resource, scope or
\* metric: the returned requests and what is still to be split hold the items of
\* the two requests, but for as many as the error says were dropped.
ItemsAccounted ==
  LET held == Out \o Left
  IN  /\ held = SelectSeq(whole, LAMBDA x : x \in Range(held))
      /\ Len(whole) - Len(held) = IF pc = "returned" THEN reported ELSE dropped

\* No returned request is larger than the maximum.
PiecesWithinMax ==
  max > 0 => \A i \in 1..Len(res) : RequestSize(res[i]) <= max

\* The size that the loop tests, kept up to date by subtraction, is the size of
\* the request.
CachedSizeTrue == pc # "merge" /\ pc # "returned" => cached = RequestSize(req)

\* The size of a request that holds one item alone.
Alone(x) == DeltaSize(x.own[1] + DeltaSize(x.own[2] + DeltaSize(x.item.size)))

\* A record or a span that the loop drops fits no request, but for the two bytes
\* that the lengths of its resource and its scope may need less than is reserved.
DroppedIsOversized ==
  pc = "returned" /\ sig = "logs" /\ szt = "bytes" /\ reported = dropped =>
    \A x \in Range(whole) : x \notin Range(Out) => Alone(x) > max - 2

\* A record or a span is dropped only if it fits no request.  (Others are: those
\* behind a resource or a scope that itself takes exactly all of the maximum.)
OnlyOversizedDropped ==
  pc = "returned" /\ sig = "logs" /\ szt = "bytes" =>
    \A x \in Range(whole) : x \notin Range(Out) => max > 0 /\ Alone(x) > max

\* The loop of split ends: every turn but the last makes the size smaller that
\* the loop compares with the maximum.
SplitProgress == [][turns' # turns /\ pc' = "loop" => cached' < cached]_vars
============================================================================
