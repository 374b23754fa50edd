---------------------------- MODULE BoundedQueue ----------------------------
(***************************************************************************)
(* What a sending queue promises (the Queue and readableQueue interfaces   *)
(* of exporter/exporterhelper/internal/queue/queue.go): elements are       *)
(* accepted only while they fit, leave in the order they were accepted, at *)
(* most once, and give their space back exactly once.                      *)
(***************************************************************************)
EXTENDS Integers

CONSTANTS
  Offers,  \* the elements, one for each call of Offer
  Size,    \* size of each element
  Cap      \* capacity of the queue

VARIABLES
  queue,     \* elements accepted and not yet read
  before,    \* pairs of them: the first was accepted before the second
  inflight,  \* elements read and not yet reported done
  used,      \* space taken
  gone       \* elements reported done or withdrawn

vars == <<queue, before, inflight, used, gone>>

Init ==
  /\ queue = {}
  /\ before = {}
  /\ inflight = {}
  /\ used = 0
  /\ gone = {}

Accept(e) ==
  /\ e \notin queue \cup inflight \cup gone
  /\ used + Size[e] <= Cap
  /\ queue' = queue \cup {e}
  /\ before' = before \cup (queue \X {e})
  /\ used' = used + Size[e]
  /\ UNCHANGED <<inflight, gone>>

LeaveQueue(e) ==
  /\ queue' = queue \ {e}
  /\ before' = {p \in before : p[1] # e /\ p[2] # e}

\* The oldest element is handed to a consumer.
Take(e) ==
  /\ e \in queue
  /\ \A f \in queue : <<f, e>> \notin before
  /\ LeaveQueue(e)
  /\ inflight' = inflight \cup {e}
  /\ UNCHANGED <<used, gone>>

Finish(e) ==
  /\ e \in inflight
  /\ inflight' = inflight \ {e}
  /\ gone' = gone \cup {e}
  /\ used' = used - Size[e]
  /\ UNCHANGED <<queue, before>>

\* The caller that waits for the outcome of a queued element gives up.
Withdraw(e) ==
  /\ e \in queue
  /\ LeaveQueue(e)
  /\ gone' = gone \cup {e}
  /\ used' = used - Size[e]
  /\ UNCHANGED inflight

Next == \E e \in Offers : Accept(e) \/ Take(e) \/ Finish(e) \/ Withdraw(e)

Spec == Init /\ [][Next]_vars
=============================================================================
