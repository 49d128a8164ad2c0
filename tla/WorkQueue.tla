------------------------------ MODULE WorkQueue ------------------------------
(***************************************************************************)
(* The rate limiting work queue of client-go that the controller shares    *)
(* between its informer and its workers, as operators on one record:       *)
(*   queue       keys ready to be taken, first come first served           *)
(*   dirty       keys that need processing                                 *)
(*   processing  keys taken and not given back with Done                   *)
(*   waiting     keys whose AddAfter or back-off timer is running          *)
(*   requeues    how often a key has been added rate limited since Forget  *)
(* Timers of any length are the same: a key waits until its timer fires,   *)
(* and of two timers of one key only the earlier one counts.               *)
(***************************************************************************)
EXTENDS Naturals, Sequences

NewQueue(Keys) ==
    [queue |-> <<>>, dirty |-> {}, processing |-> {}, waiting |-> {},
     requeues |-> [k \in Keys |-> 0]]

Queued(q, k) == \E i \in 1..Len(q.queue) : q.queue[i] = k

\* A key is queued once however often it is added, and a key that is being
\* processed only when it is done.
Add(q, k) ==
    [q EXCEPT !.dirty = @ \cup {k},
              !.queue = IF k \in q.dirty \cup q.processing THEN @ ELSE Append(@, k)]

Take(q) ==
    [q EXCEPT !.dirty = @ \ {Head(q.queue)},
              !.processing = @ \cup {Head(q.queue)},
              !.queue = Tail(@)]

Done(q, k) ==
    [q EXCEPT !.processing = @ \ {k},
              !.queue = IF k \in q.dirty THEN Append(@, k) ELSE @]

AddAfter(q, k) == [q EXCEPT !.waiting = @ \cup {k}]

Fire(q, k) == Add([q EXCEPT !.waiting = @ \ {k}], k)

AddRateLimited(q, k) ==
    AddAfter([q EXCEPT !.requeues = [@ EXCEPT ![k] = q.requeues[k] + 1]], k)

Forget(q, k) == [q EXCEPT !.requeues = [@ EXCEPT ![k] = 0]]

=============================================================================
