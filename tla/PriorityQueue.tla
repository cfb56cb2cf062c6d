--------------------------- MODULE PriorityQueue ---------------------------
(* What the scheduler's queue promises its client: a sequence of task        *)
(* numbers in enqueue order (the linked list of internal/scheduler.ts, which *)
(* its class comment declares authoritative), from which shift() takes the   *)
(* task of highest priority, ties going to the smallest sequence number, and *)
(* which enforceLimit() cuts back to a bound. WorkerPool.tla uses these      *)
(* operators; SchedulerQueue.tla checks that the heap and linked list of the *)
(* code compute them. X_Y is X with the slip Y in it, a plausible coding     *)
(* mistake used only to see the properties fail.                             *)
EXTENDS Naturals, Sequences

Elems(q) == {q[i] : i \in 1..Len(q)}

(* A task number is its sequence number, so < is the order of submission.    *)
Ahead(priority, a, b) ==
  \/ priority[a] > priority[b]
  \/ priority[a] = priority[b] /\ a < b

(* The index of t in q.                                                      *)
IndexOf(q, t) == CHOOSE i \in 1..Len(q) : q[i] = t

(* SchedulerQueue.remove(): nothing happens when t is not queued.            *)
Without(q, t) ==
  IF t \in Elems(q)
  THEN LET i == IndexOf(q, t)
       IN SubSeq(q, 1, i - 1) \o SubSeq(q, i + 1, Len(q))
  ELSE q

(* SchedulerQueue.shift() of a non-empty queue takes the only member.        *)
Firsts(q, priority) ==
  {t \in Elems(q) : \A u \in Elems(q) \ {t} : Ahead(priority, t, u)}

(* SchedulerQueue.enforceLimit(): the tasks to evict, in eviction order. The *)
(* submitted task goes first under "reject"; otherwise, and when it is no    *)
(* longer queued, the oldest tasks go.                                       *)
Evicted(q, submitted, limit, policy) ==
  LET excess == Len(q) - limit
      newestFirst == policy = "reject" /\ submitted \in Elems(q)
  IN CASE Len(q) <= limit -> <<>>
       [] Len(q) > limit /\ newestFirst ->
            <<submitted>> \o SubSeq(Without(q, submitted), 1, excess - 1)
       [] OTHER -> SubSeq(q, 1, excess)

Kept_OneMore(q, submitted, limit, policy) ==
  IF Len(q) <= limit + 1 THEN q
  ELSE SubSeq(q, Len(q) - limit, Len(q))

(* The queue enforceLimit() leaves behind.                                   *)
Kept(q, submitted, limit, policy) ==
  LET excess == Len(q) - limit
      newestFirst == policy = "reject" /\ submitted \in Elems(q)
  IN CASE Len(q) <= limit -> q
       [] Len(q) > limit /\ newestFirst ->
            SubSeq(Without(q, submitted), excess, Len(q) - 1)
       [] OTHER -> SubSeq(q, excess + 1, Len(q))
=============================================================================
