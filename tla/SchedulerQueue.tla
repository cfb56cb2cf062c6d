--------------------------- MODULE SchedulerQueue ---------------------------
(* The class SchedulerQueue of internal/scheduler.ts, field by field: a      *)
(* doubly linked list in order of submission and, once two priorities have   *)
(* met, a binary heap over the same tasks. Every method runs to its end      *)
(* without calling user code, so each is one action; what can go wrong is    *)
(* that the two representations drift apart over a long sequence of calls.   *)
(* Array indexes count from 0 as in the code: items[i + 1] is its items[i].  *)
(* X_Y is X with the slip Y in it, used only to see the properties fail.     *)
EXTENDS Integers, Sequences, FiniteSets

CONSTANTS
  MaxTasks,     \* bound: number of tasks ever inserted
  Priorities,   \* priorities a task may have
  Limits,       \* queue bounds an operation may enforce
  Null          \* null and undefined

ASSUME QueueAssumption ==
  /\ MaxTasks \in Nat \ {0} /\ Priorities \subseteq Nat
  /\ Limits \subseteq Nat /\ Null \notin Nat

Tasks == 1..MaxTasks   \* a task is its sequence number
Policies == {"reject", "drop-oldest"}
FIFO == -2             \* FIFO_QUEUE_INDEX

VARIABLES
  submittedTasks,  \* tasks inserted so far
  priority,        \* priority of each task
  q,               \* the fields of the queue and the queue fields of its tasks
  out              \* the last method called, and the tasks it took out

vars == <<submittedTasks, priority, q, out>>

(* The call of a method with its arguments, and what it took from the queue. *)
Took(call, tasks) == [call |-> call, tasks |-> tasks]

QueueType ==
  [items : Seq(Tasks), queueIndex : [Tasks -> Int],
   previous : [Tasks -> Tasks \cup {Null}], next : [Tasks -> Tasks \cup {Null}],
   oldest : Tasks \cup {Null}, newest : Tasks \cup {Null},
   size : Nat, uniform : Nat \cup {Null}, heapMode : BOOLEAN]

(* The shapes of the queue's fields; links never leave the set of tasks.     *)
TypeOK ==
  /\ submittedTasks \in 0..MaxTasks
  /\ priority \in [Tasks -> Priorities \cup {0}]
  /\ q \in QueueType
  /\ out.tasks \in Seq(Tasks)

Init ==
  /\ submittedTasks = 0 /\ priority = [t \in Tasks |-> 0]
  /\ q = [items |-> <<>>, queueIndex |-> [t \in Tasks |-> -1],
          previous |-> [t \in Tasks |-> Null], next |-> [t \in Tasks |-> Null],
          oldest |-> Null, newest |-> Null, size |-> 0, uniform |-> Null,
          heapMode |-> FALSE]
  /\ out = Took(<<>>, <<>>)

-----------------------------------------------------------------------------
(* The heap. prio is the priority function the tasks are compared with.      *)

Before(prio, a, b) == prio[a] > prio[b] \/ (prio[a] = prio[b] /\ a < b)
Parent(i) == (i - 1) \div 2

(* items[i] = t; t.queueIndex = i                                            *)
Put(s, i, t) ==
  [s EXCEPT !.items = [@ EXCEPT ![i + 1] = t],
            !.queueIndex = [@ EXCEPT ![t] = i]]
Push(s, t) ==
  [s EXCEPT !.queueIndex = [@ EXCEPT ![t] = Len(s.items)],
            !.items = Append(@, t)]

(* n iterations of a loop that starts with start and whose body is the       *)
(* function body. A body leaves the loop's state as it is once the loop is   *)
(* over, and n is never less than the iterations the loop makes.             *)
Repeat(body, n, start) ==
  LET after[k \in 0..n] == IF k = 0 THEN start ELSE body[after[k - 1]]
  IN after[n]

(* A loop over the heap holds an index and the queue.                        *)
AtIndex == [index : Int, q : QueueType]

UpStep(prio, t) ==
  [l \in AtIndex |->
     LET parent == l.q.items[Parent(l.index) + 1]
     IN IF l.index = 0 \/ ~Before(prio, t, parent) THEN l
        ELSE [index |-> Parent(l.index), q |-> Put(l.q, l.index, parent)]]

SiftUp(prio, s, i) ==
  LET t == s.items[i + 1]
      end == Repeat(UpStep(prio, t), Len(s.items), [index |-> i, q |-> s])
  IN Put(end.q, end.index, t)

(* Where the child of i that goes first is.                                  *)
FirstChild(prio, items, i) ==
  LET left == 2 * i + 1
      right == left + 1
  IN IF right < Len(items) /\ Before(prio, items[right + 1], items[left + 1])
     THEN right ELSE left

DownStep(prio, t) ==
  [l \in AtIndex |->
     LET best == FirstChild(prio, l.q.items, l.index)
         child == l.q.items[best + 1]
     IN IF l.index >= Len(l.q.items) \div 2 \/ ~Before(prio, child, t) THEN l
        ELSE [index |-> best, q |-> Put(l.q, l.index, child)]]

SiftDown(prio, s, i) ==
  LET t == s.items[i + 1]
      end == Repeat(DownStep(prio, t), Len(s.items), [index |-> i, q |-> s])
  IN Put(end.q, end.index, t)

(* A loop over the list holds the next task and the tasks seen.              *)
AtTask == [at : Tasks \cup {Null}, seen : Seq(Tasks)]

WalkStep(link) ==
  [l \in AtTask |->
     IF l.at = Null THEN l
     ELSE [at |-> link[l.at], seen |-> Append(l.seen, l.at)]]

(* The tasks from t on, along the links.                                     *)
Walk(link, t) ==
  Repeat(WalkStep(link), MaxTasks, [at |-> t, seen |-> <<>>]).seen

(* The tasks of the queue in order of submission.                            *)
Listed(s) == Walk(s.next, s.oldest)

PushStep ==
  [l \in [at : Tasks \cup {Null}, q : QueueType] |->
     IF l.at = Null THEN l
     ELSE [at |-> l.q.next[l.at], q |-> Push(l.q, l.at)]]

HeapifyStep(prio) ==
  [l \in AtIndex |->
     IF l.index < 0 THEN l
     ELSE [index |-> l.index - 1, q |-> SiftDown(prio, l.q, l.index)]]

PromoteToHeap(prio, s) ==
  LET pushed == Repeat(PushStep, MaxTasks,
                       [at |-> s.oldest, q |-> [s EXCEPT !.heapMode = TRUE]]).q
      n == Len(pushed.items)
  IN Repeat(HeapifyStep(prio), n, [index |-> n \div 2 - 1, q |-> pushed]).q

-----------------------------------------------------------------------------
(* The methods, as functions of the queue's state.                           *)

LinkLast(s, t) ==
  [s EXCEPT !.previous = [@ EXCEPT ![t] = s.newest],
            !.next = IF s.newest = Null THEN [@ EXCEPT ![t] = Null]
                     ELSE [@ EXCEPT ![t] = Null, ![s.newest] = t],
            !.oldest = IF s.newest = Null THEN t ELSE @,
            !.newest = t,
            !.size = @ + 1]

Inserted_AlwaysFifo(prio, s, t) ==
  LET linked == LinkLast(s, t)
      known == IF linked.size = 1 THEN [linked EXCEPT !.uniform = prio[t]]
               ELSE linked
  IN IF s.heapMode
     THEN LET pushed == Push(linked, t)
          IN SiftUp(prio, pushed, pushed.queueIndex[t])
     ELSE [known EXCEPT !.queueIndex = [@ EXCEPT ![t] = FIFO]]

Inserted(prio, s, t) ==
  LET linked == LinkLast(s, t)
      known == IF linked.size = 1 THEN [linked EXCEPT !.uniform = prio[t]]
               ELSE linked
  IN IF s.heapMode
     THEN LET pushed == Push(linked, t)
          IN SiftUp(prio, pushed, pushed.queueIndex[t])
     ELSE IF prio[t] = known.uniform
          THEN [known EXCEPT !.queueIndex = [@ EXCEPT ![t] = FIFO]]
          ELSE PromoteToHeap(prio, known)

Contains(s, t) ==
  IF s.queueIndex[t] = FIFO
  THEN ~s.heapMode
       /\ (s.previous[t] # Null \/ s.next[t] # Null \/ s.oldest = t)
  ELSE /\ s.queueIndex[t] \in 0..(Len(s.items) - 1)
       /\ s.items[s.queueIndex[t] + 1] = t

(* The last item takes the place of the one removed and moves up or down.    *)
LeaveHeap_DownOnly(prio, s, t) ==
  LET index == s.queueIndex[t]
      last == s.items[Len(s.items)]
      popped == [s EXCEPT !.items = SubSeq(@, 1, Len(@) - 1)]
  IN IF index >= Len(popped.items) THEN popped
     ELSE SiftDown(prio, Put(popped, index, last), index)

LeaveHeap(prio, s, t) ==
  LET index == s.queueIndex[t]
      last == s.items[Len(s.items)]
      popped == [s EXCEPT !.items = SubSeq(@, 1, Len(@) - 1)]
      moved == Put(popped, index, last)
  IN IF index >= Len(popped.items) THEN popped
     ELSE IF index > 0 /\ Before(prio, last, moved.items[Parent(index) + 1])
          THEN SiftUp(prio, moved, index)
          ELSE SiftDown(prio, moved, index)

Unlink_KeepsNewest(s, t) ==
  LET p == s.previous[t]
      n == s.next[t]
      unlinked == [v \in Tasks |-> IF v = p THEN n ELSE s.next[v]]
  IN [s EXCEPT !.next = [unlinked EXCEPT ![t] = Null],
               !.previous = [v \in Tasks |-> IF v = t THEN Null
                                             ELSE IF v = n THEN p ELSE @[v]],
               !.oldest = IF p = Null THEN n ELSE @,
               !.queueIndex = [@ EXCEPT ![t] = -1],
               !.size = @ - 1]

Unlink(s, t) ==
  LET p == s.previous[t]
      n == s.next[t]
      unlinked == [v \in Tasks |-> IF v = p THEN n ELSE s.next[v]]
  IN [s EXCEPT !.next = [unlinked EXCEPT ![t] = Null],
               !.previous = [v \in Tasks |-> IF v = t THEN Null
                                             ELSE IF v = n THEN p ELSE @[v]],
               !.oldest = IF p = Null THEN n ELSE @,
               !.newest = IF n = Null THEN p ELSE @,
               !.queueIndex = [@ EXCEPT ![t] = -1],
               !.size = @ - 1]

(* An empty queue forgets its mode.                                          *)
Reset(s) == [s EXCEPT !.items = <<>>, !.uniform = Null, !.heapMode = FALSE]

Removed(prio, s, t) ==
  LET left == Unlink(IF s.heapMode THEN LeaveHeap(prio, s, t) ELSE s, t)
  IN IF left.size = 0 THEN Reset(left) ELSE left

Drained(s) ==
  LET gone == Listed(s)
      Gone(t) == \E i \in 1..Len(gone) : gone[i] = t
  IN [Reset(s) EXCEPT
        !.queueIndex = [t \in Tasks |-> IF Gone(t) THEN -1 ELSE @[t]],
        !.previous = [t \in Tasks |-> IF Gone(t) THEN Null ELSE @[t]],
        !.next = [t \in Tasks |-> IF Gone(t) THEN Null ELSE @[t]],
        !.oldest = Null, !.newest = Null, !.size = 0]

(* The loop of enforceLimit holds its victims so far and the queue.          *)
LimitStep(prio, submitted, limit, policy) ==
  [l \in [gone : Seq(Tasks), q : QueueType] |->
     LET victim == IF ~Contains(l.q, submitted) \/ policy = "drop-oldest"
                   THEN l.q.oldest ELSE submitted
     IN IF l.q.size <= limit \/ victim = Null \/ ~Contains(l.q, victim) THEN l
        ELSE [gone |-> Append(l.gone, victim),
              q |-> Removed(prio, l.q, victim)]]

Limited(prio, s, submitted, limit, policy) ==
  Repeat(LimitStep(prio, submitted, limit, policy), MaxTasks,
         [gone |-> <<>>, q |-> s])

-----------------------------------------------------------------------------
(* The actions: one per method the pool calls.                               *)

(* insert(), of a new task                                                   *)
Insert(p) ==
  /\ submittedTasks < MaxTasks
  /\ LET t == submittedTasks + 1 IN
       /\ submittedTasks' = t
       /\ priority' = [priority EXCEPT ![t] = p]
       /\ q' = Inserted(priority', q, t)
  /\ out' = Took(<<"insert">>, <<>>)

Remove(t) ==
  /\ t <= submittedTasks
  /\ q' = IF Contains(q, t) THEN Removed(priority, q, t) ELSE q
  /\ out' = Took(<<"remove", t>>, IF Contains(q, t) THEN <<t>> ELSE <<>>)
  /\ UNCHANGED <<submittedTasks, priority>>

(* shift() returns the task whether or not remove() found it.                *)
Shift ==
  /\ LET first == IF q.heapMode THEN q.items[1] ELSE q.oldest IN
       IF first = Null THEN out' = Took(<<"shift">>, <<>>) /\ UNCHANGED q
       ELSE /\ out' = Took(<<"shift">>, <<first>>)
            /\ q' = IF Contains(q, first) THEN Removed(priority, q, first)
                    ELSE q
  /\ UNCHANGED <<submittedTasks, priority>>

Drain ==
  /\ out' = Took(<<"drain">>, Listed(q)) /\ q' = Drained(q)
  /\ UNCHANGED <<submittedTasks, priority>>

EnforceLimit(t, limit, policy) ==
  /\ t <= submittedTasks
  /\ LET end == Limited(priority, q, t, limit, policy)
     IN /\ q' = end.q
        /\ out' = Took(<<"enforceLimit", t, limit, policy>>, end.gone)
  /\ UNCHANGED <<submittedTasks, priority>>

Next ==
  \/ \E p \in Priorities : Insert(p)
  \/ Shift \/ Drain
  \/ \E t \in Tasks : Remove(t)
  \/ \E t \in Tasks, limit \in Limits, policy \in Policies :
       EnforceLimit(t, limit, policy)

Spec == Init /\ [][Next]_vars

-----------------------------------------------------------------------------
(* Safety.                                                                   *)

Members(s) == {s[i] : i \in 1..Len(s)}

(* The linked list reads the same in both directions, its length is the      *)
(* queue's, and contains() answers by it: the authority the class comment    *)
(* gives the list (lines 30-37).                                             *)
ListSound ==
  LET forward == Listed(q)
      backward == Walk(q.previous, q.newest)
      n == Len(forward)
  IN /\ n = q.size /\ Len(backward) = n
     /\ \A i \in 1..n : backward[i] = forward[n + 1 - i]
     /\ \A t \in Tasks : Contains(q, t) <=> t \in Members(forward)

(* In heap mode the array holds the tasks of the list, each at its own       *)
(* queueIndex, none before its parent; in FIFO mode the array is empty and   *)
(* one priority is shared by all (lines 33-37).                              *)
HeapSound ==
  IF q.heapMode
  THEN /\ Members(q.items) = Members(Listed(q)) /\ Len(q.items) = q.size
       /\ \A i \in 0..(Len(q.items) - 1) :
            /\ q.queueIndex[q.items[i + 1]] = i
            /\ i > 0 => ~Before(priority, q.items[i + 1],
                                q.items[Parent(i) + 1])
  ELSE /\ q.items = <<>>
       /\ \A t \in Members(Listed(q)) : priority[t] = q.uniform

(* Over any sequence of calls the two representations stay sound and hold    *)
(* the same tasks.                                                           *)
RepresentationsAgree == TypeOK /\ ListSound /\ HeapSound

Promise == INSTANCE AbstractQueue WITH queue <- Listed(q)

(* The queue does what the pool relies on: by priority and then in order of  *)
(* submission, with the evictions of PriorityQueue.                          *)
ImplementsPromise == Promise!AbstractSpec
=============================================================================
