--------------------------- MODULE AbstractQueue ---------------------------
(* What the queue class of internal/scheduler.ts promises the pool: a        *)
(* sequence in order of submission, taken from by priority; "out" is the     *)
(* last call and the tasks it took from the queue.                           *)
EXTENDS PriorityQueue, FiniteSets

CONSTANTS
  MaxTasks,     \* bound: number of tasks ever inserted
  Priorities,   \* priorities a task may have
  Limits        \* queue bounds an operation may enforce

Tasks == 1..MaxTasks
Policies == {"reject", "drop-oldest"}

VARIABLES submittedTasks, priority, queue, out

Taken(call, tasks) == [call |-> call, tasks |-> tasks]

abstractVars == <<submittedTasks, priority, queue, out>>

AbstractInit ==
  /\ submittedTasks = 0 /\ priority = [t \in Tasks |-> 0]
  /\ queue = <<>> /\ out = Taken(<<>>, <<>>)

AbstractInsert(p) ==
  /\ submittedTasks < MaxTasks
  /\ submittedTasks' = submittedTasks + 1
  /\ priority' = [priority EXCEPT ![submittedTasks + 1] = p]
  /\ queue' = Append(queue, submittedTasks + 1)
  /\ out' = Taken(<<"insert">>, <<>>)

AbstractShift ==
  /\ \/ queue = <<>> /\ out' = Taken(<<"shift">>, <<>>) /\ UNCHANGED queue
     \/ \E t \in Firsts(queue, priority) :
          out' = Taken(<<"shift">>, <<t>>) /\ queue' = Without(queue, t)
  /\ UNCHANGED <<submittedTasks, priority>>

AbstractRemove(t) ==
  /\ t <= submittedTasks
  /\ out' = Taken(<<"remove", t>>, IF t \in Elems(queue) THEN <<t>> ELSE <<>>)
  /\ queue' = Without(queue, t)
  /\ UNCHANGED <<submittedTasks, priority>>

AbstractDrain ==
  /\ out' = Taken(<<"drain">>, queue) /\ queue' = <<>>
  /\ UNCHANGED <<submittedTasks, priority>>

AbstractEnforce(t, limit, policy) ==
  /\ t <= submittedTasks
  /\ out' = Taken(<<"enforceLimit", t, limit, policy>>,
                  Evicted(queue, t, limit, policy))
  /\ queue' = Kept(queue, t, limit, policy)
  /\ UNCHANGED <<submittedTasks, priority>>

AbstractNext ==
  \/ \E p \in Priorities : AbstractInsert(p)
  \/ AbstractShift \/ AbstractDrain
  \/ \E t \in Tasks : AbstractRemove(t)
  \/ \E t \in Tasks, limit \in Limits, policy \in Policies :
       AbstractEnforce(t, limit, policy)

AbstractSpec == AbstractInit /\ [][AbstractNext]_abstractVars
=============================================================================
