----------------------------- MODULE WorkerPool -----------------------------
(* The scheduler of comlink-worker-pool: src/WorkerPool.ts together with the *)
(* queue and the termination controller it owns, as the pool uses them.      *)
(*                                                                           *)
(* The pool runs on one JavaScript thread, so its code is interrupted only   *)
(* where it calls user code: event and statistics observers, factories,      *)
(* terminators, proxies and abort signals. Such user code may call back into *)
(* the pool before the pool's own code goes on. The state therefore holds    *)
(* the control stack of the thread: a frame per pending piece of pool code,  *)
(* the top one at the end. A frame whose "cb" is not "none" is about to      *)
(* resume from a user callback of that kind; while it is on top, the         *)
(* callback may make further calls, which are pushed above it. A segment     *)
(* between two callback points is one or more deterministic steps, none of   *)
(* which another actor can interrupt. With an empty stack the thread is in   *)
(* its event loop: a microtask, a timer, a worker event or a script runs.    *)
(*                                                                           *)
(* Operators named X_Y, with X a definition, are X with the slip Y in it:    *)
(* plausible coding mistakes, used only to see the properties fail.          *)
EXTENDS Naturals, Sequences, FiniteSets, PriorityQueue

CONSTANTS
  MaxTasks,          \* bound: number of tasks ever submitted
  Workers,           \* bound: the Worker objects the factory can still make
  NoWorker,          \* null
  Size,              \* options.size
  Buffer,            \* options.terminationFailureWorkerBuffer
  MaxConcurrent,     \* options.maxConcurrentTasksPerWorker
  MaxTasksPerWorker, \* options.maxTasksPerWorker (MaxTasks + 1: undefined)
  MaxQueueSize,      \* options.maxQueueSize (MaxTasks: infinity)
  OverflowPolicy,    \* options.queueOverflowPolicy
  TaskTimeout,       \* whether taskTimeoutMs is set
  IdleTimeout,       \* whether workerIdleTimeoutMs is set
  Lifetime,          \* whether maxWorkerLifetimeMs is set
  QueueTimed,        \* choices of a submission: with a queue timeout or not
  Priorities,        \* priorities a submission may have
  RetryAttempts,     \* options.terminationRetryAttempts
  Factory,           \* what creating a worker may do: "ok", "throw", "partial"
  Terminator,        \* what workerTerminator may do: "ok", "throw", "promise"
  Reenters,          \* callbacks whose user code may call the pool or be slow
  MaxReentry         \* bound: calls made from inside callbacks

Tasks == 1..MaxTasks
Limit == Size + Buffer   \* physicalWorkerLimit

Callbacks == {"signal", "event", "stats", "factory", "cleanup", "terminator",
              "proxy"}
Settlements == {"fulfilled", "rejected", "aborted", "queue-timeout",
                "task-timeout", "worker-failure", "dropped", "queue-rejected",
                "pool-closed"}

ASSUME PoolAssumption ==
  /\ MaxTasks \in Nat /\ Size \in Nat \ {0} /\ Buffer \in Nat
  /\ MaxConcurrent \in Nat \ {0} /\ MaxTasksPerWorker \in Nat \ {0}
  /\ MaxQueueSize \in Nat /\ OverflowPolicy \in {"reject", "drop-oldest"}
  /\ TaskTimeout \in BOOLEAN /\ IdleTimeout \in BOOLEAN /\ Lifetime \in BOOLEAN
  /\ QueueTimed \subseteq BOOLEAN /\ Priorities \subseteq Nat
  /\ RetryAttempts \in Nat /\ MaxReentry \in Nat
  /\ Factory \subseteq {"ok", "throw", "partial"}
  /\ Terminator \subseteq {"ok", "throw", "promise"}
  /\ Reenters \subseteq Callbacks
  /\ IsFiniteSet(Workers) /\ NoWorker \notin Workers

VARIABLES
  accepting, drainRequested, terminationStarted,  \* lifecycle flags
  shutdownResolved,    \* whether the promise "terminated" is resolved
  closeCalled,         \* history: user code called close() or terminateAll()
  submittedTasks,      \* tasks accepted so far; task t is the t-th
  priority,            \* priority of each task
  outcome,             \* "unborn", "pending" or how the task was settled
  qclock,              \* queue deadline: "off", "running" or "late" (passed)
  armed,               \* tasks whose queueDeadline field is set
  tLate,               \* tasks whose running time exceeds taskTimeoutMs
  phase,               \* dispatch microtask: none, scheduled, invoked, done
  queue,               \* the queued tasks, oldest first
  workers,             \* this.workers: the managed workers
  idleWorkers,         \* this.idleWorkers
  marked,              \* workers with markedForTermination
  life,                \* "young", "late" (lifetime passed), "fired" (timer ran)
  activeTasks,         \* activeTasks of each worker
  taskCount,           \* tasks ever dispatched to each worker
  used,                \* Worker objects the factory has already returned
  scheduling, rescheduleRequested,  \* re-entrancy flags of _next
  retried,             \* retriedWithoutProgress of the running _next
  progressed,          \* startedTasks changed since the pass began
  creating,            \* workerCreationsInProgress
  attempts,            \* termination attempts of each worker
  tstate,              \* termination record of each worker, "none" if absent
  lateOk,              \* workers whose timed-out attempt may still succeed
  stack,               \* the control stack, top frame last
  reentries            \* calls made from inside callbacks so far

poolVars == <<accepting, drainRequested, terminationStarted, closeCalled,
              shutdownResolved>>
taskVars == <<submittedTasks, priority, qclock, tLate, phase>>
settleVars == <<outcome, armed>>
workerVars == <<workers, idleWorkers, marked, life, activeTasks, taskCount,
                used>>
schedVars == <<scheduling, rescheduleRequested, retried, progressed, creating>>
termVars == <<attempts, tstate, lateOk>>
data == <<poolVars, taskVars, settleVars, queue, workerVars, schedVars,
          termVars>>
vars == <<data, stack, reentries>>

-----------------------------------------------------------------------------
(* The control stack.                                                        *)

(* The labels of scheduling code, at most one of which is pending at a time, *)
(* and the other labels.                                                     *)
CreateLabels == {"construct", "discard", "uncreated", "created", "finally"}
SchedLabels == CreateLabels \cup
  {"loop", "pick", "broken", "got", "endpass", "passend"}
Labels == SchedLabels \cup
  {"insert", "arm", "enforce", "settle", "next", "fail", "failing", "remove",
   "attempt", "attempted", "confirmed", "terminate", "termworkers",
   "termtasks", "drained", "stats", "lookup", "applied", "complete",
   "completed", "return"}

(* "ts" holds the task or the tasks the code works on, "w" its worker. The   *)
(* factories are called where a worker is made, the cleanup of a proxy where *)
(* a half-made one is given up, the terminator in an attempt, and the proxy  *)
(* where a task is called.                                                   *)
TaskLabels == {"insert", "arm", "enforce", "lookup", "applied", "complete"}
WorkerLabels == {"got", "created", "discard", "fail", "failing", "remove",
                 "attempt", "attempted", "confirmed", "termtasks", "completed"}
Frames ==
  {f \in [at : Labels, cb : Callbacks \cup {"none"},
           w : Workers \cup {NoWorker}, ts : Seq(Tasks),
           why : Settlements \cup {"none", "force", "soft", "broken"}] :
     /\ f.at \in TaskLabels => f.ts # <<>>
     /\ f.at \in WorkerLabels => f.w # NoWorker
     /\ f.at \in {"settle", "complete"} => f.why \in Settlements
     /\ f.cb = "factory" => f.at = "construct"
     /\ f.cb = "cleanup" => f.at = "discard"
     /\ f.cb = "terminator" => f.at = "attempted"
     /\ f.cb = "proxy" => f.at \in {"lookup", "applied"}}

At(label) == [at |-> label, cb |-> "none", w |-> NoWorker, ts |-> <<>>,
              why |-> "none"]
On(label, w) == [At(label) EXCEPT !.w = w]
For(label, t) == [At(label) EXCEPT !.ts = <<t>>]
Yield(callback, frame) == [frame EXCEPT !.cb = callback]
SettleEach(ts, why) == [At("settle") EXCEPT !.ts = ts, !.why = why]
Complete(t, why) == [For("complete", t) EXCEPT !.why = why]
Fail(w, trigger) == [On("fail", w) EXCEPT !.ts = trigger]
Remove(w, how) == [On("remove", w) EXCEPT !.why = how]

Top == stack[Len(stack)]
Below == SubSeq(stack, 1, Len(stack) - 1)
Running(label) == stack # <<>> /\ Top.at = label

(* The running code goes on with fs: the last frame of fs runs first.        *)
Proceed(fs) == stack' = Below \o fs

(* The event loop calls fs.                                                  *)
EventLoop(fs) == stack = <<>> /\ stack' = fs /\ UNCHANGED reentries

(* User code runs: a script or handler of its own, or a callback.            *)
InCallback == stack # <<>> /\ Top.cb \in Reenters
UserCall(fs) ==
  /\ stack = <<>> \/ (InCallback /\ reentries < MaxReentry)
  /\ stack' = stack \o fs
  /\ reentries' = IF stack = <<>> THEN reentries ELSE reentries + 1

(* Timers wait for the microtasks, which dispatches put in their queue.      *)
TimersMayFire == stack = <<>> /\ \A t \in Tasks : phase[t] # "scheduled"

-----------------------------------------------------------------------------
(* Derived state.                                                            *)

Quarantined == {w \in Workers : tstate[w] # "none"}
Retryable == {w \in Quarantined : tstate[w] # "exhausted"}
PhysicalWorkers == Cardinality(workers) + Cardinality(Quarantined)
Busy(w) == activeTasks[w] # {}
Expired(w) == life[w] # "young"                        \* _hasExpired
Pending(t) == outcome[t] = "pending"

(* The managed worker that still counts t as running, at most one.           *)
Hosts(t) == {w \in workers : t \in activeTasks[w]}

(* The shapes of the pool's fields, and of the control stack.                *)
TypeOK ==
  /\ accepting \in BOOLEAN /\ drainRequested \in BOOLEAN
  /\ terminationStarted \in BOOLEAN /\ shutdownResolved \in BOOLEAN
  /\ closeCalled \in BOOLEAN /\ scheduling \in BOOLEAN
  /\ rescheduleRequested \in BOOLEAN
  /\ retried \in BOOLEAN /\ progressed \in BOOLEAN
  /\ submittedTasks \in 0..MaxTasks
  /\ priority \in [Tasks -> Priorities \cup {0}]
  /\ outcome \in [Tasks -> {"unborn", "pending"} \cup Settlements]
  /\ qclock \in [Tasks -> {"off", "running", "late"}]
  /\ armed \subseteq Tasks /\ tLate \subseteq Tasks
  /\ phase \in [Tasks -> {"none", "scheduled", "invoked", "done"}]
  /\ queue \in Seq(Tasks)
  /\ workers \subseteq Workers /\ idleWorkers \subseteq Workers
  /\ marked \subseteq Workers /\ used \subseteq Workers
  /\ life \in [Workers -> {"young", "late", "fired"}]
  /\ activeTasks \in [Workers -> SUBSET Tasks]
  /\ taskCount \in [Workers -> Nat]
  /\ creating \in Nat /\ reentries \in Nat
  /\ attempts \in [Workers -> Nat]
  /\ tstate \in [Workers ->
       {"none", "attempting", "pending", "retry", "exhausted"}]
  /\ lateOk \subseteq Workers
  /\ stack \in Seq(Frames)

Init ==
  /\ accepting = TRUE /\ drainRequested = FALSE /\ terminationStarted = FALSE
  /\ shutdownResolved = FALSE /\ closeCalled = FALSE
  /\ submittedTasks = 0
  /\ priority = [t \in Tasks |-> 0]
  /\ outcome = [t \in Tasks |-> "unborn"]
  /\ qclock = [t \in Tasks |-> "off"]
  /\ armed = {} /\ tLate = {}
  /\ phase = [t \in Tasks |-> "none"]
  /\ queue = <<>>
  /\ workers = {} /\ idleWorkers = {} /\ marked = {} /\ used = {}
  /\ life = [w \in Workers |-> "young"]
  /\ activeTasks = [w \in Workers |-> {}]
  /\ taskCount = [w \in Workers |-> 0]
  /\ scheduling = FALSE /\ rescheduleRequested = FALSE
  /\ retried = FALSE /\ progressed = FALSE
  /\ creating = 0
  /\ attempts = [w \in Workers |-> 0]
  /\ tstate = [w \in Workers |-> "none"]
  /\ lateOk = {}
  /\ stack = <<>> /\ reentries = 0

-----------------------------------------------------------------------------
(* Settling a task, which happens at most once; the event comes after it.    *)

Settle(t, why) ==
  /\ outcome' = IF Pending(t) THEN [outcome EXCEPT ![t] = why] ELSE outcome
  /\ armed' = armed \ {t}
Announce(t) == IF Pending(t) THEN "event" ELSE "none"

(* A loop that settles the tasks of an array taken from the queue.           *)
SettleNext ==
  /\ Running("settle") /\ Top.ts # <<>>
  /\ LET t == Head(Top.ts) IN
       /\ Settle(t, Top.why)
       /\ Proceed(<<Yield(Announce(t), SettleEach(Tail(Top.ts), Top.why))>>)
  /\ UNCHANGED <<poolVars, taskVars, queue, workerVars, schedVars, termVars,
                 reentries>>

SettleDone ==
  /\ Running("settle") /\ Top.ts = <<>>
  /\ Proceed(<<>>)
  /\ UNCHANGED <<data, reentries>>

-----------------------------------------------------------------------------
(* Submission: run(), which registers the abort listener, queues the task,   *)
(* arms its deadline, schedules and enforces the queue bound.                *)

Run(p, timed) ==
  /\ accepting /\ submittedTasks < MaxTasks
  /\ LET t == submittedTasks + 1 IN
       /\ submittedTasks' = t
       /\ priority' = [priority EXCEPT ![t] = p]
       /\ outcome' = [outcome EXCEPT ![t] = "pending"]
       /\ qclock' = [qclock EXCEPT ![t] = IF timed THEN "running" ELSE "off"]
       /\ UserCall(<<Yield("signal", For("insert", t))>>)
  /\ UNCHANGED <<poolVars, armed, tLate, phase, queue, workerVars, schedVars,
                 termVars>>

Insert_Settled ==
  /\ Running("insert")
  /\ queue' = Append(queue, Top.ts[1])
  /\ Proceed(<<Yield("event", For("arm", Top.ts[1]))>>)
  /\ UNCHANGED <<poolVars, taskVars, settleVars, workerVars, schedVars,
                 termVars, reentries>>

Insert ==
  /\ Running("insert")
  /\ LET t == Top.ts[1] IN
       IF Pending(t)
       THEN /\ queue' = Append(queue, t)
            /\ Proceed(<<Yield("event", For("arm", t))>>)
       ELSE /\ UNCHANGED queue
            /\ Proceed(<<>>)
  /\ UNCHANGED <<poolVars, taskVars, settleVars, workerVars, schedVars,
                 termVars, reentries>>

(* A signal object of the caller's own throws from addEventListener.         *)
SignalThrows ==
  /\ Running("insert") /\ "signal" \in Reenters
  /\ LET t == Top.ts[1] IN
       /\ Settle(t, "rejected")
       /\ Proceed(<<Yield(Announce(t), At("stats"))>>)
  /\ UNCHANGED <<poolVars, taskVars, queue, workerVars, schedVars, termVars,
                 reentries>>

ScheduleThenEnforce_Swapped(t) == <<At("next"), For("enforce", t)>>

(* The end of run(): schedule first, then apply backpressure.                *)
ScheduleThenEnforce(t) == <<For("enforce", t), At("next")>>

(* _startQueueTimer: the deadline may have passed during the event.          *)
Arm ==
  /\ Running("arm")
  /\ LET t == Top.ts[1]
         queued == t \in Elems(queue)
     IN /\ ~(queued /\ qclock[t] = "late")
        /\ armed' = IF queued /\ qclock[t] = "running"
                    THEN armed \cup {t} ELSE armed
        /\ Proceed(ScheduleThenEnforce(t))
  /\ UNCHANGED <<poolVars, taskVars, outcome, queue, workerVars, schedVars,
                 termVars, reentries>>

ArmLate_Unsettled ==
  /\ Running("arm")
  /\ LET t == Top.ts[1] IN
       /\ t \in Elems(queue) /\ qclock[t] = "late"
       /\ queue' = Without(queue, t)
       /\ Proceed(ScheduleThenEnforce(t) \o <<At("stats")>>)
  /\ UNCHANGED <<poolVars, taskVars, settleVars, workerVars, schedVars,
                 termVars, reentries>>

ArmLate ==
  /\ Running("arm")
  /\ LET t == Top.ts[1] IN
       /\ t \in Elems(queue) /\ qclock[t] = "late"
       /\ queue' = Without(queue, t)
       /\ Settle(t, "queue-timeout")
       /\ Proceed(ScheduleThenEnforce(t) \o <<Yield("event", At("stats"))>>)
  /\ UNCHANGED <<poolVars, taskVars, workerVars, schedVars, termVars,
                 reentries>>

EnforceQueueLimit ==
  /\ Running("enforce")
  /\ LET t == Top.ts[1]
         why == IF OverflowPolicy = "drop-oldest" THEN "dropped"
                ELSE "queue-rejected"
     IN /\ queue' = Kept(queue, t, MaxQueueSize, OverflowPolicy)
        /\ Proceed(<<At("stats"),
                     SettleEach(Evicted(queue, t, MaxQueueSize,
                                        OverflowPolicy), why)>>)
  /\ UNCHANGED <<poolVars, taskVars, settleVars, workerVars, schedVars,
                 termVars, reentries>>

(* The abort listener. A running task keeps its slot until its call returns. *)
Abort(t) ==
  /\ Pending(t)
  /\ queue' = Without(queue, t)
  /\ Settle(t, "aborted")
  /\ UserCall(<<Yield("event", At("stats"))>>)
  /\ UNCHANGED <<poolVars, taskVars, workerVars, schedVars, termVars>>

QueueTimer(t) ==
  /\ TimersMayFire
  /\ t \in armed /\ qclock[t] = "late" /\ t \in Elems(queue)
  /\ queue' = Without(queue, t)
  /\ Settle(t, "queue-timeout")
  /\ EventLoop(<<Yield("event", At("stats"))>>)
  /\ UNCHANGED <<poolVars, taskVars, workerVars, schedVars, termVars>>

-----------------------------------------------------------------------------
(* Scheduling: _next, its loop over the queue and its bounded retry.         *)

NextStarts_Nested ==
  /\ Running("next") /\ ~terminationStarted
  /\ scheduling' = TRUE /\ rescheduleRequested' = FALSE
  /\ Proceed(<<At("loop")>>)
  /\ UNCHANGED <<poolVars, taskVars, settleVars, queue, workerVars, retried,
                 progressed, creating, termVars, reentries>>

NextSkipped ==
  /\ Running("next") /\ (terminationStarted \/ scheduling)
  /\ rescheduleRequested' =
       IF terminationStarted THEN rescheduleRequested ELSE TRUE
  /\ Proceed(<<>>)
  /\ UNCHANGED <<poolVars, taskVars, settleVars, queue, workerVars, scheduling,
                 retried, progressed, creating, termVars, reentries>>

NextStarts ==
  /\ Running("next") /\ ~terminationStarted /\ ~scheduling
  /\ scheduling' = TRUE /\ rescheduleRequested' = FALSE
  /\ Proceed(<<At("loop")>>)
  /\ UNCHANGED <<poolVars, taskVars, settleVars, queue, workerVars, retried,
                 progressed, creating, termVars, reentries>>

Loop ==
  /\ Running("loop")
  /\ Proceed(<<At(IF queue = <<>> \/ terminationStarted
                  THEN "endpass" ELSE "pick")>>)
  /\ UNCHANGED <<data, reentries>>

PermanentlyExhausted_Beyond ==
  /\ ~terminationStarted /\ queue # <<>>
  /\ workers = {} /\ PhysicalWorkers > Limit /\ Retryable = {}

(* _rejectQueueIfPermanentlyExhausted                                        *)
PermanentlyExhausted ==
  /\ ~terminationStarted /\ queue # <<>>
  /\ workers = {} /\ PhysicalWorkers >= Limit /\ Retryable = {}

EndPass ==
  /\ Running("endpass") /\ ~PermanentlyExhausted
  /\ Proceed(<<At("passend")>>)
  /\ UNCHANGED <<data, reentries>>

RejectQueue ==
  /\ Running("endpass") /\ PermanentlyExhausted
  /\ queue' = <<>>
  /\ Proceed(<<At("passend"), SettleEach(queue, "rejected")>>)
  /\ UNCHANGED <<poolVars, taskVars, settleVars, workerVars, schedVars,
                 termVars, reentries>>

(* One retry without progress is allowed, then the pass is abandoned.        *)
Stuck == rescheduleRequested /\ ~progressed

NextPass ==
  /\ Running("passend")
  /\ rescheduleRequested /\ ~terminationStarted /\ ~(Stuck /\ retried)
  /\ retried' = Stuck
  /\ progressed' = FALSE /\ rescheduleRequested' = FALSE
  /\ Proceed(<<At("loop")>>)
  /\ UNCHANGED <<poolVars, taskVars, settleVars, queue, workerVars, scheduling,
                 creating, termVars, reentries>>

NextReturns_StaysScheduling ==
  /\ Running("passend")
  /\ ~rescheduleRequested \/ terminationStarted \/ (Stuck /\ retried)
  /\ retried' = FALSE /\ progressed' = FALSE
  /\ Proceed(<<>>)
  /\ UNCHANGED <<poolVars, taskVars, settleVars, queue, workerVars, scheduling,
                 rescheduleRequested, creating, termVars, reentries>>

NextReturns ==
  /\ Running("passend")
  /\ ~rescheduleRequested \/ terminationStarted \/ (Stuck /\ retried)
  /\ scheduling' = FALSE /\ retried' = FALSE /\ progressed' = FALSE
  /\ Proceed(<<>>)
  /\ UNCHANGED <<poolVars, taskVars, settleVars, queue, workerVars,
                 rescheduleRequested, creating, termVars, reentries>>

(* A factory that cannot make a worker fails the whole backlog.              *)
RejectBacklog ==
  /\ Running("broken")
  /\ queue' = <<>>
  /\ Proceed(<<At("endpass"), SettleEach(queue, "rejected")>>)
  /\ UNCHANGED <<poolVars, taskVars, settleVars, workerVars, schedVars,
                 termVars, reentries>>

-----------------------------------------------------------------------------
(* _getAvailableWorker: an idle worker, a new one or the least loaded one.   *)

Usable(w) == w \in workers /\ w \notin marked /\ ~Busy(w)
NoUsableIdle == \A w \in idleWorkers : ~Usable(w)

CanCreate_IgnoresQuarantine == Cardinality(workers) < Size

CanCreate ==
  /\ Cardinality(workers) < Size
  /\ PhysicalWorkers < Limit

HasSlot_Expired(w) ==
  /\ w \in workers \ marked
  /\ Cardinality(activeTasks[w]) < MaxConcurrent

HasSlot_Retired(w) ==
  /\ w \in workers /\ ~Expired(w)
  /\ Cardinality(activeTasks[w]) < MaxConcurrent

HasSlot(w) ==
  /\ w \in workers \ marked /\ ~Expired(w)
  /\ Cardinality(activeTasks[w]) < MaxConcurrent

LeastLoaded ==
  {w \in workers : HasSlot(w) /\ \A v \in workers : HasSlot(v) =>
     Cardinality(activeTasks[w]) <= Cardinality(activeTasks[v])}

(* _findLeastLoadedWorker marks the expired workers it passes.               *)
MarkExpired == marked' = marked \cup {w \in workers : Expired(w)}

PickIdle(w) ==
  /\ Running("pick") /\ w \in idleWorkers /\ Usable(w) /\ ~Expired(w)
  /\ idleWorkers' = {v \in idleWorkers : Usable(v)}
  /\ Proceed(<<On("got", w)>>)
  /\ UNCHANGED <<poolVars, taskVars, settleVars, queue, workers, marked, life,
                 activeTasks, taskCount, used, schedVars, termVars, reentries>>

PickExpired(w) ==
  /\ Running("pick") /\ w \in idleWorkers /\ Usable(w) /\ Expired(w)
  /\ idleWorkers' = {v \in idleWorkers : Usable(v)}
  /\ marked' = marked \cup {w}
  /\ Proceed(<<At("pick"), Remove(w, "soft")>>)
  /\ UNCHANGED <<poolVars, taskVars, settleVars, queue, workers, life,
                 activeTasks, taskCount, used, schedVars, termVars, reentries>>

PickNew_Uncounted ==
  /\ Running("pick") /\ NoUsableIdle /\ CanCreate
  /\ idleWorkers' = {}
  /\ Proceed(<<Yield("factory", At("construct"))>>)
  /\ UNCHANGED <<poolVars, taskVars, settleVars, queue, workers, marked, life,
                 activeTasks, taskCount, used, schedVars, termVars, reentries>>

PickNew ==
  /\ Running("pick") /\ NoUsableIdle /\ CanCreate
  /\ idleWorkers' = {}
  /\ creating' = creating + 1
  /\ Proceed(<<Yield("factory", At("construct"))>>)
  /\ UNCHANGED <<poolVars, taskVars, settleVars, queue, workers, marked, life,
                 activeTasks, taskCount, used, scheduling, rescheduleRequested,
                 retried, progressed, termVars, reentries>>

PickLoaded ==
  /\ Running("pick") /\ NoUsableIdle /\ ~CanCreate
  /\ idleWorkers' = {}
  /\ MarkExpired
  /\ \/ \E w \in LeastLoaded : Proceed(<<On("got", w)>>)
     \/ LeastLoaded = {} /\ Proceed(<<At("endpass")>>)
  /\ UNCHANGED <<poolVars, taskVars, settleVars, queue, workers, life,
                 activeTasks, taskCount, used, schedVars, termVars, reentries>>

(* The factories returned, threw, or made a worker whose setup failed.       *)
ConstructOk(w) ==
  /\ Running("construct") /\ "ok" \in Factory /\ w \notin used
  /\ used' = used \cup {w}
  /\ workers' = workers \cup {w}
  /\ Proceed(<<Yield("event", On("created", w))>>)
  /\ UNCHANGED <<poolVars, taskVars, settleVars, queue, idleWorkers, marked,
                 life, activeTasks, taskCount, schedVars, termVars, reentries>>

ConstructPartial(w) ==
  /\ Running("construct") /\ "partial" \in Factory /\ w \notin used
  /\ used' = used \cup {w}
  /\ Proceed(<<Yield("cleanup", On("discard", w))>>)
  /\ UNCHANGED <<poolVars, taskVars, settleVars, queue, workers, idleWorkers,
                 marked, life, activeTasks, taskCount, schedVars, termVars,
                 reentries>>

ConstructThrows ==
  /\ Running("construct") /\ ("throw" \in Factory \/ used = Workers)
  /\ Proceed(<<At("uncreated")>>)
  /\ UNCHANGED <<data, reentries>>

Discard ==
  /\ Running("discard")
  /\ tstate' = [tstate EXCEPT ![Top.w] = "attempting"]
  /\ Proceed(<<At("uncreated"), On("attempt", Top.w)>>)
  /\ UNCHANGED <<poolVars, taskVars, settleVars, queue, workerVars, schedVars,
                 attempts, lateOk, reentries>>

Uncreated ==
  /\ Running("uncreated")
  /\ MarkExpired
  /\ \/ \E w \in LeastLoaded : Proceed(<<On("finally", w)>>)
     \/ /\ LeastLoaded = {}
        /\ Proceed(<<[At("finally") EXCEPT !.why = "broken"]>>)
  /\ UNCHANGED <<poolVars, taskVars, settleVars, queue, workers, idleWorkers,
                 life, activeTasks, taskCount, used, schedVars, termVars,
                 reentries>>

(* The worker-created event has run: what is left of the new worker?         *)
CreatedReady ==
  /\ Running("created")
  /\ Top.w \in workers /\ ~terminationStarted /\ ~Expired(Top.w)
  /\ idleWorkers' = idleWorkers \cup {Top.w}
  /\ Proceed(<<On("finally", Top.w)>>)
  /\ UNCHANGED <<poolVars, taskVars, settleVars, queue, workers, marked, life,
                 activeTasks, taskCount, used, schedVars, termVars, reentries>>

CreatedExpired ==
  /\ Running("created")
  /\ Top.w \in workers /\ ~terminationStarted /\ Expired(Top.w)
  /\ marked' = marked \cup {Top.w}
  /\ life' = [life EXCEPT ![Top.w] = "fired"]
  /\ Proceed(<<At("finally"), At("stats"), At("next"), Remove(Top.w, "soft")>>)
  /\ UNCHANGED <<poolVars, taskVars, settleVars, queue, workers, idleWorkers,
                 activeTasks, taskCount, used, schedVars, termVars, reentries>>

CreatedTooLate ==
  /\ Running("created")
  /\ Top.w \notin workers \/ terminationStarted
  /\ Proceed(<<At("finally"), Remove(Top.w, "force")>>)
  /\ UNCHANGED <<data, reentries>>

(* The finally block runs after the worker to return has been chosen.        *)
Finally ==
  /\ Running("finally")
  /\ creating' = creating - 1
  /\ LET chosen == IF Top.w # NoWorker THEN On("got", Top.w)
                   ELSE At(IF Top.why = "broken" THEN "broken" ELSE "endpass")
     IN Proceed(IF terminationStarted \/ drainRequested
                THEN <<chosen, At("stats")>> ELSE <<chosen>>)
  /\ UNCHANGED <<poolVars, taskVars, settleVars, queue, workerVars, scheduling,
                 rescheduleRequested, retried, progressed, termVars, reentries>>

-----------------------------------------------------------------------------
(* Dispatch: the task takes a slot at once, its method is called later in a  *)
(* microtask that checks the slot before and after each call of user code.   *)

GotNothing ==
  /\ Running("got") /\ queue = <<>>
  /\ Proceed(<<At("endpass")>>)
  /\ UNCHANGED <<data, reentries>>

QueueDeadlinePassed(t) == t \in armed /\ qclock[t] = "late"

GotExpired ==
  /\ Running("got") /\ queue # <<>>
  /\ \E t \in Firsts(queue, priority) :
       /\ QueueDeadlinePassed(t)
       /\ queue' = Without(queue, t)
       /\ Settle(t, "queue-timeout")
       /\ Proceed(<<Yield("event", At("loop"))>>)
  /\ UNCHANGED <<poolVars, taskVars, workerVars, schedVars, termVars,
                 reentries>>

(* _clearIdleTimer                                                           *)
ClearIdle_Forgotten(w) == idleWorkers' = idleWorkers
ClearIdle(w) == idleWorkers' = idleWorkers \ {w}

(* "late": the task timeout is so short that it passes inside _dispatch.     *)
Dispatch(late) ==
  /\ Running("got") /\ queue # <<>> /\ (late => TaskTimeout)
  /\ \E t \in Firsts(queue, priority) : LET w == Top.w IN
        /\ ~QueueDeadlinePassed(t)
        /\ queue' = Without(queue, t)
        /\ armed' = armed \ {t}
        /\ phase' = [phase EXCEPT ![t] = "scheduled"]
        /\ tLate' = IF late THEN tLate \cup {t} ELSE tLate
        /\ ClearIdle(w)
        /\ activeTasks' = [activeTasks EXCEPT ![w] = @ \cup {t}]
        /\ taskCount' = [taskCount EXCEPT ![w] = @ + 1]
        /\ marked' = IF taskCount[w] + 1 >= MaxTasksPerWorker
                     THEN marked \cup {w} ELSE marked
        /\ Proceed(IF late THEN <<Yield("event", At("loop")), Fail(w, <<t>>)>>
                   ELSE <<Yield("event", At("loop"))>>)
  /\ progressed' = TRUE
  /\ UNCHANGED <<poolVars, submittedTasks, priority, qclock, outcome, workers,
                 life, used, scheduling, rescheduleRequested, retried, creating,
                 termVars, reentries>>

(* The triple check of the microtask: the worker is managed, the task still  *)
(* has its slot and its deadline has not passed. A passed deadline fails the *)
(* worker there and then (_expireTaskIfNeeded).                              *)
MayCall_NoDeadline(t) == Hosts(t) # {}
MayCall_NoSlot(t) == t \notin tLate

MayCall(t) == Hosts(t) # {} /\ t \notin tLate
ExpireTask(t) ==
  IF Hosts(t) # {} /\ t \in tLate
  THEN <<Fail(CHOOSE w \in Hosts(t) : TRUE, <<t>>)>> ELSE <<>>

Microtask(t) ==
  /\ phase[t] = "scheduled"
  /\ phase' = IF MayCall(t) THEN phase ELSE [phase EXCEPT ![t] = "done"]
  /\ EventLoop(IF MayCall(t) THEN <<Yield("proxy", For("lookup", t))>>
               ELSE ExpireTask(t))
  /\ UNCHANGED <<poolVars, submittedTasks, priority, qclock, tLate, settleVars,
                 queue, workerVars, schedVars, termVars>>

(* The method has been looked up; it is called.                              *)
CallMethod ==
  /\ Running("lookup")
  /\ LET t == Top.ts[1] IN
       /\ phase' = [phase EXCEPT ![t] = IF MayCall(t) THEN "invoked"
                                        ELSE "done"]
       /\ Proceed(IF MayCall(t) THEN <<Yield("proxy", For("applied", t))>>
                  ELSE ExpireTask(t))
  /\ UNCHANGED <<poolVars, submittedTasks, priority, qclock, tLate, settleVars,
                 queue, workerVars, schedVars, termVars, reentries>>

(* The call has returned its promise, which is observed only if it matters.  *)
MethodCalled ==
  /\ Running("applied")
  /\ LET t == Top.ts[1] IN
       /\ phase' = IF MayCall(t) THEN phase ELSE [phase EXCEPT ![t] = "done"]
       /\ Proceed(ExpireTask(t))
  /\ UNCHANGED <<poolVars, submittedTasks, priority, qclock, tLate, settleVars,
                 queue, workerVars, schedVars, termVars, reentries>>

(* Looking up or calling the method throws.                                  *)
MethodThrows ==
  /\ Running("lookup") \/ Running("applied")
  /\ LET t == Top.ts[1] IN
       /\ phase' = [phase EXCEPT ![t] = "done"]
       /\ Proceed(<<Complete(t, "rejected")>>)
  /\ UNCHANGED <<poolVars, submittedTasks, priority, qclock, tLate, settleVars,
                 queue, workerVars, schedVars, termVars, reentries>>

-----------------------------------------------------------------------------
(* Completion, task timeouts and worker failures.                            *)

(* The promise of the call settles.                                          *)
Answer(t, why) ==
  /\ phase[t] = "invoked"
  /\ phase' = [phase EXCEPT ![t] = "done"]
  /\ EventLoop(<<Complete(t, why)>>)
  /\ UNCHANGED <<poolVars, submittedTasks, priority, qclock, tLate, settleVars,
                 queue, workerVars, schedVars, termVars>>

(* _completeTask ignores an answer that comes after the slot was lost, and   *)
(* one that comes after the deadline fails the worker instead.               *)
CompleteIgnored ==
  /\ Running("complete") /\ ~MayCall(Top.ts[1])
  /\ Proceed(ExpireTask(Top.ts[1]))
  /\ UNCHANGED <<data, reentries>>

CompleteTask ==
  /\ Running("complete") /\ MayCall(Top.ts[1])
  /\ LET t == Top.ts[1] IN \E w \in Hosts(t) :
       /\ activeTasks' = [activeTasks EXCEPT ![w] = @ \ {t}]
       /\ Settle(t, Top.why)
       /\ Proceed(<<Yield(Announce(t), On("completed", w))>>)
  /\ UNCHANGED <<poolVars, taskVars, queue, workers, idleWorkers, marked, life,
                 taskCount, used, schedVars, termVars, reentries>>

(* The rest of _completeTask: retire, idle or reuse the worker.              *)
Retires(w) == ~Busy(w) /\ (w \in marked \/ Expired(w))

Completed ==
  /\ Running("completed")
  /\ LET w == Top.w
         gone == w \notin workers \/ terminationStarted
     IN /\ idleWorkers' = IF ~gone /\ ~Busy(w) /\ ~Retires(w)
                          THEN idleWorkers \cup {w} ELSE idleWorkers
        /\ Proceed(IF gone THEN <<>>
                   ELSE <<At("stats"), At("next")>> \o
                        IF Retires(w) THEN <<Remove(w, "soft")>> ELSE <<>>)
  /\ UNCHANGED <<poolVars, taskVars, settleVars, queue, workers, marked, life,
                 activeTasks, taskCount, used, schedVars, termVars, reentries>>

TaskTimer(t) ==
  /\ TimersMayFire /\ Hosts(t) # {} /\ t \in tLate
  /\ EventLoop(ExpireTask(t))
  /\ UNCHANGED data

(* The worker reports an error, a message error or a proxy error.            *)
WorkerError(w) ==
  /\ w \in workers
  /\ UserCall(<<Fail(w, <<>>)>>)
  /\ UNCHANGED data

(* _handleWorkerFailure: every task of the worker fails, one at a time; only *)
(* the task whose deadline triggered the failure counts as timed out.        *)
FailureStarts ==
  /\ Running("fail")
  /\ LET w == Top.w IN
       /\ marked' = IF w \in workers THEN marked \cup {w} ELSE marked
       /\ Proceed(IF w \in workers THEN <<[Top EXCEPT !.at = "failing"]>>
                  ELSE <<>>)
  /\ UNCHANGED <<poolVars, taskVars, settleVars, queue, workers, idleWorkers,
                 life, activeTasks, taskCount, used, schedVars, termVars,
                 reentries>>

FailTask(t) ==
  /\ Running("failing") /\ t \in activeTasks[Top.w]
  /\ activeTasks' = [activeTasks EXCEPT ![Top.w] = @ \ {t}]
  /\ Settle(t, IF <<t>> = Top.ts THEN "task-timeout" ELSE "worker-failure")
  /\ Proceed(<<Yield(Announce(t), Top)>>)
  /\ UNCHANGED <<poolVars, taskVars, queue, workers, idleWorkers, marked, life,
                 taskCount, used, schedVars, termVars, reentries>>

FailureEnds_TooEarly ==
  /\ Running("failing")
  /\ Proceed(<<At("stats"), At("next"), Remove(Top.w, "force")>>)
  /\ UNCHANGED <<data, reentries>>

FailureEnds ==
  /\ Running("failing") /\ ~Busy(Top.w)
  /\ Proceed(<<At("stats"), At("next"), Remove(Top.w, "force")>>)
  /\ UNCHANGED <<data, reentries>>

-----------------------------------------------------------------------------
(* Retirement and termination. A removed worker is in the quarantine of the  *)
(* TerminationController before any observer can run.                        *)

MayRemove(w, how) == w \in workers /\ (how = "force" \/ ~Busy(w))

RemoveWorker ==
  /\ Running("remove") /\ MayRemove(Top.w, Top.why)
  /\ workers' = workers \ {Top.w}
  /\ ClearIdle(Top.w)
  /\ tstate' = [tstate EXCEPT ![Top.w] = "attempting"]
  /\ Proceed(<<Yield("event", On("attempt", Top.w))>>)
  /\ UNCHANGED <<poolVars, taskVars, settleVars, queue, marked, life,
                 activeTasks, taskCount, used, schedVars, attempts, lateOk,
                 reentries>>

RemoveSkipped ==
  /\ Running("remove") /\ ~MayRemove(Top.w, Top.why)
  /\ Proceed(<<>>)
  /\ UNCHANGED <<data, reentries>>

(* TerminationController.attempt, up to the call of the terminator.          *)
Attempt ==
  /\ Running("attempt")
  /\ attempts' = [attempts EXCEPT ![Top.w] = @ + 1]
  /\ Proceed(<<Yield("terminator", On("attempted", Top.w))>>)
  /\ UNCHANGED <<poolVars, taskVars, settleVars, queue, workerVars, schedVars,
                 tstate, lateOk, reentries>>

(* The record of w moves to a new state; a deleted record is not put back.   *)
Record(w, state) ==
  tstate' = [tstate EXCEPT ![w] = IF @ = "none" THEN @ ELSE state]

(* confirm: the record goes, and with it every outstanding timer.            *)
Confirm(w) ==
  /\ tstate' = [tstate EXCEPT ![w] = "none"]
  /\ lateOk' = lateOk \ {w}

RecordFailure_OneMore(w) ==
  Record(w, IF attempts[w] > RetryAttempts + 1 THEN "exhausted" ELSE "retry")

(* recordFailure: retry, with a limit.                                       *)
RecordFailure(w) ==
  Record(w, IF attempts[w] > RetryAttempts THEN "exhausted" ELSE "retry")

StateChange_StatsOnly == <<At("stats")>>

(* onStateChange, and onFailure before it.                                   *)
StateChange == <<At("stats"), At("next")>>
FailureReported == <<At("stats"), Yield("event", At("next"))>>

TerminatorReturns ==
  /\ Running("attempted") /\ "ok" \in Terminator
  /\ Confirm(Top.w)
  /\ Proceed(StateChange)
  /\ UNCHANGED <<poolVars, taskVars, settleVars, queue, workerVars, schedVars,
                 attempts, reentries>>

TerminatorThrows ==
  /\ Running("attempted") /\ "throw" \in Terminator
  /\ RecordFailure(Top.w)
  /\ Proceed(FailureReported)
  /\ UNCHANGED <<poolVars, taskVars, settleVars, queue, workerVars, schedVars,
                 attempts, lateOk, reentries>>

TerminatorPromises ==
  /\ Running("attempted") /\ "promise" \in Terminator
  /\ Record(Top.w, "pending")
  /\ Proceed(<<>>)
  /\ UNCHANGED <<poolVars, taskVars, settleVars, queue, workerVars, schedVars,
                 attempts, lateOk, reentries>>

(* The promise of the terminator resolves in time, or just past its deadline *)
(* but before the timer: a failure is then reported ahead of the success.    *)
PromiseConfirms(w) ==
  /\ tstate[w] = "pending"
  /\ Confirm(w)
  /\ EventLoop(StateChange)
  /\ UNCHANGED <<poolVars, taskVars, settleVars, queue, workerVars, schedVars,
                 attempts>>

PromiseConfirmsPastDeadline(w) ==
  /\ tstate[w] = "pending"
  /\ RecordFailure(w)
  /\ EventLoop(<<On("confirmed", w)>> \o FailureReported)
  /\ UNCHANGED <<poolVars, taskVars, settleVars, queue, workerVars, schedVars,
                 attempts, lateOk>>

ConfirmedPastDeadline ==
  /\ Running("confirmed")
  /\ Confirm(Top.w)
  /\ Proceed(StateChange)
  /\ UNCHANGED <<poolVars, taskVars, settleVars, queue, workerVars, schedVars,
                 attempts, reentries>>

PromiseRejects(w) ==
  /\ tstate[w] = "pending"
  /\ RecordFailure(w)
  /\ EventLoop(FailureReported)
  /\ UNCHANGED <<poolVars, taskVars, settleVars, queue, workerVars, schedVars,
                 attempts, lateOk>>

(* The attempt times out, but its promise may still resolve later.           *)
AttemptTimer(w) ==
  /\ TimersMayFire /\ tstate[w] = "pending"
  /\ RecordFailure(w)
  /\ lateOk' = lateOk \cup {w}
  /\ EventLoop(FailureReported)
  /\ UNCHANGED <<poolVars, taskVars, settleVars, queue, workerVars, schedVars,
                 attempts>>

LateConfirm(w) ==
  /\ w \in lateOk
  /\ Confirm(w)
  /\ EventLoop(StateChange)
  /\ UNCHANGED <<poolVars, taskVars, settleVars, queue, workerVars, schedVars,
                 attempts>>

RetryTimer(w) ==
  /\ TimersMayFire /\ tstate[w] = "retry"
  /\ tstate' = [tstate EXCEPT ![w] = "attempting"]
  /\ EventLoop(<<On("attempt", w)>>)
  /\ UNCHANGED <<poolVars, taskVars, settleVars, queue, workerVars, schedVars,
                 attempts, lateOk>>

LifetimeTimer(w) ==
  /\ TimersMayFire /\ w \in workers /\ life[w] = "late" /\ ~terminationStarted
  /\ life' = [life EXCEPT ![w] = "fired"]
  /\ marked' = marked \cup {w}
  /\ EventLoop(StateChange \o
               IF Busy(w) THEN <<>> ELSE <<Remove(w, "soft")>>)
  /\ UNCHANGED <<poolVars, taskVars, settleVars, queue, workers, idleWorkers,
                 activeTasks, taskCount, used, schedVars, termVars>>

IdleTimer(w) ==
  /\ TimersMayFire /\ IdleTimeout
  /\ w \in idleWorkers /\ w \in workers /\ ~Busy(w) /\ ~terminationStarted
  /\ EventLoop(StateChange \o <<Remove(w, "soft")>>)
  /\ UNCHANGED data

-----------------------------------------------------------------------------
(* Shutdown.                                                                 *)

Close ==
  /\ ~terminationStarted
  /\ closeCalled' = TRUE
  /\ UserCall(<<At("terminate")>>)
  /\ UNCHANGED <<accepting, drainRequested, terminationStarted,
                 shutdownResolved, taskVars, settleVars, queue, workerVars,
                 schedVars, termVars>>

Drain ==
  /\ ~terminationStarted
  /\ accepting' = FALSE /\ drainRequested' = TRUE
  /\ UserCall(<<At("drained"), At("next")>>)
  /\ UNCHANGED <<terminationStarted, closeCalled, shutdownResolved, taskVars,
                 settleVars, queue, workerVars, schedVars, termVars>>

(* Nothing would ever run the queue again.                                   *)
DrainStalled ==
  /\ queue # <<>> /\ workers = {} /\ Quarantined = {} /\ creating = 0

(* After _next in drain(). terminateAll() does nothing in a closed pool.     *)
Drained ==
  /\ Running("drained")
  /\ Proceed(IF ~DrainStalled THEN <<At("stats")>>
             ELSE IF terminationStarted THEN <<>> ELSE <<At("terminate")>>)
  /\ UNCHANGED <<data, reentries>>

TerminateAll ==
  /\ Running("terminate")
  /\ accepting' = FALSE /\ drainRequested' = FALSE
  /\ terminationStarted' = TRUE
  /\ queue' = <<>>
  /\ Proceed(<<At("termworkers"), SettleEach(queue, "pool-closed")>>)
  /\ UNCHANGED <<closeCalled, shutdownResolved, taskVars, settleVars,
                 workerVars, schedVars, termVars, reentries>>

TerminateWorkers ==
  /\ Running("termworkers")
  /\ \/ \E w \in workers : Proceed(<<At("termworkers"), On("termtasks", w)>>)
     \/ workers = {} /\ Proceed(<<At("stats")>>)
  /\ UNCHANGED <<data, reentries>>

TerminateTask(t) ==
  /\ Running("termtasks") /\ t \in activeTasks[Top.w]
  /\ activeTasks' = [activeTasks EXCEPT ![Top.w] = @ \ {t}]
  /\ Settle(t, "pool-closed")
  /\ Proceed(<<Yield(Announce(t), Top)>>)
  /\ UNCHANGED <<poolVars, taskVars, queue, workers, idleWorkers, marked, life,
                 taskCount, used, schedVars, termVars, reentries>>

TerminateWorker ==
  /\ Running("termtasks") /\ ~Busy(Top.w)
  /\ Proceed(<<Remove(Top.w, "force")>>)
  /\ UNCHANGED <<data, reentries>>

DrainComplete_Queued ==
  /\ drainRequested /\ ~terminationStarted /\ creating = 0
  /\ \A w \in workers : ~Busy(w)

DrainComplete_NoWorkers ==
  /\ drainRequested /\ ~terminationStarted
  /\ creating = 0 /\ queue = <<>> /\ workers = {}

(* _updateStats first finishes a drain, then reports a completed shutdown.   *)
DrainComplete ==
  /\ drainRequested /\ ~terminationStarted
  /\ creating = 0 /\ queue = <<>>
  /\ \A w \in workers : ~Busy(w)

ShutdownComplete_Early ==
  terminationStarted /\ creating = 0 /\ workers = {}

ShutdownComplete_Confirmed ==
  terminationStarted /\ creating = 0 /\ workers = {} /\ Quarantined = {}

ShutdownComplete ==
  /\ terminationStarted /\ creating = 0
  /\ workers = {} /\ Retryable = {}

StatsFinishDrain ==
  /\ Running("stats") /\ DrainComplete
  /\ Proceed(<<At("terminate")>>)
  /\ UNCHANGED <<data, reentries>>

UpdateStats ==
  /\ Running("stats") /\ ~DrainComplete
  /\ shutdownResolved' = (shutdownResolved \/ ShutdownComplete)
  /\ Proceed(<<Yield("stats", At("return"))>>)
  /\ UNCHANGED <<accepting, drainRequested, terminationStarted, closeCalled,
                 taskVars, settleVars, queue, workerVars, schedVars, termVars,
                 reentries>>

Return ==
  /\ Running("return")
  /\ Proceed(<<>>)
  /\ UNCHANGED <<data, reentries>>

-----------------------------------------------------------------------------
(* Time passes in the event loop and inside slow callbacks.                  *)

ClockMoves ==
  /\ stack = <<>> \/ InCallback
  /\ UNCHANGED <<poolVars, submittedTasks, priority, phase, settleVars, queue,
                 workers, idleWorkers, marked, activeTasks, taskCount, used,
                 schedVars, termVars, stack, reentries>>

QueueDeadline(t) ==
  /\ qclock[t] = "running" /\ Pending(t) /\ phase[t] = "none"
  /\ qclock' = [qclock EXCEPT ![t] = "late"]
  /\ ClockMoves /\ UNCHANGED <<tLate, life>>

TaskDeadline(t) ==
  /\ TaskTimeout /\ Hosts(t) # {} /\ t \notin tLate
  /\ tLate' = tLate \cup {t}
  /\ ClockMoves /\ UNCHANGED <<qclock, life>>

LifetimePasses(w) ==
  /\ Lifetime /\ w \in workers /\ life[w] = "young"
  /\ life' = [life EXCEPT ![w] = "late"]
  /\ ClockMoves /\ UNCHANGED <<qclock, tLate>>

-----------------------------------------------------------------------------
(* The next-state relation.                                                  *)

(* The code on the stack goes on.                                            *)
Code ==
  \/ SettleNext \/ SettleDone
  \/ Insert \/ Arm \/ ArmLate \/ EnforceQueueLimit
  \/ NextSkipped \/ NextStarts \/ Loop \/ EndPass \/ RejectQueue
  \/ NextPass \/ NextReturns \/ RejectBacklog
  \/ \E w \in Workers : PickIdle(w) \/ PickExpired(w)
  \/ PickNew \/ PickLoaded
  \/ \E w \in Workers : ConstructOk(w) \/ ConstructPartial(w)
  \/ ConstructThrows \/ Discard \/ Uncreated
  \/ CreatedReady \/ CreatedExpired \/ CreatedTooLate \/ Finally
  \/ GotNothing \/ GotExpired \/ \E late \in BOOLEAN : Dispatch(late)
  \/ CallMethod \/ MethodCalled \/ CompleteIgnored \/ CompleteTask \/ Completed
  \/ FailureStarts \/ (\E t \in Tasks : FailTask(t)) \/ FailureEnds
  \/ RemoveWorker \/ RemoveSkipped \/ Attempt
  \/ TerminatorReturns \/ TerminatorThrows \/ TerminatorPromises
  \/ ConfirmedPastDeadline
  \/ Drained \/ TerminateAll \/ TerminateWorkers
  \/ (\E t \in Tasks : TerminateTask(t)) \/ TerminateWorker
  \/ StatsFinishDrain \/ UpdateStats \/ Return

(* What the user's proxies and signals may do wrong.                         *)
Faults == SignalThrows \/ MethodThrows

TaskTimers(t) == Microtask(t) \/ QueueTimer(t) \/ TaskTimer(t)
WorkerTimers(w) == RetryTimer(w) \/ AttemptTimer(w) \/ LifetimeTimer(w)

World ==
  \/ \E t \in Tasks, why \in {"fulfilled", "rejected"} : Answer(t, why)
  \/ \E w \in Workers :
       \/ PromiseConfirms(w) \/ PromiseConfirmsPastDeadline(w)
       \/ PromiseRejects(w) \/ LateConfirm(w) \/ IdleTimer(w)

User ==
  \/ \E p \in Priorities, timed \in QueueTimed : Run(p, timed)
  \/ \E t \in Tasks : Abort(t)
  \/ \E w \in Workers : WorkerError(w)
  \/ Drain \/ Close

Time ==
  \/ \E t \in Tasks : QueueDeadline(t) \/ TaskDeadline(t)
  \/ \E w \in Workers : LifetimePasses(w)

(* The pool has reported its end: no other state may be a dead end.          *)
Finished == stack = <<>> /\ shutdownResolved /\ UNCHANGED vars

Next ==
  \/ Code \/ Faults \/ World \/ User \/ Time \/ Finished
  \/ \E t \in Tasks : TaskTimers(t)
  \/ \E w \in Workers : WorkerTimers(w)

Spec == Init /\ [][Next]_vars

-----------------------------------------------------------------------------
(* Fairness: the thread does not stop inside the pool's code, every due      *)
(* microtask and timer is eventually run by the event loop however much else *)
(* there is to run (hence strong fairness), and time passes. Nothing is      *)
(* assumed of the user, the workers' answers or the terminators' promises.   *)
Fairness ==
  /\ WF_vars(Code)
  /\ \A t \in Tasks : SF_vars(TaskTimers(t)) /\ SF_vars(TaskDeadline(t))
  /\ \A w \in Workers : SF_vars(WorkerTimers(w))

FairSpec == Spec /\ Fairness

-----------------------------------------------------------------------------
(* Safety.                                                                   *)

AtRest == stack = <<>>   \* the event loop; every handler has finished
Observable == AtRest \/ Top.cb # "none"

(* Never more physical workers than the limit, nor more managed ones than    *)
(* the size, counting the worker whose factory is running: the capacity test *)
(* and the push are separated by arbitrary user code (lines 807-824).        *)
PhysicalBound ==
  /\ Cardinality(workers) <= Size
  /\ PhysicalWorkers <= Limit
  /\ (\E i \in 1..Len(stack) : stack[i].at = "construct") =>
       Cardinality(workers) < Size /\ PhysicalWorkers < Limit

(* Scheduling never nests: whatever observers call, at most one pass is      *)
(* under way, it is the one the flag "scheduling" stands for, and at most    *)
(* one worker is being created, the one workerCreationsInProgress counts.    *)
SchedulerExclusive ==
  /\ \A i, j \in 1..Len(stack) :
       stack[i].at \in SchedLabels /\ stack[j].at \in SchedLabels => i = j
  /\ scheduling <=> \E i \in 1..Len(stack) : stack[i].at \in SchedLabels
  /\ creating = IF \E i \in 1..Len(stack) : stack[i].at \in CreateLabels
                THEN 1 ELSE 0

(* A frame of code that is going to queue or settle t.                       *)
Held(t) ==
  \E i \in 1..Len(stack) :
    stack[i].at \in {"insert", "settle"} /\ t \in Elems(stack[i].ts)

(* A task that has not settled is somewhere the pool will come back to: in   *)
(* the queue of a pool that still schedules, in a slot of a managed worker,  *)
(* or in the hands of code that is running. A task that is nowhere leaves    *)
(* its caller's promise unsettled for ever.                                  *)
NoLostTask ==
  \A t \in Tasks : Pending(t) =>
    \/ t \in Elems(queue) /\ ~terminationStarted
    \/ Hosts(t) # {}
    \/ Held(t)

(* The queue holds each task once, and only tasks that are neither settled   *)
(* nor dispatched: _dispatch's own test of item.settled (line 951) never     *)
(* finds one, whatever observers and abort listeners do.                     *)
QueueSound ==
  /\ Cardinality(Elems(queue)) = Len(queue)
  /\ \A t \in Elems(queue) : Pending(t) /\ phase[t] = "none"

(* In the event loop the idle set is exactly the workers without a task, all *)
(* of them still usable, so none is forgotten by both the scheduler and its  *)
(* retirement timer; and user code never finds a stale member in it, so the  *)
(* purge at lines 790-797 never has one to delete.                           *)
IdleExact ==
  /\ AtRest => idleWorkers = {w \in workers : ~Busy(w)}
  /\ Observable => \A w \in idleWorkers : Usable(w)

(* maxConcurrentTasksPerWorker and maxTasksPerWorker bound every worker,     *)
(* also when observers re-enter the scheduler and when an aborted task still *)
(* holds its slot.                                                           *)
WorkerBounds ==
  \A w \in Workers :
    /\ Cardinality(activeTasks[w]) <= MaxConcurrent
    /\ taskCount[w] <= MaxTasksPerWorker

(* Whenever the event loop is reached, no queued task of an open pool could  *)
(* be served by a free slot or a new worker: no handler forgets to schedule. *)
WorkConserving ==
  AtRest /\ ~terminationStarted /\ queue # <<>> =>
    ~CanCreate /\ \A w \in workers : ~HasSlot(w)

(* The queue bound holds in the event loop (inside run() it is exceeded).    *)
QueueBound == AtRest => Len(queue) <= MaxQueueSize

(* When the promise "terminated" has resolved and its handlers can run, no   *)
(* worker is managed or being made, no termination attempt is still to come  *)
(* and every accepted task has settled.                                      *)
ShutdownReport ==
  AtRest /\ shutdownResolved =>
    /\ workers = {} /\ creating = 0 /\ Retryable = {}
    /\ \A t \in Tasks : ~Pending(t)

(* Accepted tasks are failed with "pool-closed" by close() or terminateAll() *)
(* only: draining lets them run.                                             *)
DrainFinishesWork ==
  (\E t \in Tasks : outcome[t] = "pool-closed") => closeCalled

(* A draining pool that still has queued work also has a worker, or a        *)
(* termination attempt to come, whose end will schedule the queue again.     *)
DrainHasTrigger ==
  AtRest /\ drainRequested /\ queue # <<>> => workers # {} \/ Retryable # {}

(* Termination attempts are bounded, though late answers, retries and        *)
(* deadlines of several attempts overlap; and a worker that is being         *)
(* terminated is not managed any more.                                       *)
TerminationBounded ==
  /\ \A w \in Workers : attempts[w] <= RetryAttempts + 1
  /\ workers \cap Quarantined = {}

-----------------------------------------------------------------------------
(* What a step may never do.                                                 *)

Starts(t) == phase[t] # "invoked" /\ phase'[t] = "invoked"
Dispatched(t) == phase[t] = "none" /\ phase'[t] = "scheduled"
SettledAs(t, why) == Pending(t) /\ outcome'[t] = why

Promise == INSTANCE CallerPromise WITH
  doors <- IF terminationStarted THEN "closed"
           ELSE IF accepting THEN "open" ELSE "draining",
  submitted <- submittedTasks,
  method <- [t \in Tasks |->
    CASE phase[t] = "invoked" -> "running"
      [] phase[t] = "done" -> "over"
      [] OTHER -> "not called"],
  result <- outcome

(* Through all its queues, workers, deadlines and callbacks the pool keeps   *)
(* what it promises the caller: one outcome per call and for its reason, and *)
(* one call of the method, never once the pool is closed, also by the        *)
(* microtask of a task dispatched before, and never after the call has       *)
(* settled unless it was aborted: the guards of the microtask (lines         *)
(* 976-990) do not look at item.settled.                                     *)
ImplementsPromise == Promise!PromiseSpec

(* A task is given only to a worker that is managed, not being retired and   *)
(* within its lifetime at that moment: also a busy one with free slots takes *)
(* no more once its limit of tasks or its lifetime is reached. The worker is *)
(* not looked at again after the report in the finally block (line 844), so  *)
(* this is of pools whose statistics observer is quick and calls nothing.    *)
RetiredTakesNoTask ==
  [][\A w \in Workers : activeTasks'[w] \subseteq activeTasks[w]
       \/ (w \in workers /\ w \notin marked /\ ~Expired(w))]_vars

(* A passed deadline wins over whatever comes late: a task whose armed queue *)
(* deadline has passed is not dispatched, and one that has run too long is   *)
(* neither called nor fulfilled.                                             *)
DeadlineRespected ==
  [][\A t \in Tasks :
       /\ Dispatched(t) => ~QueueDeadlinePassed(t)
       /\ Starts(t) => t \notin tLate
       /\ SettledAs(t, "fulfilled") => t \notin tLate]_vars

(* Backpressure: a task is evicted only when every slot is taken and no      *)
(* worker can be added. A call of run() by an observer of a scheduling pass  *)
(* is the exception: its own _next() returns at once (lines 743-746), so it  *)
(* evicts before the pass has filled the slots.                              *)
EvictsOnlyWhenFull ==
  [][Running("enforce") /\ ~scheduling /\ queue' # queue =>
       ~CanCreate /\ \A w \in workers : ~HasSlot(w)]_vars

-----------------------------------------------------------------------------
(* Liveness, under FairSpec.                                                 *)

(* Every accepted task settles.                                              *)
EveryTaskSettles == \A t \in Tasks : Pending(t) ~> ~Pending(t)

(* A closed pool reports its shutdown, also when terminators fail or hang.   *)
CloseReports == terminationStarted ~> shutdownResolved

(* A drain ends in a closed pool.                                            *)
DrainCloses == drainRequested ~> terminationStarted
=============================================================================
