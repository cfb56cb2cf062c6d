# A TLA+ development of comlink-worker-pool

`comlink-worker-pool` runs method calls on a bounded set of web workers. All of
its code runs on one JavaScript thread, and yet it is a concurrent program: it
calls user code (observers, factories, terminators, proxies, abort signals) in
the middle of its own steps, and that code may call the pool again; timers,
microtasks, worker events and late promises run between its handlers. These
modules model that program, check it with TLC and prove part of it with TLAPS.

Paths are relative to `packages/comlink-worker-pool/src/` unless they begin
with another package.

## 1. Inventory

| part | state | operations | talks to |
|---|---|---|---|
| pool, `WorkerPool.ts` | lifecycle flags, workers and their active tasks, idle set, re-entrancy flags, creations in progress | `run`, abort, `_next`, worker choice and creation, `_dispatch`, its microtask, answers, task/queue/idle/lifetime timers, worker failure, removal, `drain`, `close`, `terminateAll` | the queue and the termination controller it owns; user code at every callback |
| queue, `internal/scheduler.ts` | linked list, heap array, mode, indexes | `insert`, `shift`, `contains`, `remove`, `drain`, `enforceLimit` | called by the pool, calls nobody |
| termination controller, `internal/termination.ts` | one record per removed worker; the closures of each attempt | `quarantine`, `attempt`, `confirm`, `recordFailure`, attempt and retry timers | the terminator; `onFailure` and `onStateChange` of the pool |
| helpers, `internal/lifecycle.ts`, `errors.ts` | none | validators, clock, isolation of observer failures | pool, controller |
| pool hook, `packages/comlink-worker-pool-react/src/useWorkerPool.ts` | api, pool status and call status in React state; binding, generation, call number and pool in refs; closures of the effect and of each call | layout effect of the binding, effect that owns the pool, their clean-ups, `call`, its end, `close` | React, which renders and commits; the pool it creates; the program, which may use functions of earlier renders |
| task hook, `useWorkerTask.ts` beside it | status; binding and call number in refs | layout effect, `run`, its end, `reset` | an api, usually of a pool hook |
| playground, `packages/playground/src/App.tsx` | form, batch, statistics | `applyConfig`, `runBatch`, its end | both hooks |
| scripts and browser tests | none shared | | |

What is hard, and what makes each part correct:

* **Pool.** Re-entrancy at every callback, state read before a callback and used
  after it, deadlines that pass while code runs, answers that arrive after the
  slot is gone, failures in the middle of creating a worker. Correct means: no
  accepted task is lost; physical workers stay within their limit; scheduling
  does not nest; slots, queue and per-worker task limits hold; no task waits
  beside a free slot; deadlines win over late events; nothing is executed after
  shutdown; `drain` finishes work and ends; `terminated` is resolved, and only
  when nothing is left to do.
* **Queue.** Two representations of one set over any sequence of calls. Correct
  means they agree and yield priority order, then submission order.
* **Controller.** A timed-out attempt may succeed later, beside a retry.
  Correct means bounded attempts, one thing to come at a time, and a slot given
  back exactly when some attempt has succeeded.
* **React hooks.** Promises settle, pools are replaced, components are hidden and
  shown again, and functions of earlier renders stay in use. Correct means: the
  status is that of the latest call on what is shown, `running` always ends, one
  pool at most is alive and it is the one offered.
* **Playground.** The batch and the statistics are kept by the component itself
  beside two hooks that keep theirs. Correct means no batch and no statistics of
  an earlier pool appear beside a later one.

`PROJECT.json` lists the hazards, each at its source line with the properties
that would catch it.

## 2. Modules

| module | models | role |
|---|---|---|
| `PriorityQueue` | what the queue computes, as operators on a sequence | used by `WorkerPool`, `AbstractQueue` |
| `AbstractQueue` | the same as a state machine | abstract specification of the queue |
| `SchedulerQueue` | `internal/scheduler.ts`, field by field | refines `AbstractQueue` |
| `WorkerArray` | `this.workers` of `WorkerPool.ts` with `poolIndex`, and the loop of `terminateAll()` over it | the array behind the set of workers in `WorkerPool` |
| `Quarantine` | what the controller promises about one worker | abstract specification |
| `Termination` | `internal/termination.ts`, one record, all its closures | refines `Quarantine` |
| `CallerPromise` | what the pool promises to the code that submits tasks | abstract specification of the pool |
| `WorkerPool` | `WorkerPool.ts` with queue and controller built in | the composition, core of the project; refines `CallerPromise` |
| `MCWorkerPool` | instances of `WorkerPool` for TLC, with symmetry of workers | 8 configurations |
| `LatestCall` | what "state of the latest call" means to a reader of it | abstract specification of both hooks and of the batch |
| `PoolHook` | `useWorkerPool.ts` | refines `LatestCall` |
| `TaskHook` | `useWorkerTask.ts` | refines `LatestCall` |
| `HookClient` | `App.tsx`: a component with both hooks and a batch | composition of `PoolHook` and `TaskHook` |
| `WorkerPoolProofs`, `TerminationProofs`, `TaskHookProofs` | theorems about the module they are named after | TLAPS |
| `SchedulerQueueProofs` | theorems about the pool's two index structures, `SchedulerQueue` and `WorkerArray` | TLAPS |
| `HookClientProofs` | theorems about `PoolHook` and about the component that uses it; instantiates `TaskHookProofs` for its task hook | TLAPS |
| `WorkerPoolTaskProofs` | theorems about the tasks of `WorkerPool` and its refinement of `CallerPromise`; extends `WorkerPoolProofs` | TLAPS |
| `WorkerPoolWorkerProofs` | theorems about the workers of `WorkerPool`; extends `WorkerPoolTaskProofs` | TLAPS |
| `WorkerPoolBacklogProofs` | theorems about the waiting tasks of `WorkerPool` and about its end; extends `WorkerPoolWorkerProofs` | TLAPS |

### How `WorkerPool` reads the code

The pool's code is interrupted only where it calls user code, so the state holds
the **control stack** of the thread: a frame per pending piece of pool code, the
top one last. A frame has a label (`at`) that names where the code goes on, the
worker `w`, the tasks `ts` and a reason `why` it works with, and `cb`, the kind
of user callback that is running before it. One action is one deterministic
segment between calls of user code, or a part of it that no other actor can
interrupt. A loop over tasks (`settle`, `failing`, `termtasks`) is one step per
element, because an observer runs after each. `UserCall` pushes a call of the
API either from the event loop or above a frame whose callback kind is in
`Reenters`; with an empty stack a microtask, timer or event may run. Timers wait
for pending microtasks.

Time is what the code compares: a queue deadline is `off`, `running` or `late`;
a task is in `tLate` when its run time exceeds the timeout; a worker's `life` is
`young`, `late` (the lifetime has passed) or `fired` (its timer has run). Time
moves in the event loop and during callbacks, so a deadline may pass inside a
handler before its timer can fire.

A task is its sequence number. `outcome` is how its promise settled, `phase`
where its dispatch microtask is. `this.workers` is a set (order and `poolIndex`
are an index structure, which `WorkerArray` has); `tstate`, `attempts` and `lateOk` are the controller's
records. `closeCalled`, `used` and `reentries` are history or bounds.

Simplifications, all on the side of more behaviours or of none that a property
can see:

* the loop of `_getAvailableWorker` takes idle workers in any order;
* `LeastLoaded` takes any worker of the least load (the code: the first);
* cleanup and the removed event of `_removeWorker` are one callback point, of the
  kind "event" (so an instance or a theorem that silences events silences the
  cleanup of removed workers with them);
* promise reactions are events of their own (a settled promise runs its
  handlers later, never inside the pool); thenables that settle synchronously
  inside callbacks are in `Termination` only;
* `removeEventListener` of the abort signal is assumed not to call the pool;
* rejected submissions, statistics counters and `getStats` change nothing the
  scheduler reads and are left out;
* branches that guard against states the model shows unreachable have no action:
  `item.settled` in `_dispatch` (line 951, property `QueueSound`) and the purge
  at lines 790-797 (property `IdleExact`), and the fallback `pop` at line 519.

### The other modules

`Termination` keeps one record and all its attempts: `waiting` promises,
`finished`/`timedOut` flags and armed timers. Its time is a number: `remaining`
is the distance of an attempt from its deadline, `delay` that of its timer from
firing. A timer holds at most `MaxTimerDelay`, so that it may fire before the
deadline and be armed again, as in the code; a timer that is due may also be
late, since `Tick` does not wait for it, and time passes in the terminator too,
where it may use up the whole timeout. With `SyncThenables` a promise of an
earlier attempt may settle while the terminator or the failure observer is
running.

`PoolHook` and `TaskHook` split the hook where React or the program takes over:
`Commit` renders and commits with the layout effects, `SetUp` and `CleanUp` are
the passive effect that owns the pool, and `Call`/`Settle` (`Start`/`Settle`) are
the two sides of an `await`. A `setState` changes the variable at once, while
the functions of the component read what was `shown` by the last commit; `held`
is the commit some caller still holds functions of, so that stale closures are
used at every point. Bindings are numbered, since only their identity is
compared. A passive effect that is due runs before the next render, as React
guarantees, and anything the program does may come before it. The assumptions
are React's documented ones: a render and its commit see the same state (the hook
sets state with default priority only), effects are cleaned up in the order of
their kinds, and `Connect` may set the effects up again without a render
(StrictMode's rehearsal, a hidden Activity shown again). Result and error follow
the status and are represented by `subject`, the call they are of. One outdated
commit is held at a time.

`HookClient` extends `PoolHook`, instantiates `TaskHook` on its api and adds
`App`. `App` has two task hooks that differ in their method only and share no
state, so one stands for both; and it leaves `call()` and `close()` unused, which
are kept here because the hook offers them beside a task hook. The guards of
`RunBatch` are those of the button that calls it.

`SchedulerQueue` keeps the arrays and links as they are. A loop of the code is
`Repeat(body, n, start)`: `n` iterations of a function from the loop's state to its
next, which leaves the state alone once the condition of the loop is false.
`UpStep` and `DownStep` are the loops of the two sifts, `HeapifyStep` and `PushStep`
those of `promoteToHeap`, `WalkStep` that of `drain` and `LimitStep` that of
`enforceLimit`.

`WorkerArray` has the array, the index each worker keeps of its place and the flag
`managed`. `AddWorker` is the insertion in `_getAvailableWorker()`, `RemoveWorker`
the part of `_removeWorker()` up to its first callback, forced or not, for a worker
with or without tasks. An iteration of the loop in `terminateAll()` is two actions,
`ReadLast` and `Detach`, since the observers of the tasks it settles run in between
and may have other workers removed; `held` is what the first has read. `Stuck` is
the fallback `pop()` of line 519. No worker is added during the loop, because the
pool takes no work then; a factory that has called `terminateAll()` adds its worker
after it.

Operators named `X_Y` are `X` with the slip `Y`. They are never used by a
specification; each shows that some property fails if the code had that slip.

## 3. What the runs check

| run | instance | shows |
|---|---|---|
| `scheduling` | 3 tasks, 1 worker of 2 slots at a time and one to replace it, no buffer, task limit 2, queue of 1 under "reject", terminators that answer late, signals that throw, abort or call the pool while registering, observers that call the pool | `WorkConserving`: in the event loop no queued task could be served; `QueueSound`, `QueueBound`, `WorkerBounds`, `EvictsOnlyWhenFull` |
| `deadlines` | 2 workers of 2 slots, all four kinds of deadline, also passing inside event observers and slow proxies; "drop-oldest" | `IdleExact`, `NoLostTask`, `DeadlineRespected`, `RetiredTakesNoTask`, refinement of `CallerPromise` |
| `reentrancy` | 1 worker of 2 slots with a buffer of 1 and 3 objects, 2 calls from callbacks of five kinds, factories and terminators that fail | `TypeOK`, `PhysicalBound`, `NoLostTask`, `SchedulerExclusive`, `ShutdownReport`, `DrainHasTrigger`, refinement of `CallerPromise` |
| `liveness` | fairness; workers may never answer, terminators may hang, one retry | `EveryTaskSettles`, `DrainCloses`, `CloseReports`, `DrainFinishesWork`, `TerminationBounded` |
| `scheduler_queue` | every call sequence over 6 tasks, 2 priorities | `RepresentationsAgree`, refinement of `AbstractQueue` |
| `termination_controller` | 3 attempts of 5 ticks with timers of at most 2, synchronous thenables | `TypeOK`, `SuccessFrees`, `OneThingToCome`, `NotEarly`, `QuarantineEnds`, refinement of `Quarantine` |
| `hook_client` | 2 calls, runs and batches in all, 1 reconfiguration, 2 mounts, 1 close | `ClientType`, `OwnsOnePool`, `OffersOwnedPool`, `StatusOfShownPool`, `StatsOfShownPool`, three refinements of `LatestCall` |
| `task_hook` | 2 apis, 2 methods, 2 runs, resets | `StatusOfShownTarget`, refinement of `LatestCall` |

Deadlock is checked in the runs of the pool and of the queue. In
`termination_controller` a record that is confirmed or exhausted has nothing left
to do, and in the runs of the hooks the bounds are used up. In `WorkerPool` the action
`Finished` marks the one legitimate end, a pool that has reported its shutdown.

`ImplementsPromise` says what a caller sees: a task settles once, its method is
called at most once and never in a closed pool, it is fulfilled only after its
method has answered, and an outcome that speaks of the queue is given only to a
task that was never called.

`EvictsOnlyWhenFull` leaves out one kind of submission. One that an observer of a
scheduling pass makes is judged when it is enforced, while the pass is under way
and its own `_next()` has returned at once, and may be evicted although the pass
would have made room: the code behaves so by design, since scheduling does not
nest.

### Where the code departs from its documentation

Four runs end with a counterexample; `PROJECT.json` quotes the sentences.

* `stale_worker`: while draining, `_getAvailableWorker` runs a statistics
  observer in its `finally` block, after the worker to return is chosen
  (line 844). If the worker fails there, the task is dispatched to a worker the
  pool no longer manages and its promise never settles.
* `drain_while_scheduling`: `drain()` called by an observer inside a scheduling
  pass that has just retired its last idle worker sees no worker, no quarantine
  and no creation (lines 478-487), and fails the queued tasks, though the pass
  would go on to create a worker.
* `worker_after_report`: the loop over expired idle workers (lines 789-805) does
  not look at `terminationStarted` after its observers, and creates a worker
  after `terminated` has resolved.

* `double_close`: the second `close()` of the pool hook clears the committed
  binding once more, but neither the api nor the pool status changes, so no new
  binding is rendered. Later calls through the hook are rejected without being
  shown, while `status` is documented as the state of the latest call.

More things the model shows have no run of their own in `PROJECT.json`.

* Only `drain()` itself tests for a queue without a trigger. The same state
  reached later leaves the drain pending for ever: the busy worker fails, and
  every replacement outlives its lifetime inside a slow `worker-created`
  observer. `MCWorkerPool_drain_stalls.cfg` shows it (`DrainHasTrigger` is
  violated); it takes five workers, because a pass gives up only after two of
  them, and there are two passes. The README of the package says that in this
  case the pool "closes and rejects the remaining accepted work rather than
  leaving the drain promise pending forever".
* `DrainFinishesWork` fails with two nested calls in the setting of
  `reentrancy`, for the reason of `drain_while_scheduling`.
* A task aborted between its dispatch and its microtask is still called, although
  its promise has been rejected, since the guards of the microtask do not test
  `item.settled`: hence `Start` of `CallerPromise` allows an aborted call.
* A pass may be given up while it could go on (`retriedWithoutProgress`, lines
  743-785). A failing factory rejects the backlog, an observer of the rejected
  task calls `run()`, the pass is repeated once, fails again, the observer calls
  `run()` once more, and the pass ends because two passes in a row have started no
  task. A task is then queued in an open pool that has a free place for a worker,
  and waits for the next submission. `WorkConserving` is violated by it in the
  setting of `scheduling` with a factory that may throw and two nested calls.
* `close()` from inside a signal's `addEventListener` leaves the task in the queue
  of a closed pool (line 649), so `NoLostTask` is not among the properties of
  `scheduling`.

The passing runs of the same properties exclude exactly these situations:
`NoLostTask` and `RetiredTakesNoTask` are checked without calls from `stats` and
`signal` callbacks,
`ShutdownReport` without lifetimes, whose expiry makes a pass retire idle
workers, `WorkConserving` and `EvictsOnlyWhenFull` with factories that do not
fail and one nested call, `DrainHasTrigger` without slow observers, `DrainFinishesWork` without
nested calls, and the hooks' properties hold for any number of closes, but a
call after the second one is not shown.

### Bounds

`MaxTasks` submissions, `Workers` objects (when they are used up the factory
throws, which it may do anyway) and `MaxReentry` calls from inside callbacks.
Two tasks are the least for one to overtake, evict or share with another; a third
is used where the task limit of a worker is two, so that it would be one too many,
for a retired worker that is still busy and has a free slot, or waits for what
replaces it. The pool's instances use one priority: no property of the pool depends
on which of its tasks the queue yields first, and that the queue yields them by
priority, then by age, is what `SchedulerQueue` is checked and proved to do.
Two physical workers are the least for a replacement beside a quarantined worker;
`reentrancy` has three worker objects, so that creation is tested against a limit
of two that is used up, and `deadlines` two managed workers side by side, of two
slots each: a worker is busy, past its lifetime and has room for the second task.
Two nested calls are enough to call the pool from a callback of a call made from a
callback. One retry shows attempt, timeout, late answer, retry and exhaustion; `Termination` uses two,
and a timeout of five ticks that takes three timers of at most two.
Six tasks make a heap of three levels, where a removed leaf's replacement may
have to move up.
In the hooks, `MaxReconfigs`, `MaxMounts`, `MaxCloses`, `MaxCalls`, `MaxRuns`,
`MaxCallIds` and `MaxStarted` bound what the program and React may do. Two calls
are the least for one to outdate another; a reconfiguration and two mounts give
pools of three generations, one closed, one torn down and one alive. The theorems
about the hooks need no such bound.
Workers are symmetric in safety runs; liveness runs use no symmetry.

### Fairness

`FairSpec` assumes weak fairness of `Code` (the thread does not stop inside the
pool), and strong fairness, per task and per worker, of microtasks, timers and of
the task clock: the event loop runs every due callback eventually, whatever else
becomes due in between, which interrupts their being enabled. Nothing is assumed
of users, of workers' answers or of terminators' promises. In `Termination` weak
fairness is enough, since only the record's own steps are there: its timers, the clock, and
the return of user code that was called. The hooks have no liveness property;
that a commit follows an update is React's affair.

## 4. What is proved

`WorkerPoolProofs` proves for all constants that satisfy `PoolAssumption` (which
restates the validation of the options in the constructor):

* `TypeCorrect`: `Spec => []TypeOK`;
* `SchedulingNeverNests`: `Spec => []SchedulerExclusive`;
* `PhysicalWorkersBounded`: `Spec => []PhysicalBound`;
* `Invariance`: `Spec => []IInv`, from which the three follow.

`IInv` is `TypeOK`, `SchedulerExclusive` and `Capacity`. `PhysicalBound` alone is
not inductive: creation tests the capacity, calls the factories, and adds the
worker later. `Capacity` says that while a `construct` frame is anywhere on the
stack there is room for a managed worker and for a physical one, that a `discard`
frame holds a worker that is counted nowhere yet and has room for it, that
managed and quarantined workers are disjoint and all come from the factory (so
the new one is counted once). To keep this over steps of nested calls one needs
that no second creation can have begun, which is `SchedulerExclusive`; and that
needs the type of the frames.

The argument has two shapes. A step of code that is not scheduling replaces the
top frame by frames without scheduling labels (`KeepsSched`) and lets neither
count grow (`NoGrowth`): lemma `KeepStep`. A step of the scheduling code moves
the one scheduling frame (`MovesSched`): lemma `MoveStep` asks for room exactly
when the new label is `construct` or `discard`. Nested calls land above the
callback's frame and can take no room, only give it back, so the room tested
before the factory is there after it. There is one step per action, grouped by
the sections of `WorkerPool` into lemmas that `NextIInv` puts together.

`WorkerPoolTaskProofs` proves, from the same assumption only:

* `QueueIsSound`: `Spec => []QueueSound`;
* `DeadlinesRespected`: `Spec => DeadlineRespected`;
* `ClosedPoolSheds`: once the pool is closed, each worker still managed is in the
  hands of code on the stack that will remove it;
* `PoolKeepsPromise`: `Spec => ImplementsPromise`, the refinement of
  `CallerPromise`;
* `TasksTracked`: `Spec => []TaskInv`, from which they follow.

None of them is inductive: they speak of the queue, the slots and the outcomes,
while what the next step does to a task is decided by a frame that may have been
waiting under a callback for any number of other calls. So `TaskInv` says, next to
where a task can be (`Births`: a task exists from its number on; `QueuedOnce`: the
queue holds pending tasks that were never dispatched, each once; `Slots`: a slot
holds a dispatched task, on one worker), what a frame may count on when it runs
again: `HeldSound` (a task about to be queued or settled is in no queue and was
never dispatched), `InsertAlone` (no second frame is about to do the same to a
task that is being submitted), `Reasons` (with which reason a settling loop was
started, and that "pool-closed" needs a closed pool), `CallsFirst` (code of a
microtask or an answer is at the bottom of the stack, so no two calls of methods
are interleaved, and its task is in the phase the code expects) and `Doors` (a
pool that is closed or drains accepts nothing). `Closing` and `EndFrames` carry
`ClosedPoolSheds`: they say which frame answers for each managed worker. The proof
has one lemma per section of the model for each part of the invariant that the
section can disturb; the steps that leave a part alone are told by what they do to
the stack (`Moves`, `Calls`: the frames below stay, and which labels the new ones
have).

`WorkerPoolWorkerProofs` proves, from the same assumption only:

* `TerminationIsBounded`: `Spec => []TerminationBounded`;
* `WorkersAreBounded`: `Spec => []WorkerBounds`;
* `IdleSetIsExact`: `Spec => []IdleExact`.

Each rests on an invariant of its own, because the number or the set is read in
one step and written in a later one:

* `AttemptInv` for the attempts. `AttemptsCounted` says that a retry is due only
  while one is left and that a worker that was never removed has had no attempt.
  The calls of a terminator may be nested (its promise settles, or a timer fires,
  under another callback), so `AttemptFrames` says in which state the frames of an
  attempt find the record, and `AttemptAlone` that one worker has at most one
  attempt on the stack: without it two of them could be counted for the same
  retry.
* `BoundsInv` for the limits. `ChoiceFits` says that a worker held by a `got`,
  `finally` or `created` frame still has room for a task, whatever the statistics
  or lifecycle observers do before `_dispatch` counts it; it needs
  `SchedulerExclusive`, because a nested pass would take the same slot.
  `WorkersWithin` adds that a worker at its lifetime limit of tasks is marked,
  and that a worker which does not exist yet has neither tasks nor a count.
* `IdleInv` for the idle set. `NoneForgotten` says that a managed worker without a
  task is idle or that some frame will deal with it (`Excused`); `IdleReady` that
  an idle worker is managed, free and unmarked, unless it is at this moment being
  failed or removed by code no observer can interrupt (`Leaving`); `NewReady` the
  same of a worker whose creation event is being observed; `NoneIdle` that none is
  idle while one is made, so the new one is the only choice; `PlainFails` that a
  failure starts without a callback in between. It needs `BoundsInv`,
  `ClosedPoolSheds` and `TaskInv`: they exclude that the answer of a worker of a
  closed pool, or the end of its last task, puts it back into the set.

`WorkerPoolBacklogProofs` proves:

* `QueueIsBounded`: `Spec => []QueueBound`, from `PoolAssumption` only;
* under `QuietObservers`, `NoTaskIsLost`: `Spec => []NoLostTask`, and
  `RetiredWorkersRest`: `Spec => RetiredTakesNoTask`;
* under `QuietObservers` and without worker lifetimes, `ShutdownIsReported`:
  `Spec => []ShutdownReport`;
* under `CalmObservers` and without worker lifetimes, `SlotsAreNotWasted`:
  `Spec => []WorkConserving`, `DrainsAreTriggered`: `Spec => []DrainHasTrigger`,
  `EvictionNeedsFullPool`: `Spec => EvictsOnlyWhenFull`, and `DrainsLetTasksRun`:
  `Spec => []DrainFinishesWork`.

`QuietObservers` says that the statistics observer and an abort signal do not call
the pool back; every other observer, the factories and the terminators may. The
hypotheses leave out what the code gets wrong, as the section on departures
shows: with calls from statistics observers `stale_worker` loses a task and gives
one to a failed worker, with calls from signals a task is queued in a closed pool,
and with lifetimes `worker_after_report` makes a worker after the report.
A slow statistics observer is excluded with the one that calls back: a lifetime
that ends in the report of the `finally` block is not looked at again.
`CalmObservers` adds that lifecycle observers do not call the pool; factories,
terminators, the methods of a proxy and the cleanup of a worker that could not be
completed still may, any number of times. The cleanup of a removed worker may not:
it is one callback with the event that follows it.
With calls from lifecycle observers or with lifetimes a pass that could go on is
given up, as two of the departures show, and a `drain()` called by a lifecycle
observer of a pass fails the tasks that the pass would have served.

* `LimitInv`: the queue is within its limit, or the frame of a `run()` that is still
  to enforce it is on the stack. An observer may find the queue too long, the event
  loop never does.
* `SealInv` is the assumption the code makes where it does not look again. Frames
  that run at once (`Alone`: the insertion of a submitted task, a removal and,
  without lifetimes, the choice of a worker) are always the top one. A frame that
  holds a chosen worker (`Chosen`) is the top one or lies directly under a
  statistics report. A frame that is on top fits the state (`TopFits`): the pool is
  open for an insertion and a choice, a worker that is removed by force has no
  task, and a chosen worker is managed, not retired and within its lifetime unless
  the pool is closed.
* `HandsInv` and `ClosedEmpty`: every pending task is in the queue, in a slot of a
  managed worker or held by a frame, and a closed pool has an empty queue. The two
  hard cases are the removal of a worker, which must have no slot taken, and the
  dispatch, whose worker must still be managed: both are what `SealInv` says.
* `ReportInv`: a resolved shutdown promise means that the pool is closed, no worker
  is managed or being made, and no attempt is to come. By `SchedulerExclusive` and
  `SealInv` no running code is choosing or making a worker then, by
  `AttemptFrames` none is about to attempt a termination; that nothing is pending
  either follows from `NoTaskIsLost`.
* `ServeInv`: wherever control may be that will not schedule by itself (`Expects`:
  the event loop, a `run()` that is to enforce the limit, a `drain()` that is to
  look for a stall), either there is nothing to serve, or a frame that will
  schedule is still above it or is the pass it runs in (`Backed`). The event loop
  has nothing above it, so it finds nothing to serve, which is `WorkConserving`;
  a `run()` outside a pass is on top when it evicts, which is
  `EvictsOnlyWhenFull`. Nothing to serve (`Served`) means that every slot is taken
  and that a managed worker or a termination still tried will free one
  (`Hopeful`), so `DrainHasTrigger` follows as well. `SoundInv` is what makes it
  inductive: the end of a pass finds what its last scan found, because only reports
  of settled tasks run in between and these do not call the pool; a failed creation
  leaves the queue empty; and a removal that frees a slot is always followed by
  `_next()`, whose frame waits under it.
* `LastInv` and `CloseInv`: until user code calls `close()`, no task has failed with
  "pool-closed" and the pool terminates only when all tasks have settled. There are
  two other ways to `terminateAll()`. `_updateStats` calls it at the end of a drain:
  by `HandsInv` an unsettled task would then be held by a frame, but code that
  inserts a task (`SealInv`) or settles some (`LastInv`) is the top one, and that is
  `_updateStats`. `drain()` calls it for a stalled queue: by `ServeInv` a queue that
  is not served has a pass running, below the callback that called `drain()`
  (`LastInv`), and the type of the frames says where the pool calls factories,
  cleanups, terminators and methods. So a worker is being made (`SchedulerExclusive`)
  or its termination is attempted (`AttemptFrames`), or the frame is that of a
  method's call, which has no pass below (`CallsFirst`): no stall.

`TerminationProofs` proves, for every number of retries, timeout and timer limit:
`RecordType`, `SlotFreedBySuccess`, `OneThingAhead`, `GivenUpAtDeadline` and
`QuarantineKept`, that is `Spec => ImplementsQuarantine`. None of the properties is
inductive alone, because they speak of the event loop while the steps run in
between. `IInv` adds `AttemptsInOrder` (which attempts can be waited for, timed or
finished; only the latest can be timed), `OnePhase` (a tracked record has exactly
one of its phases, also while user code runs) and `SuccessPending` (a success not
yet acted on is waiting for the report of its timeout). The refinement has one
lemma per action: each maps to a step of `Quarantine` or to a stutter, decided by
the phase that `OnePhase` gives; `OutOfMap` deals with whatever happens to a
record that has left the map.

`SchedulerQueueProofs` proves, for every number of tasks, any priorities, limits and
any sequence of calls (`QueueAssumption` says that these are numbers):

* `QueueInvariance`: `Spec => []QueueInv`;
* `QueueRepresentationsAgree`: `Spec => []RepresentationsAgree`;
* `QueueImplementsPromise`: `Spec => ImplementsPromise`, the refinement of
  `AbstractQueue`.

`RepresentationsAgree` is not inductive: it says that each representation is sound
as seen by walking it, while a method changes a few fields. `QueueInv` says of which
list of tasks the fields are the state, `Sound(priority, q, list)`: the list ascends
in order of submission and every link of the code is the neighbour in it (`Linked`,
also: a task that is not queued has no links); in heap mode each task is in the array
at its own index and nothing else is there (`AllInPlace`) and none is before its
parent (`HeapOrder`); in FIFO mode the array is empty and one priority is shared. Each
method is then shown to lead from `Sound` of a list to `Sound` of the list that
`AbstractQueue` has next, so both theorems follow from one lemma per method.

What a method does is decided by its loops, so the proof is an induction at each of
them. The library's induction theorems need an operator parameter, but a set will do
in its place: `LeastNumber` takes a least element of a set of numbers from the
well-foundedness of `<`, and `LoopKeeps` says that a set of pairs of a count and a
state that has the start and is closed under the body has the end. The loop
invariants are those of a textbook. While a task `t` rises or falls there is a hole
at the index the loop holds: the array is in place but for it (`InPlace`), and a heap
if `t` is imagined in the hole, but for the pairs of `t` with its parent
(`UpOrder`) or its children (`DownOrder`). A loop that can go on has not reached the
root or a leaf, so its bound on the iterations is enough. `promoteToHeap` fills the
array with the list (`Filled`) and orders it from the last parent down
(`Heapifying`). A removal from the middle of the heap moves the last task into the
gap; whether it rises or falls is decided by one comparison, and `LeaveHeapSorts`
shows that the other direction then needs nothing. `enforceLimit` evicts the first
tasks of `Victims`, and after each the loop finds the next one where it looks
(`VictimIsNext`).

The same module proves of the array, for any number of workers and any `Size`,
`WorkersKeepTheirPlace` (`ArraySpec => []IndexExact`) and `TheOneAskedLeaves`
(`ArraySpec => RemovesTheOneAsked`). It is what lets `WorkerPool` have a set of
workers in place of the array. `ArrayInv` adds to `IndexExact` what an iteration of
`terminateAll()` still knows after its observers (`HeldSound`): the worker it read is
managed, and will be detached, or the array has become shorter. Hence the fallback
`pop()` never drops a worker that was not detached, and the search by `lastIndexOf`
of a forced removal is never needed (`PlaceKept`). The theorems assume of the
constants what `ArrayAssumption` says. `RemovesTheOneAsked` also holds in TLC for four
workers, three at a time (`WorkerArray.cfg`), which is not among the runs above,
since the theorem covers it.

`TaskHookProofs` and `HookClientProofs` prove that the hooks implement `LatestCall`
(`TaskShowsLatestRun`, `HookShowsLatestCall`), what a reader of the status gets from
it (`StatusNeverGoesBack` in each: "running" is shown exactly while the end of the
latest call is to come, and a status about one call is never followed by one about an
earlier call), and that the status belongs to what is shown (`StatusIsOfTarget`,
`StatusIsOfPool`). Of the pool hook they also prove `OnePoolOwned` and
`OwnedPoolOffered`. The hooks decide by comparing numbers kept in refs and closures,
so both invariants say that no closure holds a number that is yet to be given out
(`IdsGivenOut`, `NumbersGivenOut`) and that exactly the call shown running passes the
comparison (`StatusFollows`). The pool hook has two more: `EffectOfGeneration` ties
the effect's closure to the current generation and the ready api to an open pool, and
`ShownIsCurrent` says that a live binding of the current generation shows what the
hook has, without which a call could be tracked on a pool that is gone.

`HookClientProofs` goes on to the component that uses both hooks:

* `ClientUsesHook`: `ClientSpec => HookSpec`. The component only restricts when its
  pool hook acts, so all that is proved of the hook holds in it
  (`ClientOwnsOnePool`, `ClientShowsLatestCall`);
* `ClientShowsLatestRun`: its task hook implements `LatestCall`, although the api it
  is handed changes with every pool; the invariant of `TaskHookProofs` is
  instantiated and kept (its hypotheses on the parameters are proved of the
  instance);
* `ClientTyped`: `ClientSpec => []ClientType`;
* `StatsAreOfShownPool`: `ClientSpec => []StatsOfShownPool`;
* `ShownBatchIsLatest`: `ClientSpec => ShowsLatestBatch`, and `BatchNeverGoesBack`;
* `ClientInvariance`: `ClientSpec => []ClientInv`, from which they follow.

The type is not obvious: the api of the task hook is the number of a pool, and that
it is a pool that was created follows from `PoolsCounted`, which counts effects due
and done against mounts and changes of the options. `PoolGenerations` (no two pools
share a generation, and the effect's pool has that of the effect's closure) and
`StatsFollow` (statistics beside a ready pool are its own unless the form was applied
and the effect that replaces the pool is due) keep a late report of a replaced pool
away. `BatchFollows` says that the batch shown running is the only one whose end will
still be published, since each has a generation of its own.

Only model-checked: liveness, which is outside the prover's reach (`EveryTaskSettles`,
`DrainCloses`, `CloseReports`, `QuarantineEnds`), and what the four counterexamples
show. Every invariant, action property and refinement that a passing run checks has
its theorem. Some theorems about `WorkerPool` are conditional where the code is
(above); TLC checks these properties on the instances of section 3.

## 5. What could follow

1. The theorems of `WorkerPoolBacklogProofs` under weaker hypotheses: with worker
   lifetimes or with lifecycle observers that call the pool, for the passes that none
   of the departures of section 3 concerns.
2. The pool with `SchedulerQueue` in place of the operators of `PriorityQueue`. The
   composition should follow from `QueueImplementsPromise`: the queue calls nobody,
   so each of its methods is one step of the pool.

## 6. Not modelled

* Option validation, statistics counters, `getStats()` and the proxy behind
  `getApi()`: pure, or read-only on the state the scheduler uses.
* `errors.ts`, `index.ts`: data and exports.
* The markup, the log and the text function of the playground.
* `scripts/` (benchmark, release, package smoke test) and the browser tests:
  sequential programs that talk to git, npm and a browser, with no state shared
  between actors and nothing that a step could overtake.
