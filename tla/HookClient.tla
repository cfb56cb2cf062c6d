----------------------------- MODULE HookClient -----------------------------
(* A component that owns a pool with useWorkerPool and passes the pool's api *)
(* to useWorkerTask, as the playground's App does; the batch, the statistics *)
(* and the form are App's, which leaves call() and close() of the pool hook  *)
(* unused: they are here because the hook offers them beside a task hook.    *)
(* One task hook stands for App's two, which differ in their method. All of  *)
(* it is one component, rendered, committed and taken away as one. The pool  *)
(* itself is left open, but for the statistics it reports.                   *)
(* X_Y is X with the slip Y in it, used only to see the properties fail.     *)
EXTENDS PoolHook

CONSTANT MaxStarted  \* bound: calls, runs and batches together

ASSUME ClientAssumption == MaxStarted \in Nat

VARIABLES
  taskStatus, taskSubject, taskShown,  \* the variables of the task hook
  taskHeld, taskBinding, taskCallId, runs,
  batchGeneration,             \* batchGenerationRef
  batchStatus, batchSubject,   \* the state "batch" and the batch it is about
  batches,                     \* each batch's generation, and whether it ended
  stats                        \* the pool the shown statistics are of

taskHookVars == <<taskStatus, taskSubject, taskShown, taskHeld,
                  taskBinding, taskCallId, runs>>
batchVars == <<batchGeneration, batchStatus, batchSubject, batches>>
clientVars == <<hookVars, taskHookVars, batchVars, stats>>

Task == INSTANCE TaskHook WITH
  Apis <- 1..(MaxReconfigs + MaxMounts),
  Methods <- {"fibAsync"}, method <- "fibAsync",
  MaxRuns <- MaxStarted, MaxCallIds <- 5 * MaxMounts + MaxStarted,
  status <- taskStatus, subject <- taskSubject, shown <- taskShown,
  held <- taskHeld, activeBinding <- taskBinding, latestCallId <- taskCallId

(* The shapes of the state of both hooks and of the component.               *)
ClientType ==
  /\ HookType /\ Task!TaskType
  /\ batchGeneration \in Nat
  /\ batchStatus \in {"idle", "running", "completed", "error"}
  /\ batchSubject \in 0..Len(batches)
  /\ batches \in Seq([generation : Nat, done : BOOLEAN])
  /\ stats \in 0..Len(pools)

ClientInit ==
  /\ HookInit /\ Task!TaskInit
  /\ batchGeneration = 0 /\ batchStatus = "idle" /\ batchSubject = None
  /\ batches = <<>> /\ stats = None

MayStart == Len(calls) + Len(runs) + Len(batches) < MaxStarted

-----------------------------------------------------------------------------
(* React works on the component as a whole.                                  *)

(* An outdated function the program still uses is one of one earlier commit. *)
ClientCommit ==
  /\ Commit /\ Task!Commit /\ UNCHANGED <<batchVars, stats>>
  /\ held' = shown => taskHeld' = taskShown
  /\ held' # shown => taskHeld' = taskHeld
ClientConnect == Connect /\ Task!Connect /\ UNCHANGED <<batchVars, stats>>
ClientDisconnect ==
  Disconnect /\ Task!Disconnect /\ UNCHANGED <<batchVars, stats>>

(* The constructor of a pool reports its first statistics.                   *)
ClientSetUp ==
  /\ SetUp
  /\ stats' = IF pools' = pools THEN stats ELSE Len(pools')
  /\ UNCHANGED <<taskHookVars, batchVars>>

ClientCleanUp == CleanUp /\ UNCHANGED <<taskHookVars, batchVars, stats>>

-----------------------------------------------------------------------------
(* The hooks' own functions.                                                 *)

HookStep ==
  /\ \/ \E view \in {shown, held} : MayStart /\ Call(view)
     \/ \E i \in 1..Len(calls) : Settle(i)
     \/ Close
  /\ UNCHANGED <<taskHookVars, batchVars, stats>>

TaskStep ==
  /\ \/ \E view \in {taskShown, taskHeld} : MayStart /\ Task!Start(view)
     \/ \E i \in 1..Len(runs) : Task!Settle(i)
  /\ UNCHANGED <<stateVars, options, shown, held, dependencies, passive,
                 activeBinding, latestCallId, poolVars, calls, countVars,
                 batchVars, stats>>

(* A pool reports its statistics, also while it shuts down.                  *)
UpdateStats_AnyPool(pool) ==
  /\ stats' = pool
  /\ UNCHANGED <<hookVars, taskHookVars, batchVars>>

UpdateStats(pool) ==
  /\ stats' = IF generation = pools[pool] THEN pool ELSE stats
  /\ UNCHANGED <<hookVars, taskHookVars, batchVars>>

-----------------------------------------------------------------------------
(* App.                                                                      *)

ApplyConfig_KeepsBatch ==
  /\ Reconfigure
  /\ batchStatus' = "idle" /\ batchSubject' = None /\ stats' = None
  /\ UNCHANGED <<taskHookVars, batchGeneration, batches>>

ApplyConfig ==
  /\ Reconfigure
  /\ batchGeneration' = batchGeneration + 1
  /\ batchStatus' = "idle" /\ batchSubject' = None /\ stats' = None
  /\ UNCHANGED <<taskHookVars, batches>>

(* The button is disabled unless the pool is ready and no batch is running.  *)
RunBatch ==
  /\ MayStart
  /\ shown.api # None /\ shown.poolStatus = "ready" /\ batchStatus # "running"
  /\ batchGeneration' = batchGeneration + 1
  /\ batchStatus' = "running" /\ batchSubject' = Len(batches) + 1
  /\ batches' = Append(batches, [generation |-> batchGeneration + 1,
                                 done |-> FALSE])
  /\ UNCHANGED <<hookVars, taskHookVars, stats>>

(* Promise.allSettled; the batch is in error when one of its calls failed.   *)
BatchSettled(i) ==
  /\ ~batches[i].done /\ batches' = [batches EXCEPT ![i].done = TRUE]
  /\ IF batches[i].generation = batchGeneration
     THEN batchSubject' = i /\ batchStatus' \in {"completed", "error"}
     ELSE UNCHANGED <<batchSubject, batchStatus>>
  /\ UNCHANGED <<hookVars, taskHookVars, batchGeneration, stats>>

AppStep ==
  \/ ApplyConfig \/ RunBatch
  \/ \E i \in 1..Len(batches) : BatchSettled(i)
  \/ \E pool \in 1..Len(pools) : UpdateStats(pool)

ClientNext ==
  \/ ClientConnect \/ ClientDisconnect \/ ClientCommit \/ ClientSetUp
  \/ ClientCleanUp \/ HookStep \/ TaskStep \/ AppStep

ClientSpec == ClientInit /\ [][ClientNext]_clientVars

-----------------------------------------------------------------------------
(* Properties.                                                               *)

(* However often the pool is replaced, the task hook shows the state of the  *)
(* latest run on the api it is bound to, and of no earlier run.              *)
ShowsLatestRun == Task!ShowsLatestRun

PendingBatches ==
  {i \in 1..Len(batches) :
     ~batches[i].done /\ batches[i].generation = batchGeneration}

LatestBatch == INSTANCE LatestCall WITH
  started <- Len(batches),
  tracked <- IF PendingBatches = {} THEN 0
             ELSE CHOOSE i \in PendingBatches : TRUE,
  view <- batchStatus, subject <- batchSubject

(* A batch that was running when the form was applied never appears as the   *)
(* outcome of a later one, and no batch is shown running for ever.           *)
ShowsLatestBatch == LatestBatch!LatestSpec

(* Once the effects and renders that are due have happened, the statistics   *)
(* beside a ready pool are that pool's, whatever an earlier one reports late.*)
StatsOfShownPool == AtRest /\ poolStatus = "ready" => stats = poolRef
=============================================================================
