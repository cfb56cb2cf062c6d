SPECIFICATION Spec

CONSTANTS
  MaxTasks = 2
  Workers = {w1, w2, w3}
  NoWorker = NoWorker
  Size = 1
  Buffer = 1
  MaxConcurrent = 2
  MaxTasksPerWorker = 2
  MaxQueueSize = 1
  OverflowPolicy = "reject"
  TaskTimeout = FALSE
  IdleTimeout = FALSE
  Lifetime = FALSE
  QueueTimed = {FALSE}
  Priorities = {0}
  RetryAttempts = 0
  Factory = {"ok", "throw", "partial"}
  Terminator = {"ok", "throw", "promise"}
  Reenters = {"event", "factory", "cleanup", "terminator", "proxy"}
  MaxReentry = 2

INVARIANTS
  TypeOK
  PhysicalBound
  NoLostTask
  SchedulerExclusive
  ShutdownReport
  DrainHasTrigger
PROPERTIES
  ImplementsPromise
SYMMETRY Symmetry
