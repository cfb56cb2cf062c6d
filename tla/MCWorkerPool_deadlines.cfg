SPECIFICATION Spec

CONSTANTS
  MaxTasks = 2
  Workers = {w1, w2}
  NoWorker = NoWorker
  Size = 2
  Buffer = 0
  MaxConcurrent = 2
  MaxTasksPerWorker = 2
  MaxQueueSize = 1
  OverflowPolicy = "drop-oldest"
  TaskTimeout = TRUE
  IdleTimeout = TRUE
  Lifetime = TRUE
  QueueTimed = {FALSE, TRUE}
  Priorities = {0}
  RetryAttempts = 0
  Factory = {"ok"}
  Terminator = {"ok"}
  Reenters = {"event", "proxy"}
  MaxReentry = 0

INVARIANTS
  IdleExact
  NoLostTask
PROPERTIES
  DeadlineRespected
  ImplementsPromise
  RetiredTakesNoTask
SYMMETRY Symmetry
