SPECIFICATION FairSpec

CONSTANTS
  MaxTasks = 2
  Workers = {w1}
  NoWorker = NoWorker
  Size = 1
  Buffer = 1
  MaxConcurrent = 1
  MaxTasksPerWorker = 3
  MaxQueueSize = 2
  OverflowPolicy = "reject"
  TaskTimeout = TRUE
  IdleTimeout = FALSE
  Lifetime = FALSE
  QueueTimed = {FALSE}
  Priorities = {0}
  RetryAttempts = 1
  Factory = {"ok", "throw", "partial"}
  Terminator = {"ok", "throw", "promise"}
  Reenters = {}
  MaxReentry = 0

INVARIANTS
  TerminationBounded
  DrainFinishesWork
PROPERTIES
  EveryTaskSettles
  DrainCloses
  CloseReports
