SPECIFICATION Spec

CONSTANTS
  MaxTasks = 2
  Workers = {w1, w2}
  NoWorker = NoWorker
  Size = 1
  Buffer = 1
  MaxConcurrent = 1
  MaxTasksPerWorker = 3
  MaxQueueSize = 2
  OverflowPolicy = "reject"
  TaskTimeout = FALSE
  IdleTimeout = FALSE
  Lifetime = TRUE
  QueueTimed = {FALSE}
  Priorities = {0}
  RetryAttempts = 0
  Factory = {"ok"}
  Terminator = {"ok", "promise"}
  Reenters = {"event"}
  MaxReentry = 1

INVARIANTS
  ShutdownReport
SYMMETRY Symmetry
