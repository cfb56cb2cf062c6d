SPECIFICATION Spec

CONSTANTS
  MaxTasks = 3
  Workers = {w1, w2}
  NoWorker = NoWorker
  Size = 1
  Buffer = 0
  MaxConcurrent = 2
  MaxTasksPerWorker = 2
  MaxQueueSize = 1
  OverflowPolicy = "reject"
  TaskTimeout = FALSE
  IdleTimeout = FALSE
  Lifetime = FALSE
  QueueTimed = {FALSE}
  Priorities = {0}
  RetryAttempts = 0
  Factory = {"ok"}
  Terminator = {"promise"}
  Reenters = {"signal", "event"}
  MaxReentry = 1

INVARIANTS
  WorkConserving
  QueueSound
  QueueBound
  WorkerBounds
PROPERTIES
  EvictsOnlyWhenFull
SYMMETRY Symmetry
