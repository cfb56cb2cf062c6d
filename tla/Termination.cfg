SPECIFICATION Spec

CONSTANTS
  RetryAttempts = 2
  AttemptTimeout = 5
  MaxTimerDelay = 2
  SyncThenables = TRUE

INVARIANTS
  TypeOK
  SuccessFrees
  OneThingToCome
  NotEarly
PROPERTIES
  ImplementsQuarantine
  QuarantineEnds
CHECK_DEADLOCK FALSE
