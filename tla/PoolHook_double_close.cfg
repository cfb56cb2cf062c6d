SPECIFICATION HookSpec
CONSTANTS
  MaxCalls = 1
  MaxReconfigs = 0
  MaxMounts = 1
  MaxCloses = 2
INVARIANTS CallsAreTracked
CHECK_DEADLOCK FALSE
