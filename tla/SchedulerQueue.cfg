SPECIFICATION Spec

CONSTANTS
  MaxTasks = 6
  Priorities = {0, 1}
  Limits = {2}
  Null = Null

INVARIANTS
  RepresentationsAgree
PROPERTIES
  ImplementsPromise
