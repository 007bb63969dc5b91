SPECIFICATION FairLifecycleSpec
CONSTANTS
  Task = {t1}
  Writer = {w1, w2}
  Service = service
  Nobody = nobody
  MaxBlocks = 3
INVARIANTS
  LifecycleTypeOK
  QuietWhenUnloaded
  EndedTasksLeave
  MemoryIsOwned
PROPERTIES
  UnloadEnds
CHECK_DEADLOCK FALSE
