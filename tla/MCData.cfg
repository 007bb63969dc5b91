CONSTANTS
  Task = {t1, t2, t3}
  Deadline = {1, 3, 63}
  BasePrio = 2
  QueueLimit = 1
  MaxTime = 2
  MAXPRIO = 4
  MINPRIO = 0
  Half = 8
  Word = 64
  PowersOfTwo = {1, 2, 4, 8}
SPECIFICATION Spec
INVARIANTS
  EDFInv
  EDFOrder
  NoEarlyMiss
PROPERTIES
  RecalculationPromotesDueFirst
  StaticWithoutDeadline
  MonitorSpec
SYMMETRY Symmetry
