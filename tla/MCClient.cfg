CONSTANTS
  Task = {t1, t2}
  Main = main
  Periods = 1
  Descriptors = 2
  Deadline = {1, 15}
  BasePrio = 1
  QueueLimit = 0
  MaxTime = 1
  MAXPRIO = 2
  MINPRIO = 0
  Half = 4
  Word = 16
  PowersOfTwo = {1, 2, 4}
SPECIFICATION FairClientSpec
INVARIANTS
  ClientTypeOK
  TableFollowsTasks
  OneInitSuffices
PROPERTIES
  ProgramEnds
CHECK_DEADLOCK FALSE
