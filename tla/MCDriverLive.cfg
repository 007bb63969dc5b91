CONSTANTS
  Task = {t1}
  Writer = {w1, w2, w3}
  Command = {"CREATE_TASK", "SET_DEADLINE", "GOING_WAITP"}
  Service = service
  Nobody = nobody
  Above <- Stacked
  Deadline = {1}
  BasePrio = 0
  QueueLimit = 1
  MaxTime = 1
  MAXPRIO = 2
  MINPRIO = 0
  Half = 4
  Word = 16
  PowersOfTwo = {1, 2, 4}
SPECIFICATION FairDriverSpec
PROPERTIES
  LockIsReleased
  WakeupServed
