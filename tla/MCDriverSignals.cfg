CONSTANTS
  Task = {t1}
  Writer = {w1, w2}
  Command = {"CREATE_TASK", "RESET_DEADLINE", "GOING_WAITP"}
  Service = service
  Nobody = nobody
  Above <- Apart
  Deadline = {1}
  BasePrio = 0
  QueueLimit = 0
  MaxTime = 1
  MAXPRIO = 2
  MINPRIO = 0
  Half = 4
  Word = 16
  PowersOfTwo = {1, 2, 4}
SPECIFICATION FairDriverSpec
PROPERTY EverySignalServed
