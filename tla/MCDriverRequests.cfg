CONSTANTS
  Task = {t1, t2}
  Writer = {w1, w2}
  Command = {"CREATE_TASK", "RESET_DEADLINE", "STOP_WATCHD"}
  Service = service
  Nobody = nobody
  Above <- Apart
  Deadline = {1, 2}
  BasePrio = 1
  QueueLimit = 0
  MaxTime = 1
  MAXPRIO = 2
  MINPRIO = 0
  Half = 4
  Word = 16
  PowersOfTwo = {1, 2, 4}
SPECIFICATION DriverSpec
INVARIANTS
  DriverTypeOK
  LockedAccess
  OrderWhileDefined
SYMMETRY Symmetry
