CONSTANTS
  Task = {t1, t2}
  Main = main
  Periods = 2
  Descriptors = 4
  Deadline = {1, 15}
  BasePrio = 1
  QueueLimit = 0
  MaxTime = 2
  MAXPRIO = 2
  MINPRIO = 0
  Half = 4
  Word = 16
  PowersOfTwo = {1, 2, 4}
SPECIFICATION ClientSpec
PROPERTY ResetOnReturn
CHECK_DEADLOCK FALSE
