CONSTANTS
  MAXPRIO = 5
  MINPRIO = 0
  Half = 16
  Word = 256
  PowersOfTwo = {1, 2, 4, 8, 16}
SPECIFICATION Spec
INVARIANTS
  PrioInRange
  RangeIsUsed
  OneLevelOfExact
PROPERTY PrioAntitone
CHECK_DEADLOCK FALSE
