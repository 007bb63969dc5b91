SPECIFICATION ExFairSpec
CONSTANTS
  Programs <- MCPrograms
  ITER = 2
  Rounds = 2
  Started = 3
INVARIANTS
  ExTypeOK
  MutualExclusion
  HolderRuns
  FeedbackCounts
  ProgramsCompute
PROPERTIES
  StagesInOrder
  EveryRoundActs
