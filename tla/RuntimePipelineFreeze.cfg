CONSTANTS
  Scenario <- FreezeScenarios
  OffsetExceeds = TRUE
  SequenceLength = 2
  TrainAfter = 2
  MaxRounds = 3
  MaxLost = 0
  MaxStart = 1
SPECIFICATION Spec
INVARIANTS
  FreezeHoldsValues
