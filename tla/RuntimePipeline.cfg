CONSTANTS
  Scenario <- EveryScenario
  OffsetExceeds = TRUE
  SequenceLength = 2
  TrainAfter = 2
  MaxRounds = 3
  MaxLost = 3
  MaxStart = 2
SPECIFICATION FairSpec
INVARIANTS
  TrainingDataIsNormal
  ModelIsBacked
  OverridesLastOneCycle
  RepeatedBehaviourIsRecorded
PROPERTIES
  BlockedCyclesWriteNothing
  NormalRunsTrain
