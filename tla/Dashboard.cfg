CONSTANTS
  Scenario <- TwoScenarios
  Power = {70, 80}
  DemoMax = {0, 2}
  MaxCycles = 2
  MaxRuns = 2
SPECIFICATION FairSpec
INVARIANTS
  AtMostOneRuntime
  StoppedRunsNoCycle
PROPERTIES
  StopIsFinal
  NextCycleTakesScenario
  StopEndsRuntime
