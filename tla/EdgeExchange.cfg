CONSTANTS
  e1 = e1
  e2 = e2
  e3 = e3
  Edge = {e1, e2, e3}
  EdgeOrder <- Order
  SensorOf <- Owner
  Transports = {"passive", "real"}
  Steps = 1
  Process <- WarmingUp
  FaultTargets <- Faults
  MaxCycles = 3
SPECIFICATION Spec
INVARIANTS
  RoundHoldsLatestReadings
  FaultDecidesRound
  UpToDateMajorityPrevails
PROPERTIES
  ViewsNeverRegress
