CONSTANTS
  e1 = e1
  e2 = e2
  e3 = e3
  Edge = {e1, e2, e3}
  EdgeOrder <- Order
  SensorOf <- Owner
  Transports = {"real"}
  Steps = 1
  Process <- WarmingUp
  FaultTargets <- NoFaults
  MaxCycles = 2
SPECIFICATION ConnectedSpec
PROPERTIES
  SubscribedViewsConverge
CHECK_DEADLOCK FALSE
