CONSTANTS
  Depth <- Depths
  Scenario <- Scenarios
  Fit = {1}
  Cap <- One
  Offset <- Slices
  Content <- Recordings
  Corpora <- SomeCorpora
  None = None
  MaxChanges = 2
  MaxInvocations = 3
SPECIFICATION Spec
CHECK_DEADLOCK FALSE
INVARIANTS
  PartitionsShareNothing
  CopiesAgree
  PhasesShareNothing
PROPERTIES
  ReservationRepeatsPilot
  ReservationSatisfiesGate
