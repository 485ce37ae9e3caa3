CONSTANTS
  Process = {p1, p2}
  Cell = {1, 2}
  Batch <- OnePerBatch
  Core = {0}
  None = None
  Jobs <- Commands
  MaxFaults = 1
  MaxEdits = 0
SPECIFICATION Spec
SYMMETRY Invocations
INVARIANTS
  PublishedPairsAreWhole
PROPERTIES
  ImplementsPublication
