CONSTANTS
  Edge = {e1, e2, e3}
  Node = {n1, n2, n3}
  Tx <- ConflictingTxs
  MaxHeight = 2
  MaxBlockTxs = 2
SPECIFICATION Spec
SYMMETRY Validators
INVARIANTS
  AppHashAgreement
  CommitMatchesPrecommit
  LatestAcceptedTransactionWins
  RetainedHeightIsDurable
  MemoryIsDurable
PROPERTIES
  ImplementsRegistry
