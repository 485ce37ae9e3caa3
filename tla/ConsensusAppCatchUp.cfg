CONSTANTS
  Edge = {e1, e2, e3}
  Node = {n1, n2, n3}
  Tx <- AdmittedTxs
  MaxHeight = 2
  MaxBlockTxs = 1
SPECIFICATION KeepSpec
PROPERTIES
  RunningNodeCatchesUp
CHECK_DEADLOCK FALSE
