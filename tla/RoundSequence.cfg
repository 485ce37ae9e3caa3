CONSTANTS
  Edge = {e1, e2, e3, e4}
  Reading <- Readings
SPECIFICATION Spec
SYMMETRY Edges
INVARIANTS
  ConsensusNearEverySource
  HonestMajorityPrevails
  
PROPERTIES
  ExcludedEdgeHasNoInfluence
