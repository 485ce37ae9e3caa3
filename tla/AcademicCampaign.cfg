CONSTANTS
  Process = {p1}
  Cell = {1, 2, 3}
  Batch <- OnePerBatch
  Core = {0, 1}
  None = None
  Jobs <- Commands
  MaxFaults = 1
  MaxEdits = 2
SPECIFICATION FairSpec
INVARIANTS
  LaterBatchesFollowEarlier
  
PROPERTIES
  EndedRunsAccountForCells
  CampaignCompletes
