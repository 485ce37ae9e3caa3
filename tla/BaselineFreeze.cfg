CONSTANTS
  Process = {p1, p2}
  File = {1, 2}
  Item = {"code", "git"}
  Repository = "git"
  Inventory <- Order
  Directories = {"code"}
  Members <- FilesOf
  Content = {0, 1}
  Absent = Absent
  Unreadable = Unreadable
  Initial <- Start
  MaxEdits = 2
  MaxFaults = 1
SPECIFICATION FairSpec
INVARIANTS
  BaselineIsSnapshot

  
