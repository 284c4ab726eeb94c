SPECIFICATION SyncedSpec
CONSTANTS
  Category = {c1}
  Transaction = {t1}
  Name = {x, y}
  x = x
  NoCategory = NoCategory
  NoData = NoData
  Device = {d1, d2}
  MaxOps = 2
  MaxFailures = 1
  MaxEdits = 2
  MaxVersion = 9
  MaxSeq = 99
  PageSize = 2
  UserData <- Plain
  OpId <- MCOpId
SYMMETRY DevicesAlike
INVARIANT CascadeCovered
CHECK_DEADLOCK FALSE
