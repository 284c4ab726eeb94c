SPECIFICATION EitherSpec
CONSTANTS
  Category = {c1}
  Transaction = {t1, t2}
  Name = {x, y}
  x = x
  NoCategory = NoCategory
  NoData = NoData
  Device = {d1, d2}
  MaxOps = 2
  MaxFailures = 2
  MaxEdits = 3
  MaxVersion = 9
  MaxSeq = 99
  PageSize = 2
  UserData <- Plain
  OpId <- MCOpId
SYMMETRY Symmetric
INVARIANTS TypeOK DirtyIffPending CleanAgrees UnbornUnknown CaughtUpAgrees
PROPERTIES NoEditLost
CHECK_DEADLOCK FALSE
