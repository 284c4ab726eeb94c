SPECIFICATION LiveFairSpec
CONSTANTS
  Category = {c1, c2}
  Transaction = {t1}
  Name = {x, y}
  x = x
  NoCategory = NoCategory
  NoData = NoData
  Device = {d1, d2}
  MaxOps = 4
  MaxFailures = 1
  MaxEdits = 2
  MaxVersion = 9
  MaxSeq = 99
  PageSize = 2
  UserData <- Plain
  OpId <- MCOpId
PROPERTY Converges
CHECK_DEADLOCK FALSE
