SPECIFICATION SettledSpec
CONSTANTS
  Category = {food}
  Transaction = {lunch}
  Name = {plain, fancy, note}
  note = note
  NoCategory = NoCategory
  NoData = NoData
  User = {ann, bob}
  Household = {h1, h2}
  NoUser = NoUser
  NoHousehold = NoHousehold
  Device = {desk}
  Mobile = {desk}
  MaxOps = 3
  MaxEdits = 2
  MaxOthers = 1
  MaxMoves = 2
  MaxSessions = 1
  MaxFaults = 1
  MaxCount = 4
  MaxVersion = 9
  MaxSeq = 99
  UserData <- Plain
  OpId <- MCOpId
INVARIANTS TypeOK NothingStranded SettledAgrees
PROPERTIES LeavesForGood
CONSTRAINT InPlay
SYMMETRY Symmetry
CHECK_DEADLOCK FALSE
