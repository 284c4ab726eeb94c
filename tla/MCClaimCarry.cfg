SPECIFICATION SettledSpec
CONSTANTS
  Category = {food}
  Transaction = {lunch}
  Name = {plain, fancy, note}
  note = note
  NoCategory = NoCategory
  NoData = NoData
  User = {ann, bob}
  Household = {h1, h2}
  NoUser = NoUser
  NoHousehold = NoHousehold
  Device = {desk}
  Mobile = {desk}
  MaxOps = 4
  MaxEdits = 2
  MaxOthers = 1
  MaxMoves = 2
  MaxSessions = 1
  MaxFaults = 0
  MaxCount = 4
  MaxVersion = 9
  MaxSeq = 99
  UserData <- Plain
  OpId <- MCOpId
PROPERTY AdoptsOrphans
SYMMETRY Symmetry
CHECK_DEADLOCK FALSE
