CONSTANTS
  lunch = lunch
  taxi = taxi
  food = food
  plain = plain
  one = one
  Category = {food}
  Transaction = {lunch, taxi, cafe}
  Name = {plain}
  NoCategory = NoCategory
  NoData = NoData
  OpId = {one}
  MaxVersion = 3
  MaxSeq = 7
  Post = {r1, r2, r3}
  Patch = {p1, p2}
  Key = {one}
  NoId = NoId
  Body <- MCBody
  Change <- MCChange
  Stale = 0
  Ttl = 1
  MaxTime = 2
SPECIFICATION Spec
INVARIANTS RetryWaitsOut ReplayIsTrue OrphanIsLate
PROPERTIES ReplacesWhatItChecked
SYMMETRY Symmetry
CONSTRAINT InPlay
CHECK_DEADLOCK FALSE
