SPECIFICATION Spec
CONSTANTS
  Category = {c1, c2}
  Transaction = {t1, t2}
  Name = {x, y}
  NoCategory = NoCategory
  NoData = NoData
  OpId = {o1, o2, o3, o4}
  MaxVersion = 2
  MaxSeq = 9
SYMMETRY Symmetric
INVARIANTS RefsLive NamesUnique LogAgrees OpAppliesOnce
PROPERTIES TombstoneFinal FeedSpec
CHECK_DEADLOCK FALSE
