SPECIFICATION FairSpec
CONSTANTS
  phone = phone
  laptop = laptop
  rent = rent
  sweep = sweep
  Device = {phone, laptop}
  Plan = {rent}
  Sweeper = {sweep}
  Regularity <- MonthlyPlan
  Calendar <- Days
  FirstDay <- FirstDue
  DueDates <- LastOfJanuary
  MaxEdits = 3
  MaxAborts = 1
INVARIANTS DueOnSeries NoneMissed PaidTwiceIsTold CleanSameDue
PROPERTIES DueNeverGoesBack AutoExecuted
CHECK_DEADLOCK FALSE
