SPECIFICATION Spec
CONSTANTS
  User = {u1, u2}
  Household = {h1, h2}
  Plan = {rent}
  Endpoint = {phone, desk}
  NoUser = NoUser
  Zone <- MCZone
  DayLength = 4
  ReminderHour = 1
  Lookback = 2
  KeepDays = 1
  Days = {1, 2}
  MaxTime = 12
  MaxEdits = 3
  MaxFaults = 2
INVARIANT RepeatedByFailure
PROPERTIES EverySweepReminds FarEastUnreminded
SYMMETRY Symmetry
CHECK_DEADLOCK FALSE
