SPECIFICATION MCSpec
CONSTANTS
  User = {u1, u2}
  Household = {h1, h2, h3}
  Invitation = {i1}
  Session = {s1, s2}
  h1 = h1
  u1 = u1
  u2 = u2
  NoUser = NoUser
  NoHousehold = NoHousehold
  NoInvitation = NoInvitation
  MaxSends = 1
SYMMETRY Symmetric
INVARIANTS OneOwner AdmitsOnce
PROPERTIES RevokedStaysOut OwnerNotDemoted RehomedAtOnce
CHECK_DEADLOCK FALSE
