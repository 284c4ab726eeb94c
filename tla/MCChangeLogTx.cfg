SPECIFICATION FairSpec
CONSTANTS
  h1 = h1
  h2 = h2
  r1 = r1
  Household <- MCHousehold
  Reader <- MCReader
  HouseholdOf <- MCHouseholdOf
  Conn = {t1, t2}
  Id = {a, b}
  PageSize = 2
  MaxSeq = 3
INVARIANTS NoSkip VersionsFollowSeq StateNotOlder
PROPERTIES CursorMonotone CommittedIsDelivered
