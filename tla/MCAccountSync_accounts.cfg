SPECIFICATION AccountFairSpec
CONSTANTS
  a = a
  b = b
  Nobody = Nobody
  Logins <- TwoLogins
  UserOf <- OfTwoAccounts
  Calls = {1, 2}
  MaxAttempts = 3
  MaxEpoch = 3
  MaxEvents = 1
CHECK_DEADLOCK FALSE
INVARIANTS
  ShownIsOfTheLiveAccount
  StoredTimesAreTrue
PROPERTIES
  TimeIsNotTaken
  FirstSyncComes
