SPECIFICATION AuthFairSpec
CONSTANTS
  a = a
  b = b
  Nobody = Nobody
  Logins <- ThreeLogins
  UserOf <- FirstAndLastOfOneAccount
  Callers = {4}
  Minted <- OneMinted
  MaxSignOuts = 1
  MaxFaults = 1
  MaxStops = 1
CHECK_DEADLOCK FALSE
INVARIANTS
  StorageFollowsTheAccount
  TokensFollowTheSession
PROPERTIES
  KeepsTheSession
  SessionSettles
