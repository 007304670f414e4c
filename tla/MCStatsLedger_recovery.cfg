SPECIFICATION Spec
CONSTANTS
  h1 = h1
  h2 = h2
  p1 = p1
  p2 = p2
  b1 = b1
  b2 = b2
  NoHand = NoHand
  NoBuild = NoBuild
  Torn = Torn
  Results = {1, 2}
  Hands = {h1, h2}
  Players = {p1}
  Builders = {b1}
  HandOf <- TwoHands
  Lineup <- EveryoneSeated
  CellOf <- OneCell
  Chimeras = {1}
  LegacyLake = {1}
  ChunkSize = 1
  MaxGeneration = 1
  MaxRevision = 2
  Operations = {"recovery", "download", "import", "full"}
INVARIANTS
  NoLostResult
  PendingFenceHasOwner
  LedgerMatchesCanonical
PROPERTY
  LiveHandsSurviveActivation
  NothingPublishedWhileHybrid
CHECK_DEADLOCK FALSE
