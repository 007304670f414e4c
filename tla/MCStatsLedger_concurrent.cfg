SPECIFICATION Spec
CONSTANTS
  h1 = h1
  h2 = h2
  p1 = p1
  p2 = p2
  b1 = b1
  b2 = b2
  NoHand = NoHand
  NoBuild = NoBuild
  Torn = Torn
  Results = {1, 2, 3}
  Hands = {h1, h2}
  Players = {p1, p2}
  Builders = {}
  HandOf <- ResentHand
  Lineup <- ResentLineup
  CellOf <- ResentCell
  Chimeras = {1}
  LegacyLake = {}
  ChunkSize = 2
  MaxGeneration = 2
  MaxRevision = 4
  Operations = {"download"}
PROPERTY
  LiveHandsSurviveActivation
CHECK_DEADLOCK FALSE
