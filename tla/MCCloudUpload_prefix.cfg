SPECIFICATION FairSpec
CONSTANTS
  a = a
  b = b
  None = None
  Clouds <- EmptyOrHoled
  Accounts = {a, b}
  Rows <- ThreeRows
  App <- ThreeRows
  At <- PairTied
  ParsesFrom <- SecondParsesLater
  Chunk = 2
  Batch = 1
  LastRelease = 1
  MaxSwitches = 2
  MaxFailures = 1
INVARIANTS
  OwnPassStrandsNothing
PROPERTIES
  BookkeepingStrandsNothing
  EventuallyBackedUp
