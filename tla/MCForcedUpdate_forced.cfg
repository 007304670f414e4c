SPECIFICATION FairUpdateSpec
CONSTANTS
  c1 = c1
  c2 = c2
  c3 = c3
  Checks = {c1, c2}
  MaxQueue = 2
  MaxWrites = 1
  MaxVersion = 2
PROPERTIES
  ReloadOvertakesNothing
  ReloadOutsideGame
  SafeMomentNotMissed
