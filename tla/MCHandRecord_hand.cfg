SPECIFICATION Spec
CONSTANTS
  Deals <- FourDeals
  Quirks = {"none", "timeout", "open", "hidden", "rebuy", "moved", "clock"}
  MaxAggressive = 2
  Showdowns <- ThreeShowdowns
  BlindShoves = FALSE
  MaxBurst = 3
INVARIANTS
  LiveHandIsTrue
  AccountingIsExactOrUnknown
  RebuildKeepsTheHand
  StatisticsAgree
  WhatIsReadIsTrue
  OddsAreTrue
CHECK_DEADLOCK FALSE
