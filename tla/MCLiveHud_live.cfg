SPECIFICATION Spec
CONSTANTS
  N = 3
  Table <- Tables
  Tabs <- TwoTabs
  MaxSessions = 2
  MaxDeals = 2
  SittingOut <- LastSeat
  MaxDetails = 1
  Faults <- Anything
  Alone <- Solitary
  MaxFaults = 2
INVARIANTS
  LineupIsOfThisSession
  QuietHudIsCurrent
  PanelHoldsWhatWasAnnounced
CHECK_DEADLOCK FALSE
