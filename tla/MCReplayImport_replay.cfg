SPECIFICATION Spec
CONSTANTS
  MaxSessions = 2
  MaxHands = 3
  MaxStimuli = 3
  QueueLimit = 2
  Faults = {"toggle", "disconnect", "late", "stop", "operation", "delete", "retry", "timeout", "lapse", "day", "rawfailure"}
  MaxFaults = 2
  Flags = {"off","public"}
INVARIANTS
  NoRequestInSession
  QueueLosesNothing
PROPERTY
  NothingStoredInSession
  EventuallyFetched
CHECK_DEADLOCK FALSE
