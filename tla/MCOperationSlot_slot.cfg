SPECIFICATION MCSpec
CONSTANTS
  f1 = f1
  f2 = f2
  t1 = t1
  t2 = t2
  Fences = {f1, f2}
  Triggers = {t1, t2}
  Jobs = {"export", "rebuild", "import", "delete"}
  MaxRequests = 2
  MaxFailures = 2
  MaxRestarts = 1
PROPERTIES
  OneHolderAtATime
  HoldersAndWaitersSettle
  FailedHandsRecovered
CHECK_DEADLOCK FALSE
