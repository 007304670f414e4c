SPECIFICATION Spec
CONSTANTS
  old = old
  e1 = e1
  e2 = e2
  f1 = f1
  f2 = f2
  None = None
  Events = {old, e1, e2, f1, f2}
  GroupOf <- OneGroup
  Legacy = {old}
  Foreign = {f1, f2}
  PageSize = 2
  LastGroup = 2
INVARIANTS
  MergesNeverClash
PROPERTIES
  RowKeepsItsKey
  UploadReplacesNothing
  RestoreIsComplete
