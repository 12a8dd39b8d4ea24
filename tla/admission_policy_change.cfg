SPECIFICATION Spec
CONSTANTS
  Copies = {c1}
  Policies <- Written
  Canonical <- Lower
  FaultSets <- SomeFaults
  MaxEdits = 1
  MaxRecords = 3
  MaxCrashes = 0
  None = None
  Partial = Partial
INVARIANT PolicyChangeCaught
CHECK_DEADLOCK FALSE
