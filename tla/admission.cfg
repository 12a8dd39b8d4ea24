SPECIFICATION Spec
CONSTANTS
  Copies = {c1, c2}
  Policies <- Written
  Canonical <- Lower
  FaultSets <- SomeFaults
  MaxEdits = 1
  MaxRecords = 3
  MaxCrashes = 1
  None = None
  Partial = Partial
INVARIANTS TypeOK AdmittedAsDeclared AdmittedAsCharged
PROPERTY MigrationStandsAlone
SYMMETRY Interchangeable
CHECK_DEADLOCK FALSE
