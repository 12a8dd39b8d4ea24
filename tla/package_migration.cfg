SPECIFICATION Spec
CONSTANTS
  Nodes = {n1, n2}
  Procs = {p1}
  Agents = {a1, a2}
  Notes = {}
  Outputs = {o1}
  PlainOps = {}
  KnownOps <- Registered
  Older = {}
  NodeKey <- NoKeys
  Trusted <- PolicyL0
  Concurrent = {}
  MaxSession = 2
  MaxLog = 3
  MaxNodes = 4
  MaxSnaps = 2
  MaxCrashes = 1
  None = None
  NoFile = NoFile
  EmptyFile = EmptyFile
  PartialFile = PartialFile
  Torn = Torn
  Junk = Junk
INVARIANTS TipInLedger MigratedChargesInOrder SnapshotSelfContained
PROPERTIES ImplementsHistory SessionsMonotone
SYMMETRY Interchangeable
