SPECIFICATION Spec
CONSTANTS
  Nodes = {n1}
  Procs = {p1, p2}
  Agents = {a1}
  Notes = {}
  Outputs = {o1}
  PlainOps = {"grant"}
  KnownOps <- Registered
  Older = {}
  NodeKey <- NoKeys
  Trusted <- PolicyL0
  Concurrent = {"run", "plain", "export"}
  MaxSession = 2
  MaxLog = 3
  MaxNodes = 4
  MaxSnaps = 1
  MaxCrashes = 0
  None = None
  NoFile = NoFile
  EmptyFile = EmptyFile
  PartialFile = PartialFile
  Torn = Torn
  Junk = Junk
INVARIANTS ChainIntact SnapshotSelfContained
