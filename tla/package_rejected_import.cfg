SPECIFICATION Spec
CONSTANTS
  Nodes = {n1, n2}
  Procs = {p1}
  Agents = {a1}
  Notes = {}
  Outputs = {o1}
  PlainOps = {"grant"}
  KnownOps <- Registered
  Older = {n2}
  NodeKey <- NoKeys
  Trusted <- PolicyL0
  Concurrent = {}
  MaxSession = 2
  MaxLog = 3
  MaxNodes = 4
  MaxSnaps = 2
  MaxCrashes = 0
  None = None
  NoFile = NoFile
  EmptyFile = EmptyFile
  PartialFile = PartialFile
  Torn = Torn
  Junk = Junk
INVARIANT RejectedImportInstallsNothing
