SPECIFICATION Spec
CONSTANTS
  Nodes = {n1}
  Procs = {p1}
  Agents = {a1}
  Notes = {x}
  Outputs = {o1, o2}
  PlainOps = {"grant"}
  KnownOps <- Registered
  Older = {}
  NodeKey <- NoKeys
  Trusted <- PolicyL0
  Concurrent = {}
  MaxSession = 2
  MaxLog = 3
  MaxNodes = 2
  MaxSnaps = 1
  MaxCrashes = 2
  None = None
  NoFile = NoFile
  EmptyFile = EmptyFile
  PartialFile = PartialFile
  Torn = Torn
  Junk = Junk
INVARIANTS TypeOK ChainIntact TipNamesLastSession NoSessionUncharged SurplusIsCrashes TipEvidence ChargesInOrder
