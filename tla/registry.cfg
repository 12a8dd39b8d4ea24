SPECIFICATION Spec
CONSTANTS
  m1 = m1
  m2 = m2
  p1 = p1
  p2 = p2
  Modules = {m1, m2}
  Packages = {p1, p2}
  Cpus = {1, 2, 3}
  CpuMin = 1
  CpuMax = 2
  Written <- SomeRegistries
  Asked <- SomeRequests
  Settings <- SomeSettings
  MaxSession = 2
  MaxOthers = 1
  MaxEdits = 1
  MaxCrashes = 1
  None = None
  Absent = Absent
  Torn = Torn
INVARIANTS TypeOK FilesWhole RefusedUncharged SnapshotCoversRun
PROPERTY ServedAsLoaded
CHECK_DEADLOCK FALSE
