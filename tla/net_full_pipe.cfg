SPECIFICATION FairSpec
CONSTANTS
  Conns = {c1}
  MaxConcurrent = 1
  MaxBytes = 2
  LineCap = 2
  PipeCap = 1
  Inputs = {"none", "small"}
  Polite = FALSE
  None = None
PROPERTIES LimitEndsRun
CHECK_DEADLOCK FALSE
