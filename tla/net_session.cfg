SPECIFICATION FairSpec
CONSTANTS
  Conns = {c1, c2, c3}
  MaxConcurrent = 2
  MaxBytes = 2
  LineCap = 1
  PipeCap = 1
  Inputs = {"none", "small"}
  Polite = TRUE
  None = None
INVARIANTS TypeOK ConnLimit OvershootBounded ChargedWithinCap ReceiptExact
PROPERTIES SessionEnds
CHECK_DEADLOCK FALSE
