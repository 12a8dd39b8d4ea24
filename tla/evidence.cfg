SPECIFICATION EvidenceSpec
CONSTANTS
  Body <- Bodies
  Torn = Torn
  Junk = Junk
  Asked <- Requested
  Foreign <- Strange
  MaxLines = 3
  MaxEdits = 1
  MaxReplacements = 2
  None = None
INVARIANTS LegalWritesVerify VerdictCoversPrefix HeldHeadBindsHistory GreenIsGrounded
PROPERTY BrokenStaysBroken
CHECK_DEADLOCK FALSE
