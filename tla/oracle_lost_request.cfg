SPECIFICATION FairSpec
CONSTANTS
  Requests = {r1, r2}
  FromBlock = None
  Backfill = 1
  MaxHead = 3
  MaxFaults = 0
  MaxCharges = 2
  Poisonous = {}
  Endless = {}
  None = None
PROPERTY EveryRequestIsAnswered
