SPECIFICATION FairSpec
CONSTANTS
  Requests = {r1, r2}
  FromBlock = None
  Backfill = 2
  MaxHead = 3
  MaxFaults = 2
  MaxCharges = 2
  Poisonous = {r1}
  Endless = {r2}
  None = None
INVARIANTS TypeOK RememberedIsFulfilled DuplicatesNeedFaults
PROPERTIES SettledStaysSettled EveryFetchedIsAnswered KeepsPolling
