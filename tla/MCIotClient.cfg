SPECIFICATION LiveSpec
CONSTANTS
  MaxIssued = 2
  MaxCalls = 2
  MaxFaults = 1
  MaxCuts = 2
INVARIANTS TypeOK StorageAgrees OneSession DevidKept
PROPERTY OrderIsObeyed
