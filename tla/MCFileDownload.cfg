SPECIFICATION Spec
CONSTANTS
  Sizes <- MCSizes
  RangeLength = 2
  MaxRetryTimes = 1
  MaxUpgrades = 2
  MaxInfo = 2
  MaxUpsets = 1
  Unsent = {"range", "size"}
  MaxPending = 2
  MaxLate = 1
  MaxEmpty = 1
  MaxExtra = 1
  MaxSizeAsks = 4
INVARIANTS TypeOK FileInPlace OneEnding CheckGoesOn DownloadGoesOn
CHECK_DEADLOCK FALSE
