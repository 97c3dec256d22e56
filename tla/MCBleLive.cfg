SPECIFICATION FairSpec
CONSTANTS
  ConnIds <- OneId
  MaxConn = 2
  MaxQueue = 2
  MaxEvts = 2
  Frames <- KeyFrames
  Faults = FALSE
INVARIANTS
  RunningFlagAgrees
  TimerHasConnection
PROPERTIES
  AdvertisesAgain
  TokenEndsService
\* the task deletes itself when the service has ended
CHECK_DEADLOCK FALSE
