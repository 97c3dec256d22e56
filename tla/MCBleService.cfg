SPECIFICATION Spec
CONSTANTS
  ConnIds <- TwoIds
  MaxConn = 2
  MaxQueue = 2
  MaxEvts = 2
  Frames <- AnyFrames
  Faults = TRUE
INVARIANTS
  TypeOK
  NoTrafficBeforeQueue
  KeysOfThisConnection

  
\* the task deletes itself when the service has ended
CHECK_DEADLOCK FALSE
