SPECIFICATION Spec
CONSTANTS
  ConnIds <- OneId
  MaxConn = 2
  MaxQueue = 2
  MaxEvts = 2
  Frames <- KeyFrames
  Faults = FALSE
PROPERTIES
  NoAdvertisingAfterToken
\* the task deletes itself when the service has ended
CHECK_DEADLOCK FALSE
