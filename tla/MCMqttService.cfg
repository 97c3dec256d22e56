SPECIFICATION FairSpec
CONSTANTS
  Reports <- ThreeReports
  Timeout = 1
  MaxTime = 3
  MaxConn = 2
  MaxId = 3
INVARIANTS
  TypeOK
  OneAnswerEach
  OkWasReceived
  OneHandler
PROPERTIES
  ReportIsAnswered
\* the process ends when the list is read through NULL
CHECK_DEADLOCK FALSE
