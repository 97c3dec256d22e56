SPECIFICATION Spec
CONSTANTS
  n1 = n1
  n2 = n2
  n3 = n3
  Nodes <- Three
  MaxMsgs = 5
  Overlap = FALSE
INVARIANTS
  TypeOK
  NodesAccountedFor
  NothingLost
PROPERTIES
  ImplementsFifo
\* all messages have been handled
CHECK_DEADLOCK FALSE
