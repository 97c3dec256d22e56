SPECIFICATION Spec
CONSTANTS
  n1 = n1
  n2 = n2
  n3 = n3
  Nodes <- Three
  MaxMsgs = 5
  Overlap = TRUE
SYMMETRY Swap
INVARIANTS
  NothingLost
\* all messages have been handled
CHECK_DEADLOCK FALSE
