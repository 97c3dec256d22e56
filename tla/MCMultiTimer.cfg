SPECIFICATION Spec
CONSTANTS
  Timers <- Three
  Delay <- Delays
  Period <- Periods
  Ticks = 32
  Lag = 2
  MaxLate = 7
INVARIANTS
  TypeOK
  ListIsProper
  SortedUntilWrap
  OnTimeUntilWrap
PROPERTIES
  NeverEarly
\* a pass can run off the list
CHECK_DEADLOCK FALSE
