SPECIFICATION Spec
CONSTANTS
  FrameLens <- Lens
  PhonePack = 170
  RspSizes <- Sizes
  Mtus <- SomeMtus
  MaxFrames = 3
  MaxChan = 2
  MaxStray = 0
  Faults = FALSE
INVARIANTS
  FrameIntact
CHECK_DEADLOCK FALSE
