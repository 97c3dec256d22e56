SPECIFICATION Spec
CONSTANTS
  FrameLens <- Lens
  PhonePack = 170
  RspSizes <- Sizes
  Mtus <- SomeMtus
  MaxFrames = 3
  MaxChan = 2
  MaxStray = 1
  Faults = TRUE
INVARIANTS
  TypeOK
  FramesInOrder
  SinglePackIntact
  BufferIsThere
  AnswerComplete
\* the phones have sent all they send, or the chip has crashed
CHECK_DEADLOCK FALSE
