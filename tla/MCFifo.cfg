SPECIFICATION Spec
CONSTANTS
  Byte <- MCByte
  NUL = 0
  SizeTMod = 16
  U32Mod = 8
  ReqSizes = {0, 2, 3}
  Data <- MCData
  Lens = {0, 1, 2, 9, 15}
  Scratch = 2
INVARIANTS
  RingSound
  ScratchSafe
  UseCntExact
PROPERTY
  QueueSpec
CHECK_DEADLOCK FALSE
