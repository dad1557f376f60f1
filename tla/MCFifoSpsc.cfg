SPECIFICATION FairSpec
CONSTANTS
  Byte <- MCByte
  NUL = 0
  SizeTMod = 4
  U32Mod = 4
  Size = 2
  Reqs = {1, 3}
  Total = 6
  Beyond = 0
INVARIANTS
  CellsSound
  InOrder
PROPERTY
  AllDelivered
