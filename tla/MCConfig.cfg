SPECIFICATION Spec
CONSTANTS
  Byte = {0}
  NUL = 0
  SizeTMod = 512
  U32Mod = 128
  Bits = 9
  Octet = {0, 7, 10, 99, 100, 255}
  Records <- MCRecords
  RecLen = 2
  FieldNames <- MCFieldNames
  MaxFds = 2
  MaxBlocks = 3
  NULL = NULL
INVARIANTS ConversionsSound EndToEnd FailsForCause
