SPECIFICATION FairSpec
CONSTANTS
  CatchStr <- MCCatchStr
  Cmds <- MCCmds
  Unsolicited <- MCUnsolicited
  MaxUnsolicited = 1
  MaxAhead = 10
  FACTOR_LEN = 6
  FifoLen = 8
  at_cmd_num = 2
  DigitsMax = 3
  SIGNAL_MIN = 5
  Follow = FALSE
INVARIANTS
  ContextSound
  OwnAnswer
  FramesWhole
  SendsBounded
PROPERTIES
  Served
  NoneSentAnew
CHECK_DEADLOCK FALSE
