SPECIFICATION FairSpec
CONSTANTS
  CatchStr <- MCCatchStr
  Cmds <- MCCmdsOnce
  Unsolicited <- MCUnsolicited
  MaxUnsolicited = 0
  MaxAhead = 10
  FACTOR_LEN = 6
  FifoLen = 8
  at_cmd_num = 2
  DigitsMax = 3
  SIGNAL_MIN = 5
  Follow = FALSE
INVARIANTS
  SentBeforeTimeout
CHECK_DEADLOCK FALSE
