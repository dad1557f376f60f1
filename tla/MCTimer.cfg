SPECIFICATION FairSpec
CONSTANTS
  Addrs = {a1, a2}
  slot_num = 3
  Expires = {1, 3, 4, 6}
  Racing = FALSE
INVARIANT WheelSound
PROPERTIES
  FiresOnTime
  EveryTimerFires
  DestroyReturns
CHECK_DEADLOCK FALSE
