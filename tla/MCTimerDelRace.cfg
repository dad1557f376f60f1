SPECIFICATION Spec
CONSTANTS
  Addrs = {a1, a2}
  slot_num = 2
  Expires = {1, 2}
  Racing = TRUE
INVARIANT
  TraversalOnLive
CHECK_DEADLOCK FALSE
