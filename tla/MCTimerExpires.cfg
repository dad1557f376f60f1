SPECIFICATION Spec
CONSTANTS
  Addrs = {a1, a2}
  slot_num = 4
  Expires = {1, 2}
  Racing = FALSE
PROPERTY
  FiresAfterExpires
CHECK_DEADLOCK FALSE
