SPECIFICATION FairSpec
CONSTANTS
  len = 5
  Key = {1, 2, 3}
  MaxFails = 2
INVARIANTS
  ArraySound
  Sorted
  BubbleStable
PROPERTY
  SortReturns
CHECK_DEADLOCK FALSE
