SPECIFICATION FairSpec
CONSTANTS
  Cmds <- MCCmds
  MaxSets = 3
  FifoCap = 2
  CntMod = 8
INVARIANTS
  LedSound
  SteadyShown
  OnlyModesSet
PROPERTIES
  SetsAreApplied
  BlinksUnlessMissed
  DestroyReturns
  ThreadSpec
CHECK_DEADLOCK FALSE
