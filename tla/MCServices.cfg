SPECIFICATION Spec
CONSTANTS
  main = main
  worker = worker
  term = term
  quit = quit
  abrt = abrt
  Writers <- MCWriters
  user_num = {term}
  error_num = {quit, abrt}
  MsgLens <- MCMsgLens
  MaxSignals = 2
  buf_len = 2
  color_output = TRUE
  SizeMod = 16
  NUL = NUL
  NULL = NULL
INVARIANTS
  LinesSound
  ModulesSound
  HandlersSafe
PROPERTIES
  Ends
CHECK_DEADLOCK FALSE
