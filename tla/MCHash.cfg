SPECIFICATION Spec
CONSTANTS
  Nodes = {a1, a2, a3}
  Heads = {0, 1}
  NULL = NULL
  POISON = POISON
  t1 = t1
  t2 = t2
  Threads = {t1, t2}
  Keys <- MCKeys
  Vals = {v1, v2}
  bucket_max_len = 2
  Int32Mod = 1024
  Multiplier = 621
INVARIANTS
  ChainSound
  OnePerAdder
  ListsAsSequences
PROPERTIES
  MapSpec
SYMMETRY MCSymmetry
CHECK_DEADLOCK FALSE
