SPECIFICATION Spec
CONSTANTS
  MAX_SPLITPACKET_SPLITS = 3
  SPLIT_RATE = 1
  Threaded = TRUE
  Counts = {2, 3}
  SplitSizes = {576, 1200}
  MaxDatagrams = 2
  MaxResets = 1
INVARIANTS
  WholeUnlessReused
CHECK_DEADLOCK FALSE
