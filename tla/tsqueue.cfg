SPECIFICATION FairSpec
CONSTANTS
  Threads = {t1, t2}
  Nodes = {n0, n1, n2, n3}
  NULL = NULL
  End = End
  Dummy = n0
  MaxPush = 3
  MaxPop = 3
  t1 = t1
  t2 = t2
  n0 = n0
  n1 = n1
  n2 = n2
  n3 = n3
INVARIANTS
  TailInQueue
  NothingLost
  OrderKept
PROPERTIES
  FreeListRespected
  EmptyMeansEmpty
  CallsReturn
CHECK_DEADLOCK FALSE
