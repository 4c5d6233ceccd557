SPECIFICATION FairSpec
CONSTANTS
  Main = Main
  Shared = Shared
  None = None
  Threads = {0, 1, Main}
  Queues = {0, 1, Shared}
  Jobs = {j1, j2, j3}
  j1 = j1
  j2 = j2
  j3 = j3
  Queued = {j1, j2}
  Serial = {j1, j2}
  NumWorkers = 2
  JP_NUM_PRIORITIES = 2
  GivenPriorities <- SerialPriorities
  Program <- Program123
  MaxCalls = 2
  MaxJobCalls = 1
INVARIANTS
  ExpectedItem
  RunsOnce
  RefsAccounted
  SuspendedMeansQuiet
  AbortAllLeavesNothing
  SerialOrder
PROPERTIES
  JobsFinish
  CallsReturn
CHECK_DEADLOCK FALSE
