SPECIFICATION FairSpec
CONSTANTS
  Threads = {t1, t2, t3}
  MaxCalls = 3
  t1 = t1
  t2 = t2
  t3 = t3
INVARIANTS
  TypeOK
  Exclusion
  OnePermission
PROPERTIES
  EveryoneServed
CHECK_DEADLOCK FALSE
