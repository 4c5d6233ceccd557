SPECIFICATION Spec
CONSTANTS
  Threads = {t1, t2}
  Nodes = {n1, n2, n3}
  NULL = NULL
  Others = {Other}
  Other = Other
  HALF = 4
  MaxNodes = 3
  MaxSince = 3
  t1 = t1
  t2 = t2
  n1 = n1
  n2 = n2
  n3 = n3
SYMMETRY Symmetry
INVARIANTS
  ListIntact
PROPERTIES
  StackImplemented
CHECK_DEADLOCK FALSE
