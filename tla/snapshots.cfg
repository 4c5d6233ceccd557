SPECIFICATION FairSpec
CONSTANTS
  Edicts = {e1}
  Props = {p1}
  Values = {0, 1}
  ClassBaseline = 0
  MaxFrames = 3
  InitialSlots = {e1}
  ImmediateReuse = FALSE
  MaxTick = 4
  MaxSerial = 2
  MaxRequests = 1
  MaxQueue = 1
  e1 = e1
  p1 = p1
INVARIANTS
  ShowsServerState
  ClientCanRead
  NeverDisconnected
  BaselinesAgree
  FullOnlyWhenLate
  UnmarkedIsUnchanged
PROPERTIES
  FullUpdateCompletes
