SPECIFICATION FairSpec
CONSTANTS
  Threads = {t1, t2, t3}
  m_bManualReset = FALSE
  Limited = {t1}
  TimeoutTakesSignal = FALSE
  t1 = t1
  t2 = t2
  t3 = t3
PROPERTIES
  EventImplemented
  SetReachesWaiters
