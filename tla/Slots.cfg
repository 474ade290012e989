SPECIFICATION Spec
CONSTANTS
  None = None
  SlotCap = 2
  WarmCacheSize = 1
  Threads = {t1, t2, t3}
  MaxCalls = 4
  Admissions <- AnyAdmission
  SignalFaults = {"ignored", "denied"}
  t1 = t1
  t2 = t2
  t3 = t3
INVARIANT TypeOK
INVARIANT EveryProcessHasItsSlot
INVARIANT CacheIsBound
INVARIANT CleanShutdownLeavesNothing
PROPERTY MostRecentSurvives
PROPERTY EvictAllEmpties
PROPERTY EveryCallEnds
CHECK_DEADLOCK FALSE
