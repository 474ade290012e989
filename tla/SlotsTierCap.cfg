SPECIFICATION Spec
CONSTANTS
  None = None
  SlotCap = 1
  WarmCacheSize = 1
  Threads = {t1, t2}
  MaxCalls = 2
  Admissions <- Composed
  SignalFaults = {}
  t1 = t1
  t2 = t2
PROPERTY SwitchEvicts
CHECK_DEADLOCK FALSE
