SPECIFICATION FairSpec
CONSTANTS
  None = None
  Projects = {"p1", "p2"}
  Threads = {"t1", "t2"}
  Roots = {"r1", "r2"}
  Plans = {1}
  Times = {1, 2}
  MaxPlans = 2
  Providers = {"claude"}
  ModelNames = {"m1"}
  Commands <- LifecycleCommands
  Faults = {"receiptRead", "transaction", "commitAck", "reconcileRead", "rejectionWrite", "powerLoss"}
  PageLimit = 3
  LateProjectors = {}
  MaxDispatches = 3
  MaxQueued = 3
INVARIANT ExactlyOnce
INVARIANT PublishedIncreasing
PROPERTY EveryDispatchEnds
CHECK_DEADLOCK FALSE
