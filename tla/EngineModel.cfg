SPECIFICATION Spec
CONSTANTS
  None = None
  Projects = {"p1", "p2"}
  Threads = {"t1"}
  Roots = {"r1", "r2"}
  Plans = {1, 2}
  Times = {1, 2}
  MaxPlans = 1
  Providers = {"claude"}
  ModelNames = {"m1"}
  Commands <- ModelCommands
  Faults = {}
  PageLimit = 3
  LateProjectors = {}
  MaxDispatches = 4
  MaxQueued = 1
INVARIANT TypeOK
INVARIANT RecentReadModelIsCurrent
INVARIANT RootsUniqueUnlessMoved
INVARIANT CreatedOnce
INVARIANT DeletedProjectsAreEmpty
CHECK_DEADLOCK FALSE
