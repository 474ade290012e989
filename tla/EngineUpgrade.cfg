SPECIFICATION Spec
CONSTANTS
  None = None
  Projects = {"p1", "p2"}
  Threads = {"t1", "t2"}
  Roots = {"r1", "r2"}
  Plans = {1}
  Times = {1, 2}
  MaxPlans = 2
  Providers = {"claude"}
  ModelNames = {"m1"}
  Commands <- SandboxCommands
  Faults = {"transaction"}
  PageLimit = 1
  LateProjectors = {"sandbox"}
  MaxDispatches = 4
  MaxQueued = 3
INVARIANT RepublishedOnlyIfBehind
CHECK_DEADLOCK FALSE
