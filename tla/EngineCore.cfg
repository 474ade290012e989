SPECIFICATION DispatchSpec
CONSTANTS
  None = None
  Projects = {"p1", "p2"}
  Threads = {"t1"}
  Roots = {"r1", "r2"}
  Plans = {1}
  Times = {1, 2}
  MaxPlans = 2
  Providers = {"claude"}
  ModelNames = {"m1"}
  Commands <- MCCommands
  Attempts <- MCAttempts
  CreateId <- MCCreateId
  DeleteId <- MCDeleteId
  StartId <- MCStartId
  Thread = "t1"
  Project = "p1"
  Faults = {"receiptRead", "transaction", "commitAck", "rejectionWrite"}
  PageLimit = 3
  LateProjectors = {}
  MaxDispatches = 5
  MaxQueued = 2
INVARIANT ExactlyOnce
INVARIANT BootstrapKeepsStartedThreads
INVARIANT BootstrapLeavesNothing
INVARIANT AcknowledgedIsDurable
INVARIANT ReadModelIsCurrent
INVARIANT PublishedInOrder
INVARIANT PublishedOnce
PROPERTY ReceiptsAreFinal
PROPERTY ImplementsCommandLog
CHECK_DEADLOCK FALSE
