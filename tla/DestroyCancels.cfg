\* Two requests of any kind, one of them cancelled at any point.
SPECIFICATION Spec
CONSTANTS
  Modules <- Pair
  Deps <- PairDeps
  InCluster = {}
  Requests = {"stack", "project", "module"}
  MaxTasks = 4
  MaxRequests = 2
  MaxFaults = 0
  MaxCancels = 1
  MaxSweeps = 0
INVARIANTS
  InfraAccounted
  TeardownOrder
CHECK_DEADLOCK FALSE
