\* One cancellation of a stack destroy.
SPECIFICATION Spec
CONSTANTS
  Modules <- Pair
  Deps <- PairDeps
  InCluster = {}
  Requests = {"stack"}
  MaxTasks = 3
  MaxRequests = 1
  MaxFaults = 0
  MaxCancels = 1
  MaxSweeps = 0
INVARIANTS
  NoInfraTruthful
CHECK_DEADLOCK FALSE
