\* Under fairness: one fault anywhere, a janitor pass in the middle.
SPECIFICATION FairSpec
CONSTANTS
  Modules <- Pair
  Deps <- PairDeps
  InCluster = {}
  Requests = {"stack"}
  MaxTasks = 5
  MaxRequests = 1
  MaxFaults = 1
  MaxCancels = 0
  MaxSweeps = 1
INVARIANTS
  DestroyInv
PROPERTIES
  ImplementsTeardown
  StackSettles
CHECK_DEADLOCK FALSE
