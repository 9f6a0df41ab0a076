\* An in-cluster leaf, and two requests that overlap.
SPECIFICATION Spec
CONSTANTS
  Modules <- Vee
  Deps <- VeeDeps
  InCluster = {3}
  Requests = {"project", "module"}
  MaxTasks = 4
  MaxRequests = 2
  MaxFaults = 0
  MaxCancels = 0
  MaxSweeps = 0
INVARIANTS
  TypeOK
  InfraAccounted
  TeardownOrder
CHECK_DEADLOCK FALSE
