\* Two plans of two steps for one cluster, two tasks, one fault.
SPECIFICATION FairSpec
CONSTANTS
  Upgrades = {1, 2}
  Steps = 2
  HelmStep = 2
  MaxExecs = 2
  MaxFaults = 1
INVARIANTS
  TypeOK
  CompletedDidSteps
  OneInProgress
  UpgradeInv
PROPERTIES
  RollbackRestores
  EndsAreFinal
  UpgradeSettles
CHECK_DEADLOCK FALSE
