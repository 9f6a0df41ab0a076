\* Two modules and one that depends on both; two requests, one fault.
SPECIFICATION Spec
CONSTANTS
  Modules <- Three
  Deps <- Vee
  Start <- VeeStart
  Singles <- Last
  MaxTasks = 4
  MaxFaults = 1
  MaxRequests = 2
INVARIANTS
  TypeOK
  BuildOrder
  SettledStatus
  ChainNotStalled
  DeployInv
CHECK_DEADLOCK FALSE
