\* One upgrade whose worker dies once.
SPECIFICATION Spec
CONSTANTS
  Upgrades = {1}
  Steps = 3
  HelmStep = 2
  MaxExecs = 2
  MaxFaults = 1
INVARIANTS
  CompletedDidAll
CHECK_DEADLOCK FALSE
