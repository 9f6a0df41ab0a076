\* Two tasks of different modules on one workspace, one fault and one cancel.
SPECIFICATION FairSpec
CONSTANTS
  a1 = a1
  b1 = b1
  A = A
  B = B
  Tasks = {a1, b1}
  Modules = {A, B}
  ModuleOf <- Siblings
  Workers = {w1}
  NoTask = NoTask
  MaxBoxes = 2
  MaxFaults = 1
  MaxCancels = 1
INVARIANTS
  TypeOK
  OneBoxPerTask
  ContainerInv
PROPERTIES
  NoLiveStepRemoved
  KillBeforeRelease
  OrphanReaped
CHECK_DEADLOCK FALSE
