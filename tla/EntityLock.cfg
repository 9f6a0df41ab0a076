\* Two deliveries of one task, under fairness, with the timing of the code: one
\* tick is half a heartbeat interval, the window holds six intervals.
SPECIFICATION FairSpec
CONSTANTS
  e1 = e1
  e2 = e2
  t1 = t1
  Execs <- TwoExecs
  TaskIds <- OneTask
  TaskOf <- TaskOfExec
  NULL = NULL
  RECLAIM_AFTER = 12
  HEARTBEAT_INTERVAL = 2
  WAIT_TIMEOUT = 24
INVARIANTS
  TypeOK
  OverlapOnlyAfterLapse
  LockInv
PROPERTIES
  OwnershipKept
  NewestWriterWins
  ImplementsFencedLease
  ZombieCleared
CHECK_DEADLOCK FALSE
