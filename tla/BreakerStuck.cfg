\* A process without a scheduler, one thread.
SPECIFICATION FairSpec
CONSTANTS
  t1 = t1
  Threads = {t1}
  FailureThreshold = 2
  SleepWindow = 1
  Probed = FALSE
  MaxFaults = 2
PROPERTIES
  BreakerRecovers
