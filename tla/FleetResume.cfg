\* A manual gate that an operator resumes; no faults, no changes.
SPECIFICATION FairSpec
CONSTANTS
  Runs = {1}
  Members <- Buckets3
  Buckets <- Buckets3
  Placements <- TwoPlacements
  Gates = {"manual"}
  NewBucket = 3
  MaxExecs = 3
  MaxFaults = 0
  MaxChanges = 0
PROPERTIES
  ResumeContinues
CHECK_DEADLOCK FALSE
