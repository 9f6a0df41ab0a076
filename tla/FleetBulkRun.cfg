\* Three members in two or three waves, one fault, one change of the fleet.
SPECIFICATION FairSpec
CONSTANTS
  Runs = {1}
  Members <- Buckets3
  Buckets <- Buckets3
  Placements <- TwoPlacements
  Gates = {"manual", "health_stable", "timed_wait"}
  NewBucket = 3
  MaxExecs = 3
  MaxFaults = 1
  MaxChanges = 1
INVARIANTS
  TypeOK
  WavesInOrder
  OneExecutor
  CompletedCovers
  FleetInv
PROPERTIES
  CancelStops
  RunSettles
CHECK_DEADLOCK FALSE
