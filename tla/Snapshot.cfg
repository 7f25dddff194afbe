SPECIFICATION FairSpec
CONSTANTS
  Snap = {1, 2}
  Deletable = {1}
  Targets = {1}
  MaxReverts = 1
  MaxFaults = 1
CHECK_DEADLOCK FALSE
INVARIANTS NoDuplicate NoLeftover
PROPERTIES InOrder RolledBackOnce SnapshotsSettle
