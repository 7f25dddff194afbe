SPECIFICATION Spec
CONSTANTS
  VM = {v1, v2}
  SkipDelete = {}
  Async = TRUE
  MaxConcurrentReconciles = 2
  MaxDeployThreads = 1
  Legacy = {v1, v2}
  Refused = {}
  Pausable = {}
  Forsaken = {v1, v2}
  MaxFaults = 1
  MaxCrashes = 1
SYMMETRY Symmetry
CHECK_DEADLOCK FALSE
INVARIANTS TypeOK SlotsAccounted RunningBounded NoDoubleCreate DeleteExcludesCreate NoOrphan FinalizerFirst
