SPECIFICATION Spec
CONSTANTS
  VM = {v1, v2}
  SkipDelete = {v2}
  Async = FALSE
  MaxConcurrentReconciles = 2
  MaxDeployThreads = 1
  Legacy = {v2}
  Refused = {v1}
  Pausable = {v1}
  Forsaken = {v1, v2}
  MaxFaults = 1
  MaxCrashes = 0
CHECK_DEADLOCK FALSE
INVARIANT NoOrphan
