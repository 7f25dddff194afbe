SPECIFICATION FairSpec
CONSTANTS
  VM = {v1, v2}
  SkipDelete = {}
  Async = TRUE
  MaxConcurrentReconciles = 1
  MaxDeployThreads = 1
  Legacy = {}
  Refused = {}
  Pausable = {}
  Forsaken = {v1}
  MaxFaults = 1
  MaxCrashes = 0
CHECK_DEADLOCK FALSE
PROPERTIES CreateFinishes DeleteFinishes CreateSucceeds
