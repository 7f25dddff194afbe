SPECIFICATION Spec
CHECK_DEADLOCK FALSE
SYMMETRY Symmetry
CONSTANTS
  vm = vm
  volumes = volumes
  probe = probe
  publisher = publisher
  ready = ready
  other = other
  s1 = s1
  s2 = s2
  Writers = {vm, volumes, probe, publisher}
  Types = {ready, other}
  States = {s1, s2}
  Entries = {0, 1}
  Locking = {vm, volumes}
  Owned <- OwnedByProbe
  Whole = {publisher}
  Steps = 2
  MaxCalls = 2
  MaxFaults = 1
INVARIANTS ConflictHasCause
PROPERTIES ImplementsRegister ConditionsArrive
