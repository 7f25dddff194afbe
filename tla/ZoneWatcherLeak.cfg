SPECIFICATION Spec
CONSTANTS
  z1 = z1
  z2 = z2
  f1 = f1
  Zone = {z1, z2}
  Folder = {f1}
  FolderOf <- Shared
  MaxFaults = 0
  MaxWatchers = 2
  MaxCloses = 0
CHECK_DEADLOCK FALSE
INVARIANTS GoneIsUnwatched
