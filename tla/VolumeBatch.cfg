SPECIFICATION FairSpec
CONSTANTS
  v1 = v1
  v2 = v2
  c1 = c1
  c2 = c2
  Vols = {v1, v2}
  Claims = {c1, c2}
  Late = {c2}
  Placeholder = {c2}
  Present = {v1}
  Wish <- Wishes
  MaxEdits = 2
  MaxFaults = 1
  MaxTrouble = 2
INVARIANTS TrackedOnce
PROPERTIES NoSpuriousDetach ClassicKept VolumesSettle
