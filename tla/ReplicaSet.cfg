SPECIFICATION FairSpec
CONSTANTS
  RS = {r1}
  Names = {1, 2, 3}
  Sizes = {1, 2}
  MaxFaults = 1
  MaxEdits = 1
CHECK_DEADLOCK FALSE
PROPERTIES NoSurplus NoOverDelete Converges DeletedSetEnds
