SPECIFICATION Spec
CONSTANTS
  v1 = v1
  v2 = v2
  VM = {v1, v2}
  Val = {"connected", "disconnected"}
  Blocked = {"disconnected"}
  New = {v2}
  Deletable = {v1}
  ChanSize = 1
  MaxChanges = 2
  MaxWatchers = 2
CHECK_DEADLOCK FALSE
INVARIANTS CacheCurrent SignalDelivered
