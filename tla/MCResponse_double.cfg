CONSTANTS
  Events = {e1}
  Reports = {}
  Clients = {c1}
  MaxCards = 1
  MaxCalls = 3
  MaxSeconds = 1
  MaxToggles = 0
  MaxFaults = 0
SPECIFICATION Spec
INVARIANT CardExecutesOnce
CHECK_DEADLOCK FALSE
