CONSTANTS
  Events = {e1, e2}
  Reports = {e2}
  Clients = {c1, c2}
  MaxCards = 1
  MaxCalls = 3
  MaxSeconds = 0
  MaxToggles = 0
  MaxFaults = 0
SPECIFICATION Spec
INVARIANTS
  OnlyVerifiedEventsDispatched
CHECK_DEADLOCK FALSE
