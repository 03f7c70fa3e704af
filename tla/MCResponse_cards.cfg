CONSTANTS
  Events = {e1}
  Reports = {e1}
  Clients = {c1, c2}
  MaxCards = 2
  MaxCalls = 4
  MaxSeconds = 1
  MaxToggles = 1
  MaxFaults = 1
SPECIFICATION Spec
SYMMETRY Symmetry
INVARIANTS
  ExecutionFollowsApproval
  EnqueuedIsExecuted
  DecisionStands
  VerificationHolds
  OneClosure
CHECK_DEADLOCK FALSE
