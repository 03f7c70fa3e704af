CONSTANTS
  Execs = {e1, e2}
  Tokens = {t1}
  BarricadeTokens = {}
  Approvers = {a1, a2}
  Operators = {o1}
  QueueCap = 1
  MaxAttempts = 2
  MaxRetries = 0
  MaxFaults = 0
  MaxLosses = 0
SPECIFICATION Spec
SYMMETRY Symmetry
INVARIANTS
  SingleExecution
