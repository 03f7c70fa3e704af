CONSTANTS
  Execs = {e1, e2}
  Tokens = {t1}
  BarricadeTokens = {}
  Approvers = {a1, a2}
  Operators = {o1, o2}
  QueueCap = 1
  MaxAttempts = 2
  MaxRetries = 2
  MaxFaults = 1
  MaxLosses = 1
SPECIFICATION Spec
SYMMETRY Symmetry
INVARIANTS
  TypeOK
  SettledRowsAreAudited
  EffectsAreAudited
