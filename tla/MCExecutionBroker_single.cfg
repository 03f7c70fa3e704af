CONSTANTS
  Execs = {e1, e2}
  Tokens = {t1}
  BarricadeTokens = {t1}
  Approvers = {a1}
  Operators = {o1}
  QueueCap = 1
  MaxAttempts = 2
  MaxRetries = 1
  MaxFaults = 1
  MaxLosses = 1
SPECIFICATION FairSpec
INVARIANTS
  AtMostOneEffect
  SingleExecution
  NoCommandLost
PROPERTIES
  ImplementsLifecycle
  EveryCommandSettles
  RequestsReturn
