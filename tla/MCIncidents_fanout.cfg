CONSTANTS
  Events = {e1}
  Senders = {s1}
  Ripplers = {}
  Sockets = {c1, c2}
  RedisUp = TRUE
  Statuses = {"active", "closed"}
  MaxMessages = 1
  MaxRipples = 0
  MaxFaults = 0
SPECIFICATION Spec
INVARIANTS
  FanoutNeverBreaksIngest
CHECK_DEADLOCK FALSE
