CONSTANTS
  Events = {e1}
  Senders = {s1, s2}
  Ripplers = {r1}
  Sockets = {c1}
  RedisUp = TRUE
  Statuses = {"active", "closed"}
  MaxMessages = 2
  MaxRipples = 1
  MaxFaults = 1
SPECIFICATION Spec
SYMMETRY Symmetry
INVARIANTS
  NoEventUnmaterialised
  ClosedEventKeepsNoRipple
  FeaturesAreCurrent
CHECK_DEADLOCK FALSE
