CONSTANTS
  Deliveries = {d1, d2}
  Pushes = {p1}
  BoardCount = 2
  Callers = {c1}
  Operators = {o1}
  MaxAttempts = 2
  MaxRetries = 2
  MaxFaults = 1
  MaxLosses = 1
SPECIFICATION FairSpec
INVARIANTS
  DeliveredWasDisplayed
  NoDeliveryLost
  WholeFanout
  OneDeliveryPerBoard
  DisplayedOnce
PROPERTIES
  ImplementsLifecycle
  EveryDeliverySettles
