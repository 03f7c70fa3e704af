CONSTANTS
  Operators = {o1}
  Probe = probe
  Settings <- DefaultSettings
  Hysteresis = 2
  MaxRequests = 1
  MaxFaults = 1
  MaxCrashes = 1
SPECIFICATION FairSpec
INVARIANTS
  TierWritesAreLogged
  CacheMirrorsSolitaryWrite
  RecoveryWaitsAfterDowngrade
PROPERTIES
  EventuallyTier1
