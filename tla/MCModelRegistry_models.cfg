CONSTANTS
  Trainers = {t1, t2}
  Promoters = {p1, p2}
  Epsilon = 1
  MaxAnchor = 2
  MaxJobs = 2
  MaxVersion = 3
  MaxFaults = 1
  MaxRestarts = 1
SPECIFICATION Spec
SYMMETRY Symmetry
INVARIANTS
  ArtifactsMatchRow
  ServedIsProduction
  OnlyEvaluatedPromoted
PROPERTY PromotionPassesGates
