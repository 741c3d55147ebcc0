SPECIFICATION TrackerSpec
CONSTANTS
  Thresholds <- MCThresholds
  Weights <- MCWeights
  HealPoints = 2
INVARIANTS
  LevelIsRounded
  ZeroMeansDead
  NeverFlattered
