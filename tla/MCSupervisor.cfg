SPECIFICATION Safety
CONSTANTS
  web = web
  mail = mail
  NoCheck = NoCheck
  Runners <- MCRunners
  Threshold <- MCThreshold
  Reaction <- MCReaction
  Weights <- MCWeights
  HealPoints = 2
  MaxReplicas = 2
  MaxBans = 1
  HasDocker = TRUE
INVARIANTS
  PauseHasOwner
  GaugeHasOwner
  BlockedOnlyWhilePaused
  ExhaustionIsPending
PROPERTIES
  BudgetIsNotForgiven
  ImplementsIncidents
