SPECIFICATION Spec
CONSTANTS
  web = web
  mail = mail
  NoCheck = NoCheck
  Runners <- MCRunners
  Threshold <- LiveThreshold
  Reaction <- LiveReaction
  Weights <- LiveWeights
  HealPoints = 2
  MaxReplicas = 1
  MaxBans = 0
  HasDocker = TRUE
PROPERTIES
  ShutdownCompletes
  ExhaustionIsHandled
  BlockedRunnersReturn
