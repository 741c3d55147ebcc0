SPECIFICATION Safety
CONSTANTS
  web = web
  mail = mail
  NoCheck = NoCheck
  Runners <- MCRunners
  Threshold <- MCThreshold
  Reaction <- MCReaction
  Weights <- MCWeights
  HealPoints = 2
  MaxReplicas = 1
  MaxBans = 0
  HasDocker = TRUE
INVARIANT PausedWhileUnreachable
