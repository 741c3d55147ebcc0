SPECIFICATION Spec
CONSTANTS
  r1 = r1
  r2 = r2
  c1 = c1
  c2 = c2
  c3 = c3
  c4 = c4
  NoChannel = NoChannel
  Runners <- MCRunners
  Channels <- MCChannels
INVARIANTS
  NoStrandedWaiter
PROPERTIES
  NoReleaseWhilePaused
  ReleaseIsNotLost
  ImplementsGateSpec
