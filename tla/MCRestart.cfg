SPECIFICATION Spec
CONSTANTS
  c1 = c1
  c2 = c2
  Never = Never
  Containers <- MCContainers
  MinUptime = 4
  PauseBeforeRestart = 2
  SettleAfterRestart = 2
  InitDBDelay = 1
  CallTimeout = 1
  StopGrace = 1
  Oldest = 4
  PhpFpm = TRUE
PROPERTIES
  
  SettledBeforeResume
