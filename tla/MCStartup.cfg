SPECIFICATION Spec
CONSTANTS
  SQL = SQL
  Redis = Redis
  Configs <- MCConfigs
  Attempts = 3
INVARIANTS
  ReadyMeansConnected
  FailedListenerIsReported
  ChecksMeasureWhatTheyRestart
  EveryCheckRests
  IPv6AlarmIsEarned
PROPERTIES
  AcceptedConfigStarts
  SignalEndsIt
  StartsOnceUp
