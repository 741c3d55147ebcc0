SPECIFICATION Spec
CONSTANTS
  cert = cert
  nginx = nginx
  mail = mail
  webhook = webhook
  NoService = NoService
  Services <- MCServices
  Window <- MCWindow
  Targets <- MCTargets
  Exchangers <- MCExchangers
INVARIANTS
  FailureIsContained
  SentMeansEverybody
  CopiesAreExplained
PROPERTY OnePerWindow
