SPECIFICATION Spec
CONSTANTS
  postfix = postfix
  nginx = nginx
  neighbour = neighbour
  ours = ours
  theirs = theirs
  b1 = b1
  b2 = b2
  o1 = o1
  o2 = o2
  Project = ours
  Contains <- MCContains
  OnNetwork = {b1, b2}
  Unset = Unset
  Boxes <- MCBoxes
  Homes <- MCHomes
  Service = "postfix"
  Commands = {"RCPT TO", "DATA"}
  Probes <- MCProbes
  ReadLimit = 2
  CertHours <- MCCertHours
  MinCertDays = 2
INVARIANTS
  
  MailOnlyInside
  OkIsEarned
PROPERTY
  EveryRoundEnds
