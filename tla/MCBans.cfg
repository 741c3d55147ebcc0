SPECIFICATION Spec
CONSTANTS
  a1 = a1
  a2 = a2
  Addresses <- MCAddresses
  Threshold = 2
  Buffer = 2
INVARIANTS
  VeteransStayUntold
  ReportedOnce
PROPERTY
  ImplementsIncidents
