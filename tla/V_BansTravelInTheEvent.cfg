SPECIFICATION Spec
CONSTANTS
  a1 = a1
  a2 = a2
  Addresses <- MCAddresses
  Threshold = 1
  Buffer = 1
INVARIANT BansTravelInTheEvent
