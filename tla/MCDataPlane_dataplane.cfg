SPECIFICATION Spec
CONSTANTS
  Prefix <- NetAndHost
  Host <- OnlyHostA
  Address <- Addresses
  Locator <- Addresses
  MaxLen = 2
  BufLen = 9
  MaxQueue = 1
  MaxPasses = 2
INVARIANTS
  TypeOK
  ReadOnce
PROPERTIES
  NoBypass
  ArrivesWhole
