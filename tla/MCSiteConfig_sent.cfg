SPECIFICATION Spec
CONSTANTS
  Name = {a, b}
  SiteName = {a, b}
  Truncated <- Whole
  EidPrefix = {p1, p2}
  Key = {k1}
  LongKey = {}
  FullKey = {}
  LocatorAddr = {}
  Parameter = {256}
  Server = {s1}
  Unstable = {}
  Padding = {t1}
  MaxSites = 2
  MaxPrefixes = 2
  MaxServers = 1
  MaxLocators = 1
INVARIANTS SweepRegistersAll
PROPERTIES SentWasConfigured
SYMMETRY NameSymmetry
