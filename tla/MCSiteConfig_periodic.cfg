SPECIFICATION FairSpec
CONSTANTS
  Name = {a}
  SiteName = {a}
  Truncated <- Whole
  EidPrefix = {p1}
  Key = {}
  LongKey = {}
  FullKey = {}
  LocatorAddr = {}
  Parameter = {}
  Server = {s1, s2}
  Unstable = {s1}
  Padding = {t1}
  MaxSites = 1
  MaxPrefixes = 1
  MaxServers = 2
  MaxLocators = 0
PROPERTIES RegisteredPeriodically
