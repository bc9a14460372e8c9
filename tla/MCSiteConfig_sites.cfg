SPECIFICATION FairSpec
CONSTANTS
  Name <- LongNames
  SiteName <- ShortNames
  Truncated <- FirstBytes
  EidPrefix = {p1}
  Key = {full, long}
  LongKey = {long}
  FullKey = {full}
  LocatorAddr = {l1}
  Parameter = {256}
  Server = {s1, s2}
  Unstable = {s1}
  Padding = {t1}
  MaxSites = 2
  MaxPrefixes = 1
  MaxServers = 2
  MaxLocators = 1
INVARIANTS TypeOK
PROPERTIES ImplementsSites RegisteredForEver
