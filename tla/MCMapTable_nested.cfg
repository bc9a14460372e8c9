SPECIFICATION FairSpec
CONSTANTS
  Prefix <- Nested
  Host <- OnlyHostA
  ReplyPrefix <- OnlyNet
  StaticPrefix <- Nested
  NegativeAct = {"native", "drop", "sendreq", "noaction"}
  DefaultTtl = 2
  RecordTtl = {0, 1}
  GarbageTtl = {0, 2}
  MaxRecords = 2
INVARIANTS
  TypeOK
  TunnelRouteInv
PROPERTIES
  StaticSticky
  RoutesFollowEntries
  ImplementsMapCache
  QueriedIsTransient
  MappingNeedsMapServer
