SPECIFICATION Spec
CONSTANTS
  Prefix <- NetAndHost
  Host <- OnlyHostA
  ReplyPrefix <- NetAndHost
  StaticPrefix <- NetAndHost
  MaxBusy = 2
INVARIANTS
  TypeOK
  RouteKept
  TreeHoldsLiveNodes
PROPERTIES
  CallsKeepStatic
  ImplementsMapCacheAlone
