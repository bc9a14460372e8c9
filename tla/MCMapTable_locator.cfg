SPECIFICATION Spec
CONSTANTS
  Prefix <- NetAndHost
  Host <- OnlyHostA
  ReplyPrefix <- NetAndHost
  StaticPrefix = {}
  NegativeAct = {"noaction", "native", "sendreq", "drop"}
  DefaultTtl = 1
  RecordTtl = {1, 2}
  GarbageTtl = {0, 1, 2}
  MaxRecords = 1
PROPERTIES
  LocatorRegistered
