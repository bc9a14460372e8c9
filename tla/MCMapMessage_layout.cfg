SPECIFICATION Spec
CONSTANTS
  a4 = a4
  a6 = a6
  b4 = b4
  b6 = b6
  c4 = c4
  Prefix <- TwoPrefixes
  Locator <- ThreeLocators
  Encapsulating = {4, 6}
  MaxLocators = 3
  MaxReceived = 3
  MaxRecords = 2
INVARIANTS
  RecordsReadBack
  RequestReadsBack
  RepliesUnderstood
  ProbesUnderstood
