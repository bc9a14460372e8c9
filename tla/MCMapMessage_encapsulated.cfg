SPECIFICATION Spec
CONSTANTS
  a4 = a4
  a6 = a6
  b4 = b4
  b6 = b6
  c4 = c4
  Prefix <- TwoPrefixes
  Locator <- ThreeLocators
  Encapsulating = {4, 6}
  MaxLocators = 0
  MaxReceived = 1
  MaxRecords = 1
INVARIANTS
  EncapsulatedRepliesRead
