SPECIFICATION Spec
CONSTANTS
  MaxBits = 3
  RibKey <- MixedKeys
  RibState = {"timed"}
  WalkingRib = FALSE
INVARIANTS
  TypeOK
  CanonicalTree
  AssertsHold
  SearchIsLongestMatch
