SPECIFICATION FairSpec
CONSTANTS
  MaxBits = 2
  RibKey <- TwoBranches
  RibState = {"static", "timed"}
  WalkingRib = TRUE
INVARIANTS
  WalkSkipsNothing
  WalkVisitsOnce
PROPERTIES
  ImplementsPrefixTable
  WalkKeepsItsNodes
  WalkEnds
