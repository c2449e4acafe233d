CONSTANTS
  Clusters = {2, 3, 4}
  RootClus = 2
  SlotsPer = 2
  Leaves = {"short", "longer", "empty"}
  To83 <- MCTo83
  MaxLen = 1
  FromPc <- MCFromPc
SPECIFICATION FatSpec
INVARIANTS RootHeld
