CONSTANTS
  Trees <- MCTrees
  Seed <- MCSeed
  Bare <- MCBare
  Garbled <- MCGarbled
  Cap = 3
  Blank = blank
  Faults = {"crash", "read", "write", "memory"}
  Clusters = {2, 3, 4, 5, 6}
  RootClus = 2
  SlotsPer = 2
  Leaves = {"short", "longer", "empty"}
  To83 <- MCTo83
  MaxLen = 2
  FromPc <- MCFromPc
  Procs = {p, q}
  Frames = {1, 2, 3, 4, 5, 6, 7, 8}
  Path <- MCPath
  ImageEnd = 2
  MmapBase = 3
  StackBase = 5
  Top = 6
  b = b
  c1 = c1
  c2 = c2
  c3 = c3
  Lapics = {b, c1, c2, c3}
  Bsp = b
  Madt <- MCMadt
  MaxCpus = 3
  KeySlots = 3
  MaxKeys = 7
  Depth = 3
  CidSpace = 1
  LastBlock = 1
  Values = {u, v}
  NoData = nodata
  MaxLate = 1
SPECIFICATION PartsSpec
SYMMETRY MCSym
VIEW MCView
CONSTRAINT MCUndisturbed
INVARIANTS
  TypeOK
  DiskMatches
  
  MemTypeOK
  SoleOwner
  OwnedIsUsed
  NoFrameLost
  GrantedIsMapped
  CountedAreOnline
  OwnPlace
  KeysOnce
  NvmeTypeOK
  BehindByTimeouts
PROPERTIES
  SavedTreeAllOrNothing
  ChunksMove
