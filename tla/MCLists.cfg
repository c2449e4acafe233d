CONSTANTS
  HeapSize = 36
  Hdr = 3
  Gran = 2
  Requests = {1, 3, 5, 9}
  Users = {p}
  Nodes = {root, a, b, c}
  Root = root
  Names = {x, trash}
  Bin = trash
  Nil = nil
  None = none
  Freed = freed
  MaxFd = 1
  Std = 1
  MaxLost = 1
SPECIFICATION ListsSpec
SYMMETRY MCSym
VIEW MCView
CONSTRAINT MCUndisturbed
INVARIANTS
  ListsTypeOK
  Tiling
  
  DescriptorsCounted
PROPERTIES
  AllocSpec
  CwdOutlivesRm
  BinOnly
  
