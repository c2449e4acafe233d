CONSTANTS
  Depth = 3
  CidSpace = 2
  LastBlock = 0
  Values = {0, 1}
  NoData = nil
  MaxLate = 0
SPECIFICATION NvmeSpec
PROPERTIES OwnCompletion
