CONSTANTS
  SeqMod = 20
  Iss = 18
  PeerIss = 17
  RingSize = 1
  ReqLen = 2
  StreamLen = 2
  Mss = 1
  DownCap = 1
  UpCap = 1
SPECIFICATION FairSpec
PROPERTIES
  AllRead
CHECK_DEADLOCK FALSE
