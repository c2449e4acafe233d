CONSTANTS
  SeqMod = 20
  Iss = 18
  PeerIss = 17
  RingSize = 1
  ReqLen = 2
  StreamLen = 2
  Mss = 1
  DownCap = 2
  UpCap = 1
  Servers = {s1, s2}
  Addresses = {a1}
  Static = static
  None0 = zero
  RxSlots = 2
  MaxRuns = 2
  Senders = {m1, m2}
  f = f
  Files = {f}
  Chunks <- MCChunks
  MaxShares = 2
  NetCap = 2
  NoSender = nobody
  NoFile = nofile
  RxDescs = 4
  TxDescs = 3
  Asking <- MCAsking
  MaxIn = 7
  MaxOut = 6
SPECIFICATION NetSpec
VIEW MCView
CONSTRAINT MCUndisturbed
INVARIANTS
  NetTypeOK
  AckedIsKept
  SentIsReceived
  LastGrantIsInstalled
  
  ReportIsTrue
  FramesOnce
PROPERTIES
  DownSpec
  UpSpec
CHECK_DEADLOCK FALSE
