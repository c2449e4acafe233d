CONSTANTS
  Senders = {m1}
  f = f
  Files = {f, g}
  Chunks <- MCChunks
  MaxShares = 2
  NetCap = 3
  NoSender = nobody
  NoFile = nofile
SPECIFICATION ShareSpec
INVARIANT ReliablyShared
