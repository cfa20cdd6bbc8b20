CONSTANTS
  K = 2
  W = 2
  SeqMax = 7
  PeerK = 1
  PeerMay = {}
  Commands = {}
  SplitReads = FALSE
  MaxSend = 0
  MaxRecv = 1
  MaxConn = 2
  ChanCap = 1
SPECIFICATION FairSpec
INVARIANT StationAccepts
PROPERTIES Acknowledged LinkStarts
