CONSTANTS
  K = 3
  W = 2
  SeqMax = 7
  PeerK = 2
  PeerMay = {}
  Commands = {}
  SplitReads = TRUE
  MaxSend = 3
  MaxRecv = 3
  MaxConn = 1
  ChanCap = 2
SPECIFICATION Spec
INVARIANTS TypeOK ReceivedExactly
PROPERTY ServiceSpec
