CONSTANTS
  K = 2
  W = 1
  SeqMax = 7
  PeerK = 1
  PeerMay = {"stopdt", "test"}
  Commands = {}
  SplitReads = FALSE
  MaxSend = 0
  MaxRecv = 1
  MaxConn = 1
  ChanCap = 1
SPECIFICATION Spec
INVARIANT AcknowledgedByW
