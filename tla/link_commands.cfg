CONSTANTS
  K = 2
  W = 2
  SeqMax = 7
  PeerK = 1
  PeerMay = {"reset", "icEnd"}
  Commands = {"REMOTECTL"}
  SplitReads = FALSE
  MaxSend = 1
  MaxRecv = 1
  MaxConn = 1
  ChanCap = 1
SPECIFICATION Spec
INVARIANTS SentExactly NoAbortUntested
