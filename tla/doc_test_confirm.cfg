CONSTANTS
  K = 3
  W = 2
  SeqMax = 7
  PeerK = 2
  PeerMay = {}
  Commands = {}
  SplitReads = FALSE
  MaxSend = 3
  MaxRecv = 1
  MaxConn = 1
  ChanCap = 2
SPECIFICATION Spec
INVARIANT TestConfirmAlone
