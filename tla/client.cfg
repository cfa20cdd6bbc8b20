CONSTANTS
  Fds = {1, 2, 3}
  Size = 2
  MaxLen = 3
  MaxCloses = 2
  MaxBreaks = 1
SPECIFICATION FairSpec
INVARIANTS TypeOK SentInOrder OwnSocketOnly
PROPERTY Reconnects
