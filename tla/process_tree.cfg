CONSTANTS
  Procs = {1, 2, 3, 4}
  Workers <- SensorPublisher
  ForksFail = TRUE
  MaxStarts = 2
SPECIFICATION FairSpec
INVARIANTS TypeOK OneCopyEach NobodyForgotten ExclusiveAcrossRestarts
PROPERTY EndsWithMain
CHECK_DEADLOCK FALSE
