CONSTANTS
  Tables = {"noise", "air"}
  Publishing = {"noise"}
  Devices = 2
  ReadsFail = FALSE
  MayDie = TRUE
SPECIFICATION FairSpec
INVARIANTS TypeOK SemaphoreKept OneRowEach RowsOwn PollsSeeSaved
PROPERTY KeepsPolling
CHECK_DEADLOCK FALSE
