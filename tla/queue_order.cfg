CONSTANTS
  Size = 4
  Backlog = 3
  Total = 12
SPECIFICATION Spec
INVARIANTS TypeOK InOrder
CHECK_DEADLOCK FALSE
