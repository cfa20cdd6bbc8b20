CONSTANTS
  Roles = {"client", "server"}
  MaxSockets = 3
  PipeMax = 2
  MaxUart = 2
  MaxNet = 3
SPECIFICATION FairSpec
INVARIANTS TypeOK PeersGetInOrder GreetedFirst LostOnlyAtUart
PROPERTY Reconnects
CHECK_DEADLOCK FALSE
