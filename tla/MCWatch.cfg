SPECIFICATION FairSpec
CONSTANTS
  Indexes = {1, 2}
  Names = {"eth0", "lan"}
  SocketBuffer = 2
  MaxEvents = 3
INVARIANTS
  TypeOK
  LabelsCurrent
PROPERTIES
  ImplementsWatchSpec
  CatchesUp
