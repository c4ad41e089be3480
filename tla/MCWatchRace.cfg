SPECIFICATION Spec
CONSTANTS
  Indexes = {1, 2}
  Names = {"eth0", "lan"}
  SocketBuffer = 2
  MaxEvents = 3
INVARIANT
  NamesRemainCurrent
