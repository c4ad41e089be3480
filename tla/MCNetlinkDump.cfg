SPECIFICATION FairSpec
CONSTANTS
  Records <- MCRecords
  Operations = {"links", "routes", "sockets"}
  PassSize = 2
  MaxQueued = 2
  MaxChanges = 2
INVARIANTS
  TypeOK
  UndisturbedIsExact
  FaultsSurface
PROPERTIES
  Returns
