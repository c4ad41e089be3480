SPECIFICATION Spec
CONSTANTS
  Records <- MCRecords
  Operations = {"sockets"}
  PassSize = 2
  MaxQueued = 2
  MaxChanges = 1
INVARIANT
  DiagnosticFaultsSurface
