SPECIFICATION Spec
CONSTANTS
  Records <- MCRecords
  Operations = {"links"}
  PassSize = 2
  MaxQueued = 2
  MaxChanges = 1
INVARIANT
  PointInTime
