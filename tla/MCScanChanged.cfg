SPECIFICATION Spec
CONSTANTS
  Width = 4
  MaxTargets = 6
  Hosts <- MCHosts
  Tables <- MCTables
  Retries = {1, 2}
  Exclusions <- MCExclusions
CHECK_DEADLOCK FALSE
INVARIANT ChangedTellsPairs
