SPECIFICATION Spec
CONSTANTS
  Dispatched = {"scan"}
  Width = 4
  MaxTargets = 6
  Hosts <- MCHosts
  Tables <- MCTables
  Retries = {2}
  Exclusions <- MCExclusions
  MaxWorkers = 2
  MaxAddresses = 4
  Links = {1, 2}
  PlainFiles = {3}
  Lifetimes = {1}
  MaxRate = 4
  MaxTraffic = 2
  MaxChurn = 2
  Interfaces = {1}
  RouteTables <- MCRouteTables
  ServerLists <- MCServerLists
  MaxFlaps = 1
  Pids = {1, 2}
  Programs <- MCPrograms
  Catalog <- MCCatalog
  Orphans <- MCOrphans
  MaxTurnover = 1
  Bits = 4
  ByteBits = 2
INVARIANT
  LookupsBestEffort
