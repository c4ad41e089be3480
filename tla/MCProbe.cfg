SPECIFICATION FairSpec
CONSTANTS
  PortArguments <- MCPortArguments
  Addresses = {"v6", "v4"}
  Destinations <- MCDestinations
  DefaultPort = 4
  MaxProbePorts = 4
  MaxConcurrentProbes = 2
INVARIANTS
  TypeOK
  ClaimsAccounted
  ReportComplete
PROPERTIES
  ImplementsProbeSpec
  Termination
