SPECIFICATION Spec
CONSTANTS
  Commands = {"connect", "wiphy", "interface", "scan", "station", "power", "linkinfo", "linkmodes", "features", "eee", "stats"}
  Indexes = {1, 2, 3}
  Loopback = {3}
  MaxFaults = 2
INVARIANTS TypeOK NeverStuck AnswersBelong DumpsComplete RejectionsStayLocal
PROPERTY ImplementsEnumerationSpec
