SPECIFICATION Spec
CONSTANTS
  Commands = {"connect", "wiphy", "interface", "scan", "station", "power", "linkinfo", "linkmodes", "features", "eee", "stats"}
  Indexes = {1, 2}
  Loopback = {}
  MaxFaults = 0
INVARIANT AllInterfacesReturned
