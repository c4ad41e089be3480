SPECIFICATION Spec
CONSTANTS
  Links = {1, 2}
  PlainFiles = {3}
  Lifetimes = {0, 1}
  MaxRate = 4
  MaxTraffic = 2
  MaxChurn = 2
CHECK_DEADLOCK FALSE
INVARIANT NoPhantomTraffic
