SPECIFICATION Spec
CONSTANTS
  Bits = 4
  ByteBits = 2
CHECK_DEADLOCK FALSE
INVARIANT IndexListsNamed
