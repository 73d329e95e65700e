SPECIFICATION Spec
CONSTANTS
  Setups <- PastStopSetups
  Byte <- Alphabet
INVARIANTS StopEndsTheText
