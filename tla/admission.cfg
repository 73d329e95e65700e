SPECIFICATION FairSpec
CONSTANTS
  Conns = {c1, c2, c3, c4}
  NoConn = NoConn
  Slots = {s1, s2}
  Cap = 3
  Limit = 2
  Retries = 2
INVARIANTS OneOwner NoIdleSlot
PROPERTIES RefinesFifoQueue EveryoneAnswered StopEnds
