SPECIFICATION Spec
CONSTANTS
  NSlots = 2
  Threads = {0, 1, 2}
  BatchMax = 2
  MaxCtx = 3
  TicketMod = 4
  Scenarios = {{"gpu", "batched", "solo", "deadline"}}
INVARIANTS DeadlineEndsGeneration
