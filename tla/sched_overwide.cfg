SPECIFICATION Spec
CONSTANTS
  NSlots = 4
  Threads = {0, 1, 2, 3, 4}
  BatchMax = 2
  MaxCtx = 2
  TicketMod = 6
  Scenarios = {{"gpu", "batched"}}
INVARIANTS ReadsOwnRow
