SPECIFICATION FairSpec
CONSTANTS
  NSlots = 2
  Threads = {0, 1, 2}
  BatchMax = 2
  MaxCtx = 3
  TicketMod = 4
  Scenarios = {{"gpu", "batched", "deadline", "short"}, {"batched", "embed", "deadline"},
               {"gpu", "batched", "solo", "stop", "short"}, {"gpu", "solo", "embed", "hangup"},
               {"batched", "solo", "embed", "hangup", "stop"}}
INVARIANTS MutualExclusion ModelHasOneUser QueueConsistent ReadsOwnRow CacheBacksPos EndsAtDeadline
  DeviceHasOneUser NoLostWakeup GatherIsJustified
PROPERTIES RefinesFifo RefinesDecodeService ForwardReturnsEventually TurnComes StopCompletes
