SPECIFICATION FairSpec
CONSTANTS
  Models = {m1, m2}
  NoModel = NoModel
  YieldOnRequest = TRUE
INVARIANTS ServesItsModel PendingHasOwner SlotMatchesResident
PROPERTIES PendingNeverLost RefinesModelSlot UnloadHonoured ShutdownEnds
