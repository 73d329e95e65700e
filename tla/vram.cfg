SPECIFICATION FairSpec
CONSTANTS
  p1 = p1
  p2 = p2
  l1 = l1
  l2 = l2
  l3 = l3
  Pids = {p1, p2}
  Loads = {l1, l2, l3}
  PidOf <- MCPidOf
  Need <- MCNeed
  Priority <- MCPriority
  Starts <- MCStarts
  Total = 3
  MaxEntries = 3
  Budgets <- MCBudgets
INVARIANTS AdmittedFits EntryHasOwner
PROPERTIES NoInversion WaiterProceeds
