SPECIFICATION Spec
CONSTANTS
  s1 = s1
  s2 = s2
  a = a
  b = b
  Slots = {s1, s2}
  Tokens = {a, b}
  NBatch = 2
  MinTokens = 2
  MaxEntries = 2
  DraftMax = 2
  Setups <- CutSetups
INVARIANTS FoldMatchesHistory
