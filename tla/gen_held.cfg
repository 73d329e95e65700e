SPECIFICATION Spec
CONSTANTS
  Setups <- HeldSetups
  Byte <- Alphabet
INVARIANTS ClosedDocumentParses
