SPECIFICATION Spec
CONSTANTS
  Setups <- SoundSetups
  Byte <- Alphabet
INVARIANTS LegalOutput ContentIsDelivered ClientHasDocument
