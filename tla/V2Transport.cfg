SPECIFICATION MCSpec
CONSTANTS
  Pairings <- HybridPairings
  Faults <- AllFaults
  MaxMsgs = 2
INVARIANTS
  KeyAgreement
  RequireOnlyHybrid
  CountedOnce
  
  MessagesInOrder
  KeyDiscipline
  ModeMatrix
PROPERTIES
  NeverHalfOpen
  HandshakeCompletes
