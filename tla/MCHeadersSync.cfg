CONSTANTS
  PowLimit = 536870911
  Anchor = 67108864
  HalfLife = 7200
  Spacing = 300
  Factor <- FactorTable
  Blocks <- MCBlocks
  Parent <- MCParent
  Starts <- MCStarts
  Profiles <- MCProfiles
  Salts <- MCSalts
  WorkUnit = 536870912
  MinWork = 30
  Period = 2
  Buffer = 1
  MaxCommitments = 4
  MaxResults = 2
  MaxChanges = 2
SPECIFICATION Spec
INVARIANTS
  StoredHasWork
  
PROPERTY PeerChainReached
CHECK_DEADLOCK FALSE
