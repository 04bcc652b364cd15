SPECIFICATION FairSpec
CONSTANTS
  a = a
  Named <- OneDest
  Picked <- OneDest
  Slots <- OneSlotEach
  Conns <- ThreeConns
  MaxFailures = 2
  MaxCommands = 1
INVARIANTS
  RetryOnce
  GrantsConserved
PROPERTIES
  RetryNotLost
  RetryRuns
CHECK_DEADLOCK FALSE
