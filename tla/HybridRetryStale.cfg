SPECIFICATION Spec
CONSTANTS
  a = a
  Named <- OneDest
  Picked <- OneDest
  Slots <- OneSlotEach
  Conns <- ThreeConns
  MaxFailures = 1
  MaxCommands = 2
INVARIANTS
  NoStaleRetry
CHECK_DEADLOCK FALSE
