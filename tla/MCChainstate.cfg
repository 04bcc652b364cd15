SPECIFICATION Spec
CONSTANTS
  oa = oa
  ob = ob
  oc = oc
  od = od
  G = G
  A1 = A1
  A2 = A2
  A3 = A3
  B2 = B2
  B3 = B3
  X2 = X2
  Y2 = Y2
  Z2 = Z2
  None = None
  Outpoints <- MCOutpoints
  Blocks <- MCBlocks
  Genesis <- G
  Parent <- MCParent
  Height <- MCHeight
  Ops <- MCOps
  BadScripts <- MCBad
  NoBlock <- None
INVARIANTS
  DatabaseIsBest
  ViewIsChain
  FlagsMeanWhatTheySay
  
