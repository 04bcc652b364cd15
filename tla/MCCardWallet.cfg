CONSTANTS
  Cards = {c1, c2, c3}
  Wallets = {w1, w2}
  MaxDraws = 4
SYMMETRY Symmetry
SPECIFICATION Spec
INVARIANTS
  KeysOnDisk
  GivenUnlocks
  SealedIsNeeded
CHECK_DEADLOCK FALSE
