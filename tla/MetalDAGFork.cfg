SPECIFICATION Spec
CONSTANTS
  Entries = 2
  EpochLen = 2
  Interval = 2
  Times <- OneTimePerEpoch
  Start = 7
  MaxTime = 9
  MaxUses = 4
  MaxHeaders = 2
INVARIANTS RefusedOnlyForNow
CHECK_DEADLOCK FALSE
