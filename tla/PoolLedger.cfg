SPECIFICATION FairSpec
CONSTANTS
  Scripts <- OneScript
  Diffs <- SmallDiffs
  Limits <- MovingLimits
  MaxShares = 3
  MaxWins = 1
  MaxNumbers = 2
  MaxCrashes = 1
INVARIANTS
  
  CleanIsSaved
  WinsSaved
  
PROPERTIES
  WindowSavedInTime
