SPECIFICATION SceneSpec
CONSTANTS
  m1 = m1
  m2 = m2
  a = a
  b = b
  Miners <- TwoMiners
  Seated <- TwoMiners
  Cap = 0
  TxSets <- OneTxSet
  JobKeep = 2
  Events <- PowEvents
  MaxMoves = 1
  MaxJobs = 1

  
  
PROPERTIES
  PollKeepsPolling
  LastTipReachesEveryMiner
