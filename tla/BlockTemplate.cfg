SPECIFICATION Spec
CONSTANTS
  Txs <- SixTxs
  Coin <- Spends
  Out <- Values
  Fee <- Offers
  Schedules <- MCSchedules
  Table <- ThreeEras
  Dust = 1660
  MaxSupply = 11001660
  MinOutput = 10000
  MaxOutputs = 3
  MaxBlockTxs = 3
  Windows <- MCWindows
  FeeBp = 299
  Payments <- MCPayments
  MaxHeight = 5
  MaxDepth = 2
INVARIANTS
  MempoolFitsTip
  LeftOutForCause
  SplitIsFair
  TemplateIsValid
  WalletPaysLevy
CHECK_DEADLOCK FALSE
