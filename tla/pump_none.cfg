CONSTANTS
  Curves <- CurveSet
  Pools <- PoolSet
  Fees <- FeeSet
  Trades <- TradeSet
  OtherCurve <- OtherMintCurve
  SidePool <- SidePoolOf
  BasisPoints = 10
  MaxMoves = 3
SPECIFICATION Spec
INVARIANTS
  NoneMeansNoMarket
CHECK_DEADLOCK FALSE
