CONSTANTS
  Curves <- CurveSet
  Pools <- PoolSet
  Fees <- FeeSet
  Trades <- TradeSet
  OtherCurve <- OtherMintCurve
  SidePool <- SidePoolOf
  BasisPoints = 10
  MaxMoves = 3
SPECIFICATION Spec
INVARIANTS
  FoundWasTrue
  BudgetKept
  QuoteIsExact
  NearDocumentedNet
CHECK_DEADLOCK FALSE
