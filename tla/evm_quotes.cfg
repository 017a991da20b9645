CONSTANTS
  Tokens = {"a", "b"}
  WethFirst = {"b"}
  Pools <- PoolSet
  Reserves <- ReserveSet
  Markets <- MarketSet
  Trades <- TradeSet
  Probe = 10
  BasisPoints = 10
  PerMille = 10
  InputKept = 9
  RouterFees = {1, 3}
  MaxMoves = 2
  Outputs <- OutputSet
  Kept = {1, 3}
SPECIFICATION MCSpec
INVARIANTS
  QuoteIsExact
  SlippageHonoured
  DeepestWhenQuiet
  RelayTolerance
PROPERTIES
  RelayHonestAccepted
CHECK_DEADLOCK FALSE
