CONSTANTS
  Calls = {c1, c2}
  Trades <- AllTrades
  Responses <- AllResponses
  Leftovers <- LeftoverSet
SPECIFICATION Spec
INVARIANTS
  WithinTrades
  ApprovedFirst
  SalesCovered
CHECK_DEADLOCK FALSE
