SPECIFICATION Spec
CONSTANTS
  TradeIds = {id1, id2}
  Owners = {own}
  Plans <- BookPlans
  MarketPrices <- BookPrices
  Readouts <- BookReadouts
  Spread = 1
  MaxTime = 4
  None = None
CHECK_DEADLOCK FALSE
INVARIANTS
  OneActivePerTrader
  CancelledNeverHeld
  ExpiryRunsFromFill
PROPERTIES
  ClosedIsFinal
  FillNeedsEarlierBreakout
