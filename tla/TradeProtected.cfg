SPECIFICATION Spec
CONSTANTS
  TradeIds = {id1}
  Owners = {own}
  Plans <- ExitPlans
  MarketPrices <- ExitPrices
  Readouts <- ExitReadouts
  Spread = 1
  MaxTime = 4
  None = None
CHECK_DEADLOCK FALSE
INVARIANT
  ProtectedFromOneR
