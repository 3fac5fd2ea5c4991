SPECIFICATION PathsSpec
CONSTANTS
  Source = "USDT"
  Root = "Root"
  Markets <- Quad
  LogRates <- Steps
CHECK_DEADLOCK FALSE
INVARIANTS DetectsProfit FoundAreCycles FoundMakeProfit
