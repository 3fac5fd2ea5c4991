SPECIFICATION PathsSpec
CONSTANTS
  Source = "USDT"
  Root = "Root"
  Markets <- Triangle
  LogRates <- SmallRates
CHECK_DEADLOCK FALSE
INVARIANTS SearchReturns
