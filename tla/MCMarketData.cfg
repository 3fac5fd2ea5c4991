SPECIFICATION DataSpec
CONSTANTS
  Markets = {"BTCUSDT", "ETHBTC"}
  OtherMarkets = {"XRPUSDT"}
  StaleTimeout = 0
  HighWater = 2
  MaxWire = 2
  MaxTime = 2
  NoPath = nopath
CHECK_DEADLOCK FALSE
INVARIANTS DataTypeOK LagIsExplained SearchSeesBooks QuoteAgeBounded
PROPERTIES BooksFollowTicker QuotesArrive
