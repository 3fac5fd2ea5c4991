SPECIFICATION PricingSpec
CONSTANTS
  Letters <- MCLetters
  QuoteCurrencies <- MCQuotes
  Listed <- MCListed
  Cycles <- MCCycles
  Prices <- MCPrices
  Offers = {0, 3}
  Source <- usd
  Bitcoin <- btc
  Fee = 1
  Balance = 6
  MaxSteps = 4
  MinSteps <- MCMinSteps
  Unset = unset
CHECK_DEADLOCK FALSE
INVARIANTS LegsAreRight RoundingCostsTwoSteps AcceptedAgain
