SPECIFICATION BookSpec
CONSTANTS
  Prices = {1, 2, 3}
  Quantities = {0, 1, 2}
  Forms <- NumberOrText
  MaxAsks = 2
INVARIANT ZeroDeletesKey
