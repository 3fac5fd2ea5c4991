SPECIFICATION SelectionSpec
CONSTANTS
  Cycle <- MCCycle
  Keys = {"k1", "k2", "k3"}
  Throttle = 3
  MaxCycles = 2
  MaxTime = 7
  NoCycle = nocycle
INVARIANTS SelectionTypeOK PricedInThisPass MismatchIsThrottled
PROPERTIES OpportunitiesArePaced
