SPECIFICATION BotSpec
CONSTANTS
  MainProc = main
  ExecProc = exec
  NoProc = none
  NoJob = nojob
  OrdersPS = 10
  OrdersPD = 20
  MaxQueued = 0
  MaxUpdates = 3
  MaxTags = 2
  Requests <- MCRequests
  Workers = {w1, w2}
INVARIANTS
  DispatchTypeOK EveryJobAccounted OneJobAtATime RatesNotOlder
  ReporterTypeOK ReportsAccounted OvertakesOnlyInHand EventsTellOfJobs
PROPERTIES SlotSpec WrittenWhileOneLives
