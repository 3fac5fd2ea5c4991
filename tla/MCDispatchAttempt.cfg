SPECIFICATION DispatchSpec
CONSTANTS
  MainProc = main
  ExecProc = exec
  NoProc = none
  NoJob = nojob
  OrdersPS = 10
  OrdersPD = 20
  MaxQueued = 0
  MaxUpdates = 4
  MaxTags = 3
  Requests <- MCRequests
PROPERTY PathsAreAttempted
