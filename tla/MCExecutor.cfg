SPECIFICATION Spec
CONSTANTS
  MainProc = main
  ExecProc = exec
  NoProc = none
  NoJob = nojob
  OrdersPS = 3
  OrdersPD = 5
  MaxQueued = 3
  Requests <- MCRequests
INVARIANTS TypeOK
PROPERTIES KeepsReceiving
