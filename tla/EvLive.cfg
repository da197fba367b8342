CONSTANTS
  NULL = NULL
  INFINITE = INFINITE
  FdRec = {f1, f2}
  Noti = {n1, n2}
  Requests <- FewRequests
  TICK = 2
  BusyWait = 1
  CancelKinds = {"live", "stale"}
  MaxPuts = 2
  MaxErrors = 1
  MaxTime = 5
SPECIFICATION FairSpec
INVARIANTS
  FdQueuesOK
  OneRecordPerFd
PROPERTIES
  OnceReturns
  TimerDelivered
  ReadyDelivered
