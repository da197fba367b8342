CONSTANTS
  NULL = NULL
  INFINITE = INFINITE
  FdRec = {f1, f2, f3}
  Noti = {n1, n2, n3}
  Requests <- MixedRequests
  TICK = 2
  BusyWait = 1
  CancelKinds = {}
  MaxPuts = 3
  MaxErrors = 0
  MaxTime = 5
SPECIFICATION Spec
INVARIANTS
  TypeOK
  NotiQueuesOK
  Accounted
  NothingLeaks
  SelectsWhatIsArmed
  FreedOnce
PROPERTIES
  ImplementsEvAbs
