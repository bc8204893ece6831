SPECIFICATION FairSpec
CONSTANTS
  Keys = {k1, k2}
  Clients = {c1, c2}
  SignalBuffer = 1
  JobExpiry = 1
  DbFaults <- RetriedFaults
  MaxRequests = 2
  MaxTime = 2
  MaxExits = 1
  MaxFaults = 1
INVARIANTS NoLostWakeup WorkerOwnsItsRows
PROPERTIES ImplementsLifecycle RequestsSettle
CHECK_DEADLOCK FALSE
