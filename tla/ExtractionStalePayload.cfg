SPECIFICATION Spec
CONSTANTS
  Keys = {k1}
  Clients = {c1}
  SignalBuffer = 1
  JobExpiry = 1
  DbFaults <- NoFaults
  MaxRequests = 2
  MaxTime = 0
  MaxExits = 0
  MaxFaults = 0
INVARIANTS DoneFromOwnRequest
CHECK_DEADLOCK FALSE
