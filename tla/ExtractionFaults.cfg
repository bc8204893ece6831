SPECIFICATION Spec
CONSTANTS
  Keys = {k1, k2}
  Clients = {c1, c2}
  SignalBuffer = 1
  JobExpiry = 1
  DbFaults <- AllFaults
  MaxRequests = 3
  MaxTime = 2
  MaxExits = 1
  MaxFaults = 1
SYMMETRY ClientSymmetry
INVARIANTS TypeOK ResultMatchesStatus
PROPERTIES LateResultDiscarded
CHECK_DEADLOCK FALSE
