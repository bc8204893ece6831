SPECIFICATION Spec
CONSTANTS
  Keys = {k1}
  Calls = {c1, c2}
  Bodies = {b1, b2}
  NoBody = NoBody
  FsFaults <- AllFaults
  MaxEnsures = 3
  MaxCrashes = 1
  MaxFaults = 2
INVARIANTS TypeOK LocatorsNameWholeFiles NoTempLeft
PROPERTIES PublishedStays
CHECK_DEADLOCK FALSE
