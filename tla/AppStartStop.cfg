SPECIFICATION FairSpec
CONSTANTS
  Handlers = {h1, h2}
  Stoppers = {s1, s2}
  Downloads = {d1, d2}
  Odd <- OneOdd
  Own <- TestEnv
INVARIANTS TypeOK RunningWorkerIsOwned DrainIsComplete
PROPERTIES ShutdownReturns
CHECK_DEADLOCK FALSE
