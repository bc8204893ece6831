SPECIFICATION Spec
CONSTANTS
  Extractions = {e1, e2}
  Calls = {c1, c2}
  MaxBodies = 2
  MaxRuns = 2
  MaxTime = 2
INVARIANTS TypeOK AnalysesAreWhole
PROPERTIES AnswerWasStored OnlyOverlapsGoBack
CHECK_DEADLOCK FALSE
