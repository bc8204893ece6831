SPECIFICATION NormalizeSpec
CONSTANTS
  Titles = {h1, h2}
  MaxLines = 5
INVARIANTS ArtifactFollowsRules SecondPassIsNeutral
CHECK_DEADLOCK FALSE
