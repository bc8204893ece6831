SPECIFICATION FairSpec
CONSTANTS
  Papers = {p1, p2}
  Versions = {v1, v2}
  NoVersion = NoVersion
  Callers = {c1, c2}
  MaxFeed = 2
  MaxFetches = 3
  MaxExits = 1
  MaxFaults = 1
INVARIANTS TypeOK OneDownloadPerPaper RequestedVersionIsKept
PROPERTIES NewPapersRequested
CHECK_DEADLOCK FALSE
