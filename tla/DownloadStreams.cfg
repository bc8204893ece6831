SPECIFICATION WorkerSpec
CONSTANTS
  Jobs = {j1}
  NoJob = NoJob
  Streams = {s1, s2}
  SubscriberBuffer = 1
  Retention = 1
  MaxEntries = 2
  MaxTime = 1
INVARIANTS TypeOK RetainedUntilAged ReadersSeeTheJob NoStreamStranded
PROPERTIES ImplementsFeed WorkersFinish StreamsEnd
CHECK_DEADLOCK FALSE
