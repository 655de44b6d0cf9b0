\* The host and one driver; links break and the driver's overlay crashes.
SPECIFICATION Spec
CONSTANTS
  Members = {1, 2}
  Producers = {2}
  MaxEventsPerProducer = 5
  ChunkEvents = 1
  MaxConns = 4
  MaxObserved = 2
  Host = 1
  Crashable = {2}
  Lingering = FALSE
  MaxFaults = 2
INVARIANTS TypeOK OneEventPerNumber NoHoles NothingSlips NothingStranded NoDelayedPitWrites
CHECK_DEADLOCK FALSE
