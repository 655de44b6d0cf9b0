\* The hosting driver's overlay crashes, and the relay with it.
SPECIFICATION Spec
CONSTANTS
  Members = {1, 2}
  Producers = {1}
  MaxEventsPerProducer = 5
  ChunkEvents = 1
  MaxConns = 4
  MaxObserved = 2
  Host = 1
  Crashable = {1}
  Lingering = TRUE
  MaxFaults = 1
INVARIANT LedgersAgree
CHECK_DEADLOCK FALSE
