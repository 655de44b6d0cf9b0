\* A stand-alone relay that is restarted, a driver and a spectator.
SPECIFICATION FairSpec
CONSTANTS
  Members = {2, 3}
  Producers = {2}
  MaxEventsPerProducer = 5
  ChunkEvents = 1
  MaxConns = 4
  MaxObserved = 2
  Host = 1
  Crashable = {1}
  Lingering = TRUE
  MaxFaults = 1
INVARIANT LiveAtMostOnce
PROPERTIES ImplementsLog Convergence
CHECK_DEADLOCK FALSE
