SPECIFICATION Spec
CONSTANTS
    None = None
    StoppedConfirm = 2
    MinStop = 3
    BlindTolerance = 1
    ReturnGrace = 4
    MinFuelStintLaps = 1
    StintSamples = 1
    Service = 4
    PitLoss = 4
    MaxPos = 3
    MaxLap = 1
    Worlds <- MCWorlds
INVARIANTS
    BooksBalanced
    NoVisitCountedTwice
    WitnessedStopsSettle
PROPERTIES
    ConfirmedStopEndsStint
    SettledRangeSpansNoStop
    SeenServiceIsStanding
CHECK_DEADLOCK FALSE
