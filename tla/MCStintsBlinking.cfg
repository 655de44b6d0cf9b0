SPECIFICATION Spec
CONSTANTS
    None = None
    StoppedConfirm = 2
    MinStop = 3
    BlindTolerance = 1
    ReturnGrace = 4
    MinFuelStintLaps = 1
    StintSamples = 1
    Service = 4
    PitLoss = 4
    MaxPos = 3
    MaxLap = 2
    Worlds <- MCBlinking
PROPERTY
    ServiceIsStanding
CHECK_DEADLOCK FALSE
