\* A tank of two litres, a race of two and a half laps, two presses, lapses of telemetry, switches or swaps.
SPECIFICATION AutoFuelSpec
CONSTANTS
  Litre = 2
  Steps = 2
  Size = 4
  Margin = 1
  Pump = 1
  Gain = 2
  Interval = 2
  Stale = 2
  Patience = 2
  Error <- InLap
  MaxLeft = 5
  MaxCrawl = 2
  MaxIdle = 0
  MaxUpsets = 2
INVARIANTS TankMeetsTarget NothingAfterService VerdictIsOfThisVisit EdgeIsWhereRigStops
CHECK_DEADLOCK FALSE
