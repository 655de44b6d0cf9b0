\* Laps of two sectors, a window of two laps, one row missing or one departure of the driver.
SPECIFICATION Spec
CONSTANTS
  Sectors = 2
  Burns = {1, 2}
  Fills = {3}
  Window = 2
  Full = 9
  MaxLap = 4
  MaxSlow = 1
  MaxUpsets = 1
  MaxHitch = 2
INVARIANTS PlanFromWholeLaps PlanCoversLastLap RecordsFromWholeLaps LiveFromTheLine
CHECK_DEADLOCK FALSE
