\* Three cars, two of them in one class; a lap of qualifying and two of race, one of them lost from view or from the world.
SPECIFICATION Spec
CONSTANTS
  Cars = {1, 2, 3}
  Class <- Classes
  Steps = 1
  Times = {1, 2}
  MaxLaps <- Laps
  MaxUpsets = 1
INVARIANTS EveryCarHasItsRow TeamSeesOneOrder LapsDownAreReal
CHECK_DEADLOCK FALSE
