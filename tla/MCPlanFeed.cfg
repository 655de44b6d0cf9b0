\* Two plans, two rooms; with ticks of fifteen seconds POLL is two and STALE six, as in the code.
SPECIFICATION FairSpec
CONSTANTS
  Rooms <- Both
  Fitting <- Both
  Views <- SomeViews
  Plans = {"p1", "p2"}
  Team <- TeamOf
  Poll = 2
  Stale = 6
  NoView = NoView
  NoPlan = NoPlan
  MaxEvents = 4
INVARIANTS ShownWasLookedUp CurrentMeansCurrent
PROPERTIES PoliteRefresh LookupSettles
CHECK_DEADLOCK FALSE
