\* Two overlays, either driving; one is started anew, one event comes twice.
SPECIFICATION Spec
CONSTANTS
  Overlays = {1, 2}
  LapHistory = 1
  Occurring = {"FuelTarget", "LapClosed"}
  Ties = FALSE
  MaxTime = 2
  MaxEvents = 3
  MaxReplays = 1
  MaxRebuilds = 1
INVARIANTS FieldsAreLatest LapsAreNewest
CHECK_DEADLOCK FALSE
