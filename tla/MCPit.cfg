\* The driver and one crew member, two requests to untick one corner.
SPECIFICATION Spec
CONSTANTS
  Corners = {"LF", "RF"}
  Asks <- Untick
  Policy = "take"
  WriteMaxAge = 1
  QueueLife = 1
  SnapshotStale = 2
  MaxClock = 3
  MaxAsked = 2
INVARIANTS NeverLate NeverAcrossPhases CarriedOut
CHECK_DEADLOCK FALSE
