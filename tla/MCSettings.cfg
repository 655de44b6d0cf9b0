\* One overlay, started twice at most, and --bind once.
SPECIFICATION FairSpec
CONSTANTS
  PageBinds <- FromPage
  CliBinds <- FromCli
  Chosen = {2}
  MaxEdits = 2
  MaxCaptures = 1
  MaxStarts = 2
  MaxFaults = 1
INVARIANTS FileIsTruth PendingEditsSurvive
PROPERTIES DamagedFileKept EditsReachDisk BindsReachOverlay
CHECK_DEADLOCK FALSE
