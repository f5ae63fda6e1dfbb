CONSTANTS
  TimecodeScale = 2
  MaxBlockTimecode = 4
  MaxClusterDuration = 4
  Extras = 0
  Steps <- MCSteps
  MaxCalls = 5
  MaxFiles = 2
  Failing = TRUE
  Deleting = TRUE
SPECIFICATION Spec
INVARIANTS FrozenPicture SavedIsWritten FinishedIsComplete
CHECK_DEADLOCK FALSE
