CONSTANTS
  Cap = 3
  Keep = 2
  MaxRuns = 1
  MaxSteps = 1
  MaxStalls = 1
  MaxAbsences = 1
SPECIFICATION BrowserSpec
INVARIANT DecidedPauseIsLocked
\* A run ends and the page is left.
CHECK_DEADLOCK FALSE
