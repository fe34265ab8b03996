\* The buffer's 2000 and 1500 messages, scaled to the length of a run.
CONSTANTS
  Cap = 3
  Keep = 2
  MaxRuns = 1
  MaxSteps = 2
  MaxStalls = 1
  MaxAbsences = 1
SPECIFICATION BrowserSpec
INVARIANT AttachedTabShowsTheRun
PROPERTY StepsOnlyGrow
\* A run ends and the page is left.
CHECK_DEADLOCK FALSE
