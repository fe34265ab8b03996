SPECIFICATION Spec
CONSTANTS
  Services = {a, b}
  MaxConcurrent = 1
  Window = 2
  Cooldown = 2
  MaxJobs = 3
  MaxTime = 3
INVARIANTS
  CountIsHonest
  AutomaticLimit
  RowsFollowRuns
PROPERTIES
  OncePerWindow
