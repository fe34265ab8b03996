SPECIFICATION Spec
CONSTANTS
  Services = {a}
  Readings <- MCReadings
  MaxInFlight = 2
INVARIANTS
  FeedIsCurrent
PROPERTIES
  OnlyWatchedIsInvestigated
  CacheCatchesUp
