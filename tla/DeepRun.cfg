SPECIFICATION Spec
CONSTANTS
  Conns = {c1, c2}
  ParkIdle = 2
  Grace = 1
  MaxRuns = 2
  MaxContinues = 1
  Leads = {lead}
INVARIANTS
  LiveEntryIsTheRun
  PauseIsTheLoops
  ParkedRunHasNoViewer
  AttachedViewerIsCurrent
  SteerIsOnRecord
PROPERTIES
  ImplementsLifecycle
  StopEndsTheRun
  HeadlessRunSettles
