SPECIFICATION Spec
CONSTANTS
  Tabs = {t1, t2}
  DeepMode = TRUE
  MaxRuns = 2
  MaxLog = 6
SYMMETRY Symmetry
INVARIANTS
  ConclusionIsMarked
  WasIsEarlier
  NotesAreOfItsRun
