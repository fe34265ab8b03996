SPECIFICATION Spec
CONSTANTS
  Tabs = {t1}
  DeepMode = TRUE
  MaxRuns = 2
  MaxLog = 5
INVARIANTS
  AcceptedReportStays
