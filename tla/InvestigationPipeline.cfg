SPECIFICATION PipelineSpec
CONSTANTS
  m = m
  r = r
  q = q
  Subjects = {m, r, q}
  Texts = {t1, t2}
  Predictions <- MCPredictions
  Findings <- MCFindings
  MaxHypotheses = 3
  Yield = 1
  Rounds = 2
  MaxAttempts = 2
  MaxReexamine = 2
INVARIANTS
  WriteRunOnce
  UnavailableIsNotReported
  DeepModeTestsTheStanding
\* An investigation that has ended stays so.
CHECK_DEADLOCK FALSE
PROPERTIES
  InvestigationEnds
