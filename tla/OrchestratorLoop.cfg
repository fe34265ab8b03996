SPECIFICATION Spec
CONSTANTS
  Services = {svcA, svcB}
  Dependencies = {svcA}
  Hooks = {"operator", "subagent", "healthy", "failing"}
  MaxMoves = 5
  MaxStall = 2
  MaxStrikes = 2
  MaxToolCalls = 2
  MaxSubagents = 1
  MaxTokens = 2
  MaxMoveCost = 1
  MaxContinues = 1
  BailQueries = 1
  RecheckQueries = 1
  MaxHyps = 1
CHECK_DEADLOCK FALSE
INVARIANTS
  ConfirmedIsGrounded
  SpendingBounded
  AbortEndsWithinOneMove
PROPERTIES
  Termination
