SPECIFICATION Spec
CONSTANTS
  Services = {a}
  Channels = {slack, email}
  ConsensusRuns = 2
  RemovalRuns = 3
  MaxRuns = 5
  MaxVersions = 2
INVARIANTS
  QualifiedByConsensus
  DismissedIsQuiet
PROPERTIES
  ToldUntilHeard
