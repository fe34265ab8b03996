SPECIFICATION Spec
CONSTANTS
  v1 = v1
  hourly = hourly
  daily = daily
  Services = {a}
  Versions = {v1}
  Crons = {hourly, daily}
  Configs <- MCConfigs
  Overrides = {v1}
  Clients = {c1}
  Ticks = 2
  Cap = 1
  MaxRuns = 3
  MaxKicks = 1
INVARIANTS
  RowsAreClosed
  ListenerIsServed
PROPERTIES
  SustainedBreach
  CancelledTickIsQuiet
  TicksEnd
