SPECIFICATION Spec
CONSTANTS
  Names = {g1}
  System = {}
  Tasks = {k1}
  Callers = {c1}
  MaxMoves = 4
INVARIANTS
  WriteAtMostOnce
  NoMissedStart
  FileAgrees
PROPERTIES
  SelfHeals
\* With every move made and nothing under way the registry rests.
CHECK_DEADLOCK FALSE
