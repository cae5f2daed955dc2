SPECIFICATION FairSpec
CONSTANTS
  s1 = s1
  s2 = s2
  p1 = p1
  p2 = p2

  Sessions = {s1, s2}
  Projects = {p1, p2}
  Modules = {m1}
  Asked <- MCAsked
  Stoppers = {x1}
  Editors = {e1}
  Cleaner = timer
  None = none
  MaxGlobal = 1
  MaxPerProject = 1
  MaxMishaps = 1
INVARIANTS SessionsAccounted RecordedStageHasFile
PROPERTY IdleSessionsStop
CHECK_DEADLOCK FALSE
