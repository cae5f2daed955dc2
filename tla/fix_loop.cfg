SPECIFICATION Spec
CONSTANTS
  s1 = s1
  p1 = p1
  p2 = p2

  Analyses = {s1}
  Patches = {p1, p2}
  FileOf <- MCFileOf
  PatchesOf <- MCPatchesOf
  Breaks <- MCBreaks
  Calls = {c1, c2}
  Verifies = {v1}
  Original = r0
  NoRun = NoRun
  MaxIterations = 2
  MaxPolls = 1
  MaxCrashes = 1
INVARIANTS HistoryExplainsFiles ResultIsVerdict
PROPERTIES ImplementsLog VerdictRecorded
CHECK_DEADLOCK FALSE
