SPECIFICATION ScenarioSpec
CONSTANTS
  Runs = {r1, r2}
  NoRun = NoRun
  Phase <- MCPhase
  MaxAttempts = 1
  MaxPrep = 1
  MaxTools = 2
  MaxLosses = 1
INVARIANT OneRunShown
PROPERTY BusyEnds
