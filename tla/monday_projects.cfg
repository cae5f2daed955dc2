SPECIFICATION FairSpec
CONSTANTS
  Projects = {p1}
  Sources <- MCSources
  Given <- MCGiven
  Clicks = {c1, c2}
  Editors = {e1}
  None = none
  MaxPolls = 2
  MaxChanges = 1
  MaxMishaps = 1
INVARIANTS ReadyIsConfigured ReadyIsWhole
PROPERTY CloneSettles
CHECK_DEADLOCK FALSE
