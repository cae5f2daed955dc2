SPECIFICATION FilesSpec
CONSTANTS
  j1 = j1
  j2 = j2
  q1 = q1
  q2 = q2

  Ids = {j1, j2}
  Requests = {q1, q2}
  Asks = {"resume", "execute", "edit", "cancel"}
  ResumeFrom = {"setDesigner", "choreographer", "assistantDirector", "continuityLead"}
  Slots = {s1, s2}
  MaxFaults = 1
INVARIANTS Coherent OutputsStored
PROPERTY PartialKeepsOthers
CONSTRAINT CanTell
SYMMETRY Symmetry
CHECK_DEADLOCK FALSE
