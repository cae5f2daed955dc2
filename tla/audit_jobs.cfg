SPECIFICATION Spec
CONSTANTS
  Jobs = {j1, j2}
  NoJob = NoJob
  j1 = j1
  j2 = j2
  PageJobs = {j2}
  m1 = m1
  m2 = m2
  Modules = {m1, m2}
  NoModule = NoModule
  Profile <- MCProfile
  Prompts = 2
  MaxChain = 1
  MaxMishaps = 1
INVARIANTS CompletedIsMerged RepliesAreOwn
PROPERTIES CancelledNeverCompletes AuditEnds
CHECK_DEADLOCK FALSE
