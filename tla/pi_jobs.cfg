SPECIFICATION FairSpec
CONSTANTS
    j1 = j1
    j2 = j2
    j3 = j3
    c1 = c1
    c2 = c2
    NoJob = NoJob
    Jobs = {j1, j2}
    Cancels = {c1, c2}
    TypeOf <- MCTypeOf
    MaxMishaps = 2
INVARIANTS
    OneWorkerPerType
    AgentIsWanted
    GeneratingHasCause
PROPERTIES
    CancelSticks
    JobEnds
CHECK_DEADLOCK FALSE
