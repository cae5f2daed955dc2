SPECIFICATION FairSpec
CONSTANTS
    p1 = p1
    p2 = p2
    r1 = r1
    r2 = r2
    r3 = r3
    c1 = c1
    NoRun = NoRun
    Aborted = Aborted
    Projects = {p1}
    Runs = {r1, r2}
    Cancels = {c1}
    ProjectOf <- MCProjectOf
    MaxMishaps = 1
INVARIANTS
    SerialUnlessRaced
    RowsAgree
PROPERTIES
    VerdictKept
    PassedHasEvidence
    RunEnds
CHECK_DEADLOCK FALSE
