SPECIFICATION Spec
CONSTANTS
    r1 = r1
    r2 = r2
    q1 = q1
    q2 = q2
    q3 = q3
    p1 = p1
    NoRun = NoRun
    Runs = {r1, r2}
    Requests = {q1, q2}
    Pollers = {p1}
    Ops = {"start", "execute", "resume", "cancel"}
    MaxRetries = 1
    MaxMishaps = 1
SYMMETRY Symmetry
INVARIANTS
    OneWorkflowAtATime
    RunningIsRepaired
    StaleQueriesHarmless
CHECK_DEADLOCK FALSE
