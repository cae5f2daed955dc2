SPECIFICATION DashboardFairSpec
CONSTANTS
    MaxRuns = 2
    Clicks <- AllClicks
    MaxReconnects = 1
    MaxEvents = 2
INVARIANT ListensToItsRun
PROPERTY WatchEnds
CHECK_DEADLOCK FALSE
