SPECIFICATION PageFairSpec
CONSTANTS
    RunIds <- TwoRuns
    Owns <- BothOrOne
    MaxPolls = 1
    MaxWire = 2
    MaxLosses = 1
INVARIANTS ResultIsOfItsRun PageAgreesWithList
PROPERTY SettledRunLeaves
CHECK_DEADLOCK FALSE
