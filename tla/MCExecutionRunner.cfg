SPECIFICATION FairSpec
CONSTANTS
    h1 = h1
    h2 = h2
    Handler <- MCHandler
    MaxRuns = 3
    MaxCrashes = 1
INVARIANTS
    TableIsRightUnlessRaced
PROPERTIES
    EndIsFinalUnlessRaced
    DecisionsAreTakenUp
CHECK_DEADLOCK FALSE
