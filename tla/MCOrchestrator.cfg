SPECIFICATION FairSpec
CONSTANTS
    Node <- MCNode
    Final <- MCFinal
    Plans <- MCPlans
    ApprovalAction = {spend}
    MaxTurns = 3
    DefaultTurns = 2
    MaxReplans = 1
    MaxCrashes = 1
    MaxResumes = 1
INVARIANTS
    OnlyTheWindowStrands
    RoundsAreOrdered
    GraphIsSound
    PauseCanBeAnswered
PROPERTIES
    RunsEnd
CHECK_DEADLOCK FALSE
