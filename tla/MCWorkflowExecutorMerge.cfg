SPECIFICATION Spec
CONSTANTS
    Node <- MCNode
    Workflows <- MCMerge
    MaxAttempts = 1
    MaxConcurrent = 2
    MaxAgentSteps = 1
    MaxSteps = 6
    MaxCrashes = 0
    MaxResumes = 0
INVARIANTS
    UntakenPathsDoNotRun
CHECK_DEADLOCK FALSE
