SPECIFICATION Spec
CONSTANTS
    Node <- MCNode
    Workflows <- MCFanIn
    MaxAttempts = 1
    MaxConcurrent = 2
    MaxAgentSteps = 1
    MaxSteps = 6
    MaxCrashes = 1
    MaxResumes = 1
INVARIANTS
    NothingLeftBehind
CHECK_DEADLOCK FALSE
