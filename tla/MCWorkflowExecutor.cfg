SPECIFICATION FairSpec
CONSTANTS
    Node <- MCNode
    Workflows <- MCWorkflows
    MaxAttempts = 2
    MaxConcurrent = 2
    MaxAgentSteps = 1
    MaxSteps = 6
    MaxCrashes = 1
    MaxResumes = 2
INVARIANTS
    InputsAreDurable
    DeadPathsDoNotRun
    NothingPassesAGate
    OvershootIsBounded
    DispatchesAreBounded
    CrashFreeSuccessIsComplete
PROPERTIES
    ImplementsDurableExecution
    RunsEnd
CHECK_DEADLOCK FALSE
