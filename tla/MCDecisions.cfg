\* The supervisor's turns, model routing, conditions and remote tools.
INIT Init
NEXT Next
CONSTANTS
    MaxParallel = 3
    MaxTurns = 4
    MaxReplies = 1
    MaxFailures = 1
    MaxEdits = 1
    Unregistered = {5}
    Edited = {5, 7}
    MaxPathDepth = 3
    None = None  NoQuestion = NoQuestion
    Task <- MCTask  Gap <- MCGap  Reply <- MCReply
    Request <- MCRequest
    Value <- MCValue  Context <- MCContext  Path <- MCPath  Expected <- MCExpected
    Remote <- MCRemote  Slug <- MCSlug
    Caller = {c1, c2}
    Startup = Startup
    Argument = {x, y}
    MaxRequests = 5
    MaxStrays = 1
INVARIANTS
    TurnsArePaidFor
    BranchesPartition
    AnswersAreOwn
PROPERTIES
    DecisionsCanBeCarriedOut
    ConnectingOnlyHelps
\* An execution ends.
CHECK_DEADLOCK FALSE
