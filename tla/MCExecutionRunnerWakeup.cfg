\* One handler at a time, so that no two race; nothing crashes.
SPECIFICATION FairSpec
CONSTANTS
    h1 = h1
    h2 = h2
    Handler = {h1}
    MaxRuns = 2
    MaxCrashes = 0
PROPERTIES
    DecisionsAreActedOn
\* An execution ends.
CHECK_DEADLOCK FALSE
