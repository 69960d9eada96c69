\* The event stream and coordination.
SPECIFICATION RedisSpec
CONSTANTS
    e1 = e1  e2 = e2  v1 = v1
    Emitter = {e1, e2}
    Viewer = {v1}
    Cap = 1
    MaxEvents = 3
    MaxRuns = 2
    MaxFaults = 2
    w1 = w1  w2 = w2  t1 = t1  t2 = t2  t3 = t3
    NoOwner = NoOwner
    Worker = {w1, w2}
    Task = {t1, t2, t3}
    Limit = 2
    LockTtl = 2
    SlotTtl = 2
INVARIANTS
    NumbersContinue
    NothingIsSkipped
    LeaseIsExclusive
    OnlyALapseOverAdmits
PROPERTIES
    LateConnectionsClose
    LeaksHeal
\* An execution ends, and so does the bounded number of faults.
CHECK_DEADLOCK FALSE
