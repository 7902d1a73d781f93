\* A process that dies and starts again over an embedded durable store, its
\* jobs' timeout below the lease and the stall threshold.
CONSTANTS
    o1 = o1
    o2 = o2
    f1 = f1
    f2 = f2
    f3 = f3
    d1 = d1
    d2 = d2
    j1 = j1
    j2 = j2
    NoOwner = NoOwner
    Owners = {o1}
    Triggers = {1}
    Jobs = {j1}
    Fibers = {f1, f2}
    Drains = {d1}
    JobOf <- OneJob
    Kind <- AllCron
    Occ <- Sparse
    EndAt <- Endless
    SearchLimit = 6
    Policy <- Firing
    Priority <- SamePriority
    MaxAttempts <- TwoAttempts
    Limit <- Unlimited
    MaxRuns = 8
    ListLimit = 100
    RetryDelay = 1
    TimeoutMs = 1
    LeaseMs = 2
    Tolerance = 1
    StalledAfter = 1
    MaxSkip = 3
    Remote = FALSE
    Ops = {"crash", "stray", "touch"}
    MaxOps = 2
    MaxTime = 7
SPECIFICATION FairSpec
INVARIANTS
    NoOverlap
PROPERTIES
    DueIsServed
CHECK_DEADLOCK FALSE
