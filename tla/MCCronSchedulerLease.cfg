\* A run longer than the lease is executed by a second process.
CONSTANTS
    o1 = o1
    o2 = o2
    f1 = f1
    f2 = f2
    f3 = f3
    d1 = d1
    d2 = d2
    j1 = j1
    j2 = j2
    NoOwner = NoOwner
    Owners = {o1, o2}
    Triggers = {1}
    Jobs = {j1}
    Fibers = {f1, f2}
    Drains = {d1, d2}
    JobOf <- OneJob
    Kind <- AllCron
    Occ <- Staggered
    EndAt <- StaggeredEnd
    SearchLimit = 3
    Policy <- Firing
    Priority <- SamePriority
    MaxAttempts <- TwoAttempts
    Limit <- Unlimited
    MaxRuns = 5
    ListLimit = 100
    RetryDelay = 1
    TimeoutMs = 0
    LeaseMs = 1
    Tolerance = 1
    StalledAfter = 100
    MaxSkip = 3
    Remote = TRUE
    Ops = {}
    MaxOps = 0
    MaxTime = 4
SPECIFICATION Spec
INVARIANTS
    NoOverlap
CHECK_DEADLOCK FALSE
