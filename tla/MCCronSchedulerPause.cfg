\* A run that ends after handle.pause() undoes it.
CONSTANTS
    o1 = o1
    o2 = o2
    f1 = f1
    f2 = f2
    f3 = f3
    d1 = d1
    d2 = d2
    j1 = j1
    j2 = j2
    NoOwner = NoOwner
    Owners = {o1}
    Triggers = {1}
    Jobs = {j1}
    Fibers = {f1, f2}
    Drains = {d1, d2}
    JobOf <- OneJob
    Kind <- AllCron
    Occ <- Staggered
    EndAt <- StaggeredEnd
    SearchLimit = 3
    Policy <- Firing
    Priority <- SamePriority
    MaxAttempts <- TwoAttempts
    Limit <- Unlimited
    MaxRuns = 5
    ListLimit = 100
    RetryDelay = 1
    TimeoutMs = 0
    LeaseMs = 100
    Tolerance = 1
    StalledAfter = 100
    MaxSkip = 3
    Remote = FALSE
    Ops = {"pause"}
    MaxOps = 1
    MaxTime = 4
SPECIFICATION Spec
PROPERTIES
    PauseSticks
CHECK_DEADLOCK FALSE
