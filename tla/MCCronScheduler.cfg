\* One engine on its in-memory store: two jobs' triggers under the global
\* semaphore, with retries, misfires, pauseAll and shutdown.
CONSTANTS
    o1 = o1
    o2 = o2
    f1 = f1
    f2 = f2
    f3 = f3
    d1 = d1
    d2 = d2
    j1 = j1
    j2 = j2
    NoOwner = NoOwner
    Owners = {o1}
    Triggers = {1, 2}
    Jobs = {j1, j2}
    Fibers = {f1, f2, f3}
    Drains = {d1, d2}
    JobOf <- TwoJobs
    Kind <- AllCron
    Occ <- Staggered
    EndAt <- StaggeredEnd
    SearchLimit = 3
    Policy <- Skipping
    Priority <- SamePriority
    MaxAttempts <- TwoAttempts
    Limit <- GlobalOne
    MaxRuns = 5
    ListLimit = 100
    RetryDelay = 1
    TimeoutMs = 0
    LeaseMs = 100
    Tolerance = 1
    StalledAfter = 100
    MaxSkip = 3
    Remote = FALSE
    Ops = {"pauseAll", "shutdown"}
    MaxOps = 2
    MaxTime = 4
SPECIFICATION Spec
SYMMETRY Symmetry
INVARIANTS
    RunHoldsLease
PROPERTIES
    LoopAlive
CHECK_DEADLOCK FALSE
