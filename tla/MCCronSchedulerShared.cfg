\* Two engines of one process on one in-memory store, a cron trigger and a
\* trigger of executeNow, a global and a job semaphore, cancel and a job's
\* pause.
CONSTANTS
    o1 = o1
    o2 = o2
    f1 = f1
    f2 = f2
    f3 = f3
    d1 = d1
    d2 = d2
    j1 = j1
    j2 = j2
    NoOwner = NoOwner
    Owners = {o1, o2}
    Triggers = {1, 2}
    Jobs = {j1}
    Fibers = {f1, f2}
    Drains = {d1, d2}
    JobOf <- OneJob
    Kind <- CronAndAt
    Occ <- Mixed
    EndAt <- Endless
    SearchLimit = 3
    Policy <- Skipping
    Priority <- SamePriority
    MaxAttempts <- TwoAttempts
    Limit <- GlobalTwoJobOne
    MaxRuns = 4
    ListLimit = 100
    RetryDelay = 1
    TimeoutMs = 0
    LeaseMs = 100
    Tolerance = 0
    StalledAfter = 100
    MaxSkip = 3
    Remote = FALSE
    Ops = {"executeNow", "cancel", "pauseJob"}
    MaxOps = 2
    MaxTime = 2
SPECIFICATION Spec
SYMMETRY Symmetry
INVARIANTS
    NoOverlap
    QueuesHoldWaiters
PROPERTIES
    NothingTwice
CHECK_DEADLOCK FALSE
