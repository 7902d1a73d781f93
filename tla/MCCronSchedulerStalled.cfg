\* Calls of a client, with handlers that hang and come back late,
\* heartbeats, the monitor, and a trigger that runs out of occurrences.
CONSTANTS
    o1 = o1
    o2 = o2
    f1 = f1
    f2 = f2
    f3 = f3
    d1 = d1
    d2 = d2
    j1 = j1
    j2 = j2
    NoOwner = NoOwner
    Owners = {o1}
    Triggers = {1}
    Jobs = {j1}
    Fibers = {f1, f2}
    Drains = {d1}
    JobOf <- OneJob
    Kind <- AllCron
    Occ <- Brief
    EndAt <- Four
    SearchLimit = 2
    Policy <- Firing
    Priority <- SamePriority
    MaxAttempts <- TwoAttempts
    Limit <- GlobalOne
    MaxRuns = 7
    ListLimit = 100
    RetryDelay = 0
    TimeoutMs = 0
    LeaseMs = 100
    Tolerance = 1
    StalledAfter = 1
    MaxSkip = 3
    Remote = FALSE
    Ops = {"touch", "unregister", "cancel", "shutdown", "reschedule"}
    MaxOps = 1
    MaxTime = 3
SPECIFICATION HangingSpec

    
PROPERTIES
    PermitsConserved
    
    StoppedWindsDown
CHECK_DEADLOCK FALSE
