\* The run semaphore: four runs on two permits.  The planner: all cron sets,
\* every grid and all at instants on 0..6, skipping by up to 3, a search
\* that gives up after 3 steps.
SPECIFICATION PartsSpec
CONSTANTS
    Parts = {"runs", "planner", "semaphore", "mutex", "jobs", "channel",
             "breaker", "bucket", "store", "locks", "flights", "loads"}
    Callers = {r1, r2, r3, r4}
    Limit = 2
    Horizon = 6
    SearchLimit = 3
    MaxSkip = 3
    Tolerance = 1
    Clients = {c1, c2, c3}
    MaxPermits = 3
    Needs = {1, 2, 3}
    MaxRaised = 1
    Lockers = {c1, c2, c3}
    Concurrency = 2
    MaxJobs = 5
    NumChannels = 2
    Capacity <- MCCapacity
    Receivers = {c1, c2}
    MaxSends = 3
    FailureThreshold = 2
    SuccessThreshold = 2
    CooldownMs = 2
    Calls = {c1, c2, c3}
    MaxForces = 1
    Takers = {c1, c2}
    Burst = 2
    Unit = 3
    Rate = 2
    Amounts = {1, 2}
    Timeouts = {0, 2, 99}
    Forever = 99
    MaxTime = 4
    CacheKeys = {k1, k2, k3}
    Nil = Nil
    MaxEntries = 2
    MaxSize = 3
    Sizes = {1, 2, 4}
    Ttls <- MCTtls
    Slidings = {0, 1}
    MaxChecks = 1
    LockKeys = {k1, k2}
    KeyCallers = {c1, c2, c3}
    FlightKeys = {k1, k2}
    LoadKeys = {k1}
    MaxFlights = 3
    LoadTtls = {0, 1}
    Stales <- MCStales
    MaxVersion = 3
INVARIANTS
    PermitsAreCounted
    PlannersAgree
    SlotsAreFair
    NoIdlePair
    TakersAreWaiters
    BucketIsExact
    FlightsAreShared
PROPERTIES
    WaiterServed
    NoOvertaking
    MutexIsSemaphore
    ChannelIsFifo
    KeepsItsTerms
    ClosesOnceHealthy
    CacheIsLru
    KeysAreMutexes
    ReadsNeverGoBack
CHECK_DEADLOCK FALSE
