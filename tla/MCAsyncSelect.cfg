\* One receiver, one value on each of two channels.
SPECIFICATION PartsSpec
CONSTANTS
    SearchLimit = 3
    Parts = {"channel"}
    Callers = {c1}
    Limit = 1
    Horizon = 1
    MaxSkip = 1
    Tolerance = 1
    Clients = {c1}
    MaxPermits = 1
    Needs = {1}
    MaxRaised = 0
    Lockers = {c1}
    Concurrency = 1
    MaxJobs = 1
    NumChannels = 2
    Capacity <- MCCapacity
    Receivers = {c1}
    MaxSends = 1
    FailureThreshold = 2
    SuccessThreshold = 2
    CooldownMs = 2
    Calls = {c1}
    MaxForces = 1
    Takers = {c1}
    Burst = 2
    Unit = 3
    Rate = 2
    Amounts = {1, 2}
    Timeouts = {0, 2, 99}
    Forever = 99
    MaxTime = 4
    CacheKeys = {k1}
    Nil = Nil
    MaxEntries = 2
    MaxSize = 3
    Sizes = {1, 2, 4}
    Ttls <- MCTtls
    Slidings = {0, 1}
    MaxChecks = 1
    LockKeys = {k1}
    KeyCallers = {c1}
    FlightKeys = {k1}
    LoadKeys = {k1}
    MaxFlights = 3
    LoadTtls = {0, 1}
    Stales <- MCStales
    MaxVersion = 3
INVARIANTS
    SelectKeepsOthers
CHECK_DEADLOCK FALSE
