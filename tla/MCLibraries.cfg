SPECIFICATION LibSpec
CONSTANTS
    Parts = {"builders", "drafts", "graphs", "evaluator", "specifications", "patterns",
             "schemas", "validator", "pool", "memo", "bus", "timers", "heap", "scopes",
             "retries", "calendar", "topics", "limiter", "dsl", "results"}
    Operators <- MCOperators
    Operands <- MCOperands
    BuilderMethods = {"plus"}
    Settings <- MCSettings
    Malformed = {"+"}
    MaxDrafts = 2
    MaxBuilt = 1
    MaxPushed = 2
    MaxArrays = 3
    MaxNow = 2
    Expressions <- MCExpressions
    Unknown = {"q"}
    MaxCompiled = 1
    MaxCompiles = 3
    MaxEvaluations = 2
    Trees <- MCTrees
    Values <- MCValues
    Asked <- MCAsked
    Plugins = {"q"}
    MaxRuns = 2
    Clauses <- MCClauses
    Inputs <- MCInputs
    Lazies <- MCLazies
    Spreadable = {"rest"}
    MaxClauses = 2
    TypeNames = {"object"}
    MaxHolders = 2
    SchemaTypes = {"t", "u"}
    Good = {"v1", "v2"}
    Bad = {"bad"}
    MaxCalls = 2
    PoolKeys = {"a", "b", "c"}
    PoolEntries = 2
    PoolSize = 3
    PoolSizes = {1, 2}
    PoolTtls <- MCPoolTtls
    PoolSlidings = {0, 1}
    MemoTtls = {0, 1, 2}
    MemoSlidings = {0, 1}
    MemoStales = {0, 1}
    MaxMemo = 3
    Events = {"e", "*"}
    Plain = {"a", "b"}
    Onces = {"o"}
    MaxBuckets = 2
    MaxHandles = 3
    MaxHeard = 3
    Wait = 2
    MaxWaits <- MCMaxWaits
    MaxAge = 5
    HeapKinds = {"heap", "unbounded", "bounded"}
    Priorities = {1, 2, 3, 4}
    MaxHeap = 7
    MaxFinalizers = 4
    Tasks = 3
    Concurrency = 2
    Retries = 3
    MaxAttempts = 4
    MaxDay = 500
    DayHours = 2
    Months <- MCMonths
    Rules <- MCRules
    Afters = {0, 3, 4, 6, 7, 20, 60, 100, 120, 160}
    SearchDays = 40
    MaxNexts = 3
    Bindings <- MCBindings
    Routings <- MCRoutings
    Topics <- MCTopics
    Tables <- MCTables
    MaxBytes = 7
    Capacity = 4
    Bursts = {0, 3, 6}
    RefillRates = {1, 3}
    RefillInterval = 2
    Cost = 2
    LimiterEnd = 7
    MaxTakes = 5
    Documents <- MCDocuments
    Paths <- MCPaths
    Compared <- MCCompared
    BadPatterns <- MCBadPatterns
    DslKinds = {"eq", "in"}
    SpecIds = {"s"}
    Payloads = {"x", "y"}
    Codes = {"c", "d"}
INVARIANTS
    ExpressionsAreSound
    AnswersAreOwn
    SpecificationsAreSound
    MatchesAreMeant
    SchemasAreKept
    StructuresAreSound
    EveryoneHears
    WrappersAreExact
    PlannerIsSound
CHECK_DEADLOCK FALSE
