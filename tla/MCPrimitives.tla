---------------------------- MODULE MCPrimitives ----------------------------
(***************************************************************************)
(* The primitives of the cron engine, shareds/async and shareds/cache on   *)
(* small instances.  They share no state: a behaviour exercises the one    *)
(* that `part` names, and the others keep their initial states.            *)
(*                                                                         *)
(* The planner's closed forms are compared with the loops of the code over *)
(* every set of occurrences on a short calendar: a state is one call, and  *)
(* the steps move `after` the way the scheduler does, to what it returned. *)
(***************************************************************************)
EXTENDS CronSemaphore, CronPlan, AsyncSemaphore, AsyncMutex, JobQueue, Channel,
        CircuitBreaker, TokenBucket, LruTtlCache, KeyedLock, LoadingCache

CONSTANTS
    Parts,       \* the parts to exercise
    Horizon,     \* bound: instants are 0..Horizon
    MaxSkip,     \* MAX_MISFIRE_SKIP
    Tolerance    \* misfireToleranceMs

VARIABLES part, kind, occ, endAt, after

planVars == <<kind, occ, endAt, after>>
loadingVars == <<source, stored, loads, answered>>

MCCapacity == <<1, 0>>
MCTtls == {Never, 1}
MCStales == {NoStale, 1}

\* every: anchor and interval; at: runAt.  All of them stop at Horizon.
EveryOcc == {Grid(a, i, Horizon) : a \in 0..Horizon, i \in 1..Horizon}

\* endAt: beyond every search, or among the occurrences.
Ends == {Horizon - 2, Horizon, 2 * Horizon}

Plans ==
    {[kind |-> "cron", occ |-> S] : S \in SUBSET (0..Horizon)}
    \cup {[kind |-> "every", occ |-> S] : S \in EveryOcc}
    \cup {[kind |-> "at", occ |-> {r}] : r \in 0..Horizon}

\* A run at `after` completes and the scheduler asks for the next one.
PlannerNext ==
    /\ PlanNext(kind, occ, endAt, after) \in Nat
    /\ after' = PlanNext(kind, occ, endAt, after)
    /\ UNCHANGED <<kind, occ, endAt>>

----------------------------------------------------------------------------
PartsInit ==
    /\ part \in Parts
    /\ Init /\ SemInit /\ MutexInit /\ ChanInit /\ BreakerInit /\ BucketInit
    /\ JobInit /\ (part # "jobs" => throwers = {})
    /\ CacheInit /\ KeyedInit
    /\ IF part = "planner"
       THEN /\ \E p \in Plans : kind = p.kind /\ occ = p.occ
            /\ endAt \in Ends
            /\ after \in 0..Horizon
       ELSE kind = "cron" /\ occ = {} /\ endAt = 0 /\ after = 0
    /\ IF part = "flights"
       THEN /\ FlightInit
            /\ source = [k \in FlightKeys |-> 1]
            /\ stored = [k \in FlightKeys |-> Absent]
            /\ loads = <<>>
            /\ answered = [k \in FlightKeys |-> 0]
       ELSE LoadInit

\* The parts that are not p keep still.
Others(p) ==
    /\ UNCHANGED part
    /\ part = p
    /\ IF p = "runs" THEN TRUE ELSE UNCHANGED vars
    /\ IF p = "planner" THEN TRUE ELSE UNCHANGED planVars
    /\ IF p = "semaphore" THEN TRUE ELSE UNCHANGED semVars
    /\ IF p = "mutex" THEN TRUE ELSE UNCHANGED mutexVars
    /\ IF p = "jobs" THEN TRUE ELSE UNCHANGED jobVars
    /\ IF p = "channel" THEN TRUE ELSE UNCHANGED chanVars
    /\ IF p = "breaker" THEN TRUE ELSE UNCHANGED breakerVars
    /\ IF p = "bucket" THEN TRUE ELSE UNCHANGED bucketVars
    /\ IF p = "store" THEN TRUE ELSE UNCHANGED cache
    /\ IF p = "locks" THEN TRUE ELSE UNCHANGED keyedVars
    /\ IF p \in {"flights", "loads"} THEN TRUE ELSE UNCHANGED loadVars

PartsNext ==
    \/ Others("runs") /\ Next
    \/ Others("planner") /\ PlannerNext
    \/ Others("semaphore") /\ SemNext
    \/ Others("mutex") /\ MutexNext
    \/ Others("jobs") /\ JobNext
    \/ Others("channel") /\ ChanNext
    \/ Others("breaker") /\ BreakerNext
    \/ Others("bucket") /\ BucketNext
    \/ Others("store") /\ CacheNext
    \/ Others("locks") /\ KeyedNext
    \/ Others("flights") /\ FlightNext /\ UNCHANGED loadingVars
    \/ Others("loads") /\ LoadNext

\* Fairness is assumed of the part that a behaviour exercises.
PartsSpec ==
    /\ PartsInit
    /\ [][PartsNext]_<<part, vars, planVars, semVars, mutexVars, jobVars, chanVars,
                       breakerVars, bucketVars, cache, keyedVars, loadVars>>
    /\ part = "runs" => Fairness
    /\ part = "breaker" => BreakerFairness /\ WF_breakerVars(BreakerCall)

----------------------------------------------------------------------------
\* The search of a cron plan, which may give up, and the closed forms that the
\* scheduler's model uses.
SearchIsFirst ==
    kind = "cron" => CronSearch(occ, endAt, after) = NextMatch(occ, endAt, after)

SkipToIsLoop ==
    \A until \in after..Horizon :
        SkipTo(kind, occ, endAt, after, until, Tolerance, MaxSkip)
            = SkipLoop(kind, occ, endAt, after, until, Tolerance, MaxSkip)

\* every.ts computes with a ceiling the first instant of its grid that is
\* not before `after`, and at.ts yields runAt until it has passed.
ArithmeticIsFirst ==
    /\ \A a \in 0..Horizon, i \in 1..Horizon :
        NextEvery(a, i, Horizon, after)
            = PlanNext("every", Grid(a, i, Horizon), Horizon, after)
    /\ \A r, e \in 0..Horizon : NextAt(r, e, after) = PlanNext("at", {r}, e, after)

\* All of it: a cron plan answers with its first match within the search's
\* limit, with none once endAt is behind, and throws otherwise; every and at
\* answer with the first instant that is not before the given one; and skipping
\* the overdue occurrences stops where the loop of the code stops, or throws.
PlannersAgree == part = "planner" => SearchIsFirst /\ SkipToIsLoop /\ ArithmeticIsFirst
=============================================================================
