-------------------------- MODULE CircuitBreaker --------------------------
(***************************************************************************)
(* CircuitBreaker and withCircuitBreaker of shareds/async/src/try/         *)
(* circuit-breaker.ts, with calls in flight: allow() is asked before the   *)
(* function runs and success() or fail() is told when it ends, however     *)
(* much the breaker has changed in between.                                *)
(*                                                                         *)
(* The code compares the clock with nextAttemptAt only; `cooldown` is      *)
(* their distance, 0 once the time has come.  A clock that is set back is  *)
(* not modelled.  consecutiveFail is only compared with the threshold, and *)
(* counts no further than it here.                                         *)
(***************************************************************************)
EXTENDS Integers, FiniteSets

CONSTANTS
    FailureThreshold,   \* failureThreshold
    SuccessThreshold,   \* successThreshold
    CooldownMs,         \* cooldownMs, in ticks of the clock
    Calls,              \* bound: the calls that may be in flight together
    MaxForces           \* bound: forceOpen() and forceClose() calls

ASSUME BreakerAssumption ==
    /\ FailureThreshold \in Nat \ {0}
    /\ SuccessThreshold \in Nat \ {0}
    /\ CooldownMs \in Nat \ {0}
    /\ MaxForces \in Nat

VARIABLES
    breaker,            \* CircuitBreaker.state
    consecutiveFail,    \* CircuitBreaker.consecutiveFail
    halfOpenSuccess,    \* CircuitBreaker.halfOpenSuccess
    cooldown,           \* nextAttemptAt - clock(), 0 when not positive
    inFlight,           \* the calls that were let through and have not ended
    rest,               \* history: ticks for which no call may start, counted
                        \* from the last failure that tripped the breaker
    forces,             \* calls of forceOpen and forceClose so far
    healthy             \* environment: the wrapped function no longer fails

breakerVars ==
    <<breaker, consecutiveFail, halfOpenSuccess, cooldown, inFlight, rest,
      forces, healthy>>

BreakerTypeOK ==
    /\ breaker \in {"closed", "open", "half-open"}
    /\ consecutiveFail \in 0..FailureThreshold
    /\ halfOpenSuccess \in 0..SuccessThreshold
    /\ cooldown \in 0..CooldownMs
    /\ inFlight \in SUBSET Calls
    /\ rest \in 0..CooldownMs
    /\ forces \in 0..MaxForces
    /\ healthy \in BOOLEAN

BreakerInit ==
    /\ breaker = "closed"
    /\ consecutiveFail = 0
    /\ halfOpenSuccess = 0
    /\ cooldown = 0
    /\ inFlight = {}
    /\ rest = 0
    /\ forces = 0
    /\ healthy = FALSE

----------------------------------------------------------------------------
\* withCircuitBreaker: allow() while closed or half-open says yes.
CallThrough(c) ==
    /\ c \notin inFlight
    /\ breaker # "open"
    /\ inFlight' = inFlight \cup {c}
    /\ UNCHANGED <<breaker, consecutiveFail, halfOpenSuccess, cooldown, rest,
                   forces, healthy>>

\* allow() while open, the cooldown over: half-open, and the call is a probe.
\* Before that the call is refused and nothing changes.
CallAsProbe(c) ==
    /\ c \notin inFlight
    /\ breaker = "open"
    /\ cooldown = 0
    /\ breaker' = "half-open"
    /\ halfOpenSuccess' = 0
    /\ inFlight' = inFlight \cup {c}
    /\ UNCHANGED <<consecutiveFail, cooldown, rest, forces, healthy>>

\* Mutant: the last success that is needed is not counted.
SucceedOneShort(c) ==
    /\ c \in inFlight
    /\ inFlight' = inFlight \ {c}
    /\ consecutiveFail' = 0
    /\ halfOpenSuccess' = IF breaker = "half-open" /\ halfOpenSuccess + 1 < SuccessThreshold
                          THEN halfOpenSuccess + 1 ELSE halfOpenSuccess
    /\ breaker' = IF breaker = "half-open" /\ halfOpenSuccess' >= SuccessThreshold
                  THEN "closed" ELSE breaker
    /\ UNCHANGED <<cooldown, rest, forces, healthy>>

\* success(): closes a half-open breaker at the threshold.
Succeed(c) ==
    /\ c \in inFlight
    /\ inFlight' = inFlight \ {c}
    /\ consecutiveFail' = 0
    /\ halfOpenSuccess' = IF breaker = "half-open" THEN halfOpenSuccess + 1
                                                   ELSE halfOpenSuccess
    /\ breaker' = IF breaker = "half-open" /\ halfOpenSuccess' >= SuccessThreshold
                  THEN "closed" ELSE breaker
    /\ UNCHANGED <<cooldown, rest, forces, healthy>>

\* Mutant: the cooldown is set only as the state changes to open.
TripOnce ==
    /\ breaker' = "open"
    /\ cooldown' = IF breaker = "open" THEN cooldown ELSE CooldownMs
    /\ halfOpenSuccess' = 0
    /\ rest' = CooldownMs

\* tripOpen()
TripOpen ==
    /\ breaker' = "open"
    /\ cooldown' = CooldownMs
    /\ halfOpenSuccess' = 0
    /\ rest' = CooldownMs

CountFailure == IF consecutiveFail < FailureThreshold
                THEN consecutiveFail + 1 ELSE consecutiveFail

\* fail(): trips when half-open or at the threshold, in whatever state.
Fail(c) ==
    /\ ~healthy
    /\ c \in inFlight
    /\ inFlight' = inFlight \ {c}
    /\ consecutiveFail' = CountFailure
    /\ IF breaker = "half-open" \/ consecutiveFail' >= FailureThreshold
       THEN TripOpen
       ELSE UNCHANGED <<breaker, cooldown, halfOpenSuccess, rest>>
    /\ UNCHANGED <<forces, healthy>>

\* forceOpen(ms): leaves the counters alone.
ForceOpen(ms) ==
    /\ forces < MaxForces
    /\ forces' = forces + 1
    /\ breaker' = "open"
    /\ cooldown' = ms
    /\ rest' = ms
    /\ UNCHANGED <<consecutiveFail, halfOpenSuccess, inFlight, healthy>>

\* forceClose()
ForceClose ==
    /\ forces < MaxForces
    /\ forces' = forces + 1
    /\ breaker' = "closed"
    /\ consecutiveFail' = 0
    /\ halfOpenSuccess' = 0
    /\ rest' = 0
    /\ UNCHANGED <<cooldown, inFlight, healthy>>

Sooner(n) == IF n = 0 THEN 0 ELSE n - 1

\* The clock advances.
BreakerTick ==
    /\ cooldown + rest > 0
    /\ cooldown' = Sooner(cooldown)
    /\ rest' = Sooner(rest)
    /\ UNCHANGED <<breaker, consecutiveFail, halfOpenSuccess, inFlight, forces,
                   healthy>>

\* Environment: whatever the function calls is well again.
Recover ==
    /\ ~healthy
    /\ healthy' = TRUE
    /\ UNCHANGED <<breaker, consecutiveFail, halfOpenSuccess, cooldown,
                   inFlight, rest, forces>>

BreakerCall == \E c \in Calls : CallThrough(c) \/ CallAsProbe(c)

BreakerNext ==
    \/ BreakerCall
    \/ \E c \in Calls : Succeed(c) \/ Fail(c)
    \/ \E ms \in 0..CooldownMs : ForceOpen(ms)
    \/ ForceClose
    \/ BreakerTick
    \/ Recover

BreakerSpec == BreakerInit /\ [][BreakerNext]_breakerVars

\* Time passes and calls end; that callers keep calling is for the model that
\* uses the breaker to say, as WF_breakerVars(BreakerCall).
BreakerFairness ==
    /\ WF_breakerVars(BreakerTick)
    /\ \A c \in Calls : WF_breakerVars(Succeed(c) \/ Fail(c))

----------------------------------------------------------------------------
(* Properties *)

\* A closed breaker has seen fewer failures in a row than the threshold, and
\* a half-open one fewer successes than it needs: no interleaving of calls
\* that end late leaves the breaker on the wrong side of its own counters.
CountersFitState ==
    /\ breaker = "closed" => consecutiveFail < FailureThreshold
    /\ breaker = "half-open" => halfOpenSuccess < SuccessThreshold

\* After a failure trips the breaker no call starts for the whole cooldown,
\* also when the failure is one of a call that began before an earlier trip;
\* only forceOpen and forceClose set another term.
RestAfterTrip ==
    [][inFlight' \ inFlight # {} => rest = 0]_breakerVars

\* Both: results that come late move the breaker neither past its thresholds nor
\* out of its rest.
KeepsItsTerms == []CountersFitState /\ RestAfterTrip

\* Once the function no longer fails, the breaker closes for good, except for
\* the forceOpen calls still to come.
ClosesOnceHealthy == healthy ~> breaker = "closed"

============================================================================
