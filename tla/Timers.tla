------------------------------- MODULE Timers -------------------------------
(***************************************************************************)
(* What waits for timers: the functions behind debounce and throttle of    *)
(* shareds/async, and below the callers of the token bucket of rate        *)
(* limited jobs, packages/cron/src/queue/rateLimiter.ts.                   *)
(*                                                                         *)
(* Instants are kept as the time since them; Never is undefined, and the  *)
(* 0 that debounce's cancel gives to lastInvokeTime.  Timers fire when     *)
(* they are due, before the clock moves on.                                *)
(***************************************************************************)
EXTENDS Integers, Sequences

CONSTANTS
    Wait,       \* wait of debounce, interval of throttle
    MaxWaits,   \* values of maxWait, Never for none
    MaxAge      \* bound: longer ago than this is as long ago as this

VARIABLE timed
\* timer: the time to its firing; call and invoke: since lastCallTime and
\* lastInvokeTime; args: lastArgs is set.  Of the model: ran, since the
\* function ran, gap, the time between its last two runs, and owed, since
\* the first call that no run has served

Never == -1

ASSUME TimedAssumption ==
    /\ Wait \in Nat
    /\ MaxWaits \subseteq Nat \cup {Never}
    /\ MaxAge \in Nat /\ Wait <= MaxAge

TimedInit ==
    \E kind \in {"debounce", "throttle"}, leading, trailing \in BOOLEAN, max \in MaxWaits :
        timed = [kind |-> kind, leading |-> leading, trailing |-> trailing, max |-> max,
                 aborted |-> FALSE, timer |-> Never, call |-> Never,
                 invoke |-> Never, args |-> FALSE,
                 ran |-> Never, gap |-> Never, owed |-> Never]

Least(a, b) == IF a < b THEN a ELSE b
Invoke(t) ==
    [t EXCEPT !.invoke = 0, !.args = FALSE, !.gap = t.ran, !.ran = 0, !.owed = Never]
Forgotten(t) == [t EXCEPT !.args = FALSE, !.owed = Never]

\* A call notes its arguments, which replace those of the call before.
Noted(t) ==
    [t EXCEPT !.args = TRUE, !.call = 0, !.owed = IF @ = Never THEN 0 ELSE @]

----------------------------------------------------------------------------
\* debounce

ShouldInvoke(t) ==
    \/ t.call = Never \/ t.call >= Wait
    \/ t.max # Never /\ t.invoke # Never /\ t.invoke >= t.max

RemainingWait(t) ==
    IF t.max = Never THEN Wait - t.call
    ELSE Least(Wait - t.call, t.max - (IF t.invoke = Never THEN 0 ELSE t.invoke))

TrailingEdge(t) ==
    IF t.trailing /\ t.args THEN Invoke([t EXCEPT !.timer = Never])
    ELSE Forgotten([t EXCEPT !.timer = Never])

LeadingEdge(t) ==
    LET started == [t EXCEPT !.invoke = 0, !.timer = Wait]
    IN  IF t.leading THEN Invoke(started) ELSE started

Debounced(t) ==
    LET n == Noted(t)
    IN  CASE ShouldInvoke(t) /\ t.timer = Never -> LeadingEdge(n)
          [] ShouldInvoke(t) /\ t.timer # Never /\ t.max # Never ->
                Invoke([n EXCEPT !.timer = Wait])
          [] OTHER -> [n EXCEPT !.timer = IF @ = Never THEN Wait ELSE @]

\* Mutant of Expired: the timer is not started again for the calls since.
ExpiredForGood(t) ==
    IF t.args /\ ShouldInvoke(t) THEN TrailingEdge(t) ELSE [t EXCEPT !.timer = Never]

Expired(t) ==
    CASE ~t.args -> [t EXCEPT !.timer = Never]
      [] t.args /\ ShouldInvoke(t) -> TrailingEdge(t)
      [] OTHER -> [t EXCEPT !.timer = RemainingWait(t)]

----------------------------------------------------------------------------
\* throttle

Throttled(t) ==
    LET began == IF t.invoke = Never /\ ~t.leading THEN [t EXCEPT !.invoke = 0] ELSE t
        n == Noted(began)
    IN  CASE n.invoke = Never \/ n.invoke >= Wait -> Invoke([n EXCEPT !.timer = Never])
          [] n.invoke # Never /\ n.invoke < Wait /\ n.trailing /\ n.timer = Never ->
                [n EXCEPT !.timer = Wait - n.invoke]
          [] OTHER -> n

ThrottleEdge(t) ==
    IF ~t.aborted /\ t.trailing /\ t.args THEN Invoke([t EXCEPT !.timer = Never])
    ELSE Forgotten([t EXCEPT !.timer = Never])

----------------------------------------------------------------------------
Cancelled(t) ==
    Forgotten([t EXCEPT !.timer = Never, !.call = Never, !.invoke = Never,
                        !.ran = Never])

Invoked ==
    \/ ~timed.aborted /\ timed.kind = "debounce" /\ timed' = Debounced(timed)
    \/ ~timed.aborted /\ timed.kind = "throttle" /\ timed' = Throttled(timed)
    \/ timed.aborted /\ timed.kind = "throttle" /\ timed' = Cancelled(timed)

Fire ==
    /\ timed.timer = 0
    /\ timed' = IF timed.kind = "debounce" THEN Expired(timed) ELSE ThrottleEdge(timed)

Cancel == timed' = Cancelled(timed)

Flush ==
    /\ timed.kind = "debounce" /\ timed.timer # Never
    /\ timed' = TrailingEdge(timed)

Abort == ~timed.aborted /\ timed' = [timed EXCEPT !.aborted = TRUE]

Later(age) == IF age = Never \/ age = MaxAge THEN age ELSE age + 1

Pass ==
    /\ timed.timer # 0
    /\ timed' = [timed EXCEPT
            !.timer = IF @ = Never THEN @ ELSE @ - 1, !.call = Later(@),
            !.invoke = Later(@), !.ran = Later(@), !.owed = Later(@)]

TimedNext == Invoked \/ Fire \/ Cancel \/ Flush \/ Abort \/ Pass

TimedSpec == TimedInit /\ [][TimedNext]_timed

----------------------------------------------------------------------------
\* With a trailing edge the last call always has a timer, and with maxWait, or
\* between calls a throttle, it is never put off for longer than that; a
\* throttled function never runs twice within its interval.
PaceIsKept ==
    LET t == timed
        most == IF t.kind = "throttle" \/ t.max < Wait THEN Wait ELSE t.max
    IN  /\ t.trailing /\ t.args => t.timer # Never
        /\ t.trailing /\ t.args /\ (t.kind = "throttle" \/ t.max # Never) => t.owed <= most
        /\ t.kind = "throttle" /\ t.gap # Never => t.gap >= Wait
----------------------------------------------------------------------------
\* The token bucket.  Tokens may be fractions: they are counted in shares, Cost
\* of them to a token.  Callers are numbered in the order of their calls.
CONSTANTS
    Capacity,       \* in shares, as are Bursts and RefillRates
    Bursts,         \* the tokens to start with; the capacity if not given
    RefillRates,
    RefillInterval,
    Cost,
    LimiterEnd,     \* bound on the clock
    MaxTakes        \* bound on the calls

ASSUME LimiterAssumption ==
    /\ Capacity \in Nat
    /\ Bursts \subseteq Nat /\ RefillRates \subseteq Nat
    /\ RefillInterval \in Nat \ {0} /\ Cost \in Nat \ {0}
    /\ LimiterEnd \in Nat /\ MaxTakes \in Nat

VARIABLE limiter
\* rate, tokens, last (refill), queue (the waiters), due (the timer's time);
\* now, asked (the calls); and for RateIsKept since and granted: the callers
\* let through since some time.

NoTimer == -1

LimiterInit ==
    \E burst \in Bursts, rate \in RefillRates :
        limiter = [rate |-> rate, tokens |-> Least(burst, Capacity), last |-> 0,
                   queue |-> <<>>, due |-> NoTimer, now |-> 0, asked |-> 0,
                   since |-> 0, granted |-> 0]

\* The oldest waiters are let through, as many as there are tokens; without
\* waiters the timer is cleared.
Flushed(m) ==
    LET n == Least(m.tokens \div Cost, Len(m.queue))
    IN  [m EXCEPT !.tokens = @ - n * Cost, !.granted = @ + n,
                  !.queue = SubSeq(@, n + 1, Len(@)),
                  !.due = IF n = Len(m.queue) THEN NoTimer ELSE @]

\* What is left of an interval is lost: the next one starts now.
Refilled(m) ==
    LET increments == (m.now - m.last) \div RefillInterval
    IN  IF increments <= 0 THEN m
        ELSE Flushed([m EXCEPT !.tokens = Least(Capacity, @ + increments * m.rate),
                               !.last = m.now])

EnsureTimer(m) ==
    IF m.due # NoTimer \/ m.queue = <<>> THEN m
    ELSE [m EXCEPT !.due = m.now + RefillInterval]

\* take: at once, or after those who wait already.
Take ==
    /\ limiter.asked < MaxTakes
    /\ LET m == Refilled([limiter EXCEPT !.asked = @ + 1])
       IN  limiter' =
              IF m.tokens >= Cost
              THEN [m EXCEPT !.tokens = @ - Cost, !.granted = @ + 1]
              ELSE EnsureTimer([m EXCEPT !.queue = Append(@, m.asked)])

\* The timer, which may be late, or early by less than the clock shows.
TimerRefills ==
    /\ limiter.due # NoTimer /\ limiter.now >= limiter.due - 1
    /\ limiter' = EnsureTimer(Refilled([limiter EXCEPT !.due = NoTimer]))

LimiterTick ==
    /\ limiter.now < LimiterEnd
    /\ limiter' = [limiter EXCEPT !.now = @ + 1]

\* Somebody starts counting.
WatchFrom ==
    /\ limiter.since < limiter.now
    /\ limiter' = [limiter EXCEPT !.since = limiter.now, !.granted = 0]

LimiterNext == Take \/ TimerRefills \/ LimiterTick \/ WatchFrom

LimiterSpec == LimiterInit /\ [][LimiterNext]_limiter

----------------------------------------------------------------------------
\* In no span of time are more callers let through than the capacity and the
\* refills of that span allow, one refill for the interval that was under way;
\* no whole token lies beside a waiter, whose timer is set; and callers are let
\* through in the order of their calls.
RateIsKept ==
    LET spans == (limiter.now - limiter.since) \div RefillInterval + 1
        waiting == Len(limiter.queue)
    IN  /\ limiter.granted * Cost <= Capacity + spans * limiter.rate
        /\ limiter.tokens \in 0..Capacity
        /\ waiting > 0 => limiter.tokens < Cost
        /\ waiting > 0 <=> limiter.due # NoTimer
        /\ limiter.queue = [i \in 1..waiting |-> limiter.asked - waiting + i]
=============================================================================
