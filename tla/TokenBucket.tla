---------------------------- MODULE TokenBucket ----------------------------
(***************************************************************************)
(* TokenBucket of shareds/async/src/try/rate-limiting.ts: a bucket that is *)
(* refilled lazily, on use, and take(), which sleeps for as long as the    *)
(* missing tokens need and then tries again.                               *)
(*                                                                         *)
(* Tokens are counted in units: a token is Unit units, and a tick of the   *)
(* clock brings Rate of them, so that refillPerSec / 1000 is Rate / Unit,  *)
(* exactly where the code's floating point may round.  Timers may fire     *)
(* late, never early.                                                      *)
(***************************************************************************)
EXTENDS Integers, FiniteSetsExt

CONSTANTS
    Takers,     \* concurrent callers of take() and tryTake()
    Burst,      \* capacity, in tokens
    Unit, Rate, \* see above
    Amounts,    \* the n of take(n): more than capacity would sleep for ever
    Timeouts,   \* timeoutMs values; Forever stands for undefined
    Forever,
    MaxTime     \* bound: the clock

ASSUME BucketAssumption ==
    /\ Unit \in Nat \ {0}
    /\ Rate \in Nat \ {0}
    /\ Burst \in Nat \ {0}
    /\ Amounts \subseteq 1..Burst
    /\ Timeouts \subseteq Nat
    /\ Forever \in Nat
    /\ MaxTime \in Nat

VARIABLES
    now,        \* clock()
    tokens,     \* TokenBucket.tokens, in units
    last,       \* TokenBucket.last
    sleeper,    \* per taker: Awake, or its call of take() between two tries
    granted     \* history: the units granted in all, up to each instant

bucketVars == <<now, tokens, last, sleeper, granted>>

Awake == [n |-> 0, due |-> 0, start |-> 0, timeout |-> Forever, robbed |-> FALSE]

BucketInit ==
    /\ now = 0
    /\ tokens = Burst * Unit
    /\ last = 0
    /\ sleeper = [c \in Takers |-> Awake]
    /\ granted = [t \in 0..MaxTime |-> 0]

----------------------------------------------------------------------------
\* Mutant: the burst does not bound what piles up in a quiet time.
RefillUncapped == tokens + (now - last) * Rate

\* refill(): the contents at this instant.
Refilled == Min({Burst * Unit, tokens + (now - last) * Rate})

\* Mutant: msUntil() rounds down.
MsUntilFloor(n) == (n * Unit - Refilled) \div Rate

\* msUntil(n) when tokens are missing.
MsUntil(n) == -((-(n * Unit - Refilled)) \div Rate)

\* tryTake(n) that succeeds.  Sleepers are marked: tokens they count on go.
Grant(c, n) ==
    /\ Refilled >= n * Unit
    /\ tokens' = Refilled - n * Unit
    /\ last' = now
    /\ granted' = [granted EXCEPT ![now] = @ + n * Unit]
    /\ sleeper' = [d \in Takers |->
                      IF d = c \/ sleeper[d] = Awake THEN Awake
                      ELSE [sleeper[d] EXCEPT !.robbed = TRUE]]

\* tryTake(n) that fails: the refill stays.
Deny(n) ==
    /\ Refilled < n * Unit
    /\ tokens' = Refilled
    /\ last' = now
    /\ UNCHANGED granted

\* One turn of the loop of take(n, timeout) begun at start.
TakeTurn(c, n, start, timeout) ==
    \/ Grant(c, n)
    \/ /\ Deny(n)
       /\ sleeper' =
            [sleeper EXCEPT ![c] =
                IF timeout # Forever /\ now - start >= timeout THEN Awake
                ELSE [n |-> n, due |-> now + Max({1, MsUntil(n)}),
                      start |-> start, timeout |-> timeout, robbed |-> FALSE]]

Take(c, n, timeout) ==
    /\ sleeper[c] = Awake
    /\ TakeTurn(c, n, now, timeout)
    /\ UNCHANGED now

\* The timer of a sleeping take() fires.
WakeUp(c) ==
    /\ sleeper[c] # Awake
    /\ now >= sleeper[c].due
    /\ TakeTurn(c, sleeper[c].n, sleeper[c].start, sleeper[c].timeout)
    /\ UNCHANGED now

TryTake(c, n) ==
    /\ sleeper[c] = Awake
    /\ \/ Grant(c, n)
       \/ Deny(n) /\ UNCHANGED sleeper
    /\ UNCHANGED now

BucketTick ==
    /\ now < MaxTime
    /\ now' = now + 1
    /\ granted' = [granted EXCEPT ![now + 1] = granted[now]]
    /\ UNCHANGED <<tokens, last, sleeper>>

BucketNext ==
    \/ \E c \in Takers, n \in Amounts :
          \/ TryTake(c, n)
          \/ \E timeout \in Timeouts : Take(c, n, timeout)
    \/ \E c \in Takers : WakeUp(c)
    \/ BucketTick

BucketSpec == BucketInit /\ [][BucketNext]_bucketVars

----------------------------------------------------------------------------
(* Properties *)

GrantedBefore(t) == IF t = 0 THEN 0 ELSE granted[t - 1]

\* What a rate limiter is for: between any two instants no more is granted
\* than the burst and the refill of that time, however the calls fall and
\* however often the lazy refill has been taken.
RateHolds ==
    \A s \in 0..now : \A t \in s..now :
        granted[t] - GrantedBefore(s) <= Burst * Unit + (t - s) * Rate

\* The lazy refill loses nothing: who sleeps as long as msUntil() says, and is
\* not robbed by another taker, finds its tokens when the timer fires.
SleepSuffices ==
    \A c \in Takers :
        sleeper[c] # Awake /\ ~sleeper[c].robbed /\ now >= sleeper[c].due =>
            Refilled >= sleeper[c].n * Unit

\* Both: a taker gets its tokens when it may, and never sooner.
BucketIsExact == RateHolds /\ SleepSuffices

============================================================================
