---------------------------- MODULE AsyncProofs ----------------------------
(***************************************************************************)
(* What holds of the circuit breaker, the token bucket, the semaphores,    *)
(* the mutex and the job queue of shareds/async for any thresholds, rates, *)
(* capacities, callers and jobs.                                           *)
(***************************************************************************)
EXTENDS CircuitBreaker, TokenBucket, AsyncSemaphore, AsyncMutex, JobQueue,
        FiniteSetTheorems, SequenceTheorems, WellFoundedInduction, TLAPS

----------------------------------------------------------------------------
(* The circuit breaker.                                                    *)
(*                                                                         *)
(* CountersFitState is not inductive with the types alone: RestAfterTrip   *)
(* needs to know that the cooldown the code keeps and the rest that the    *)
(* last trip demands are the same while the breaker is open, and that      *)
(* nothing is left to wait for once it is not.                             *)

RestIsCooldown ==
    /\ breaker = "open" => rest = cooldown
    /\ breaker # "open" => rest = 0

BreakerInv ==
    /\ BreakerTypeOK
    /\ CountersFitState
    /\ RestIsCooldown

\* A cooldown that runs down stays one.
LEMMA DecType == \A n \in 0..CooldownMs : Sooner(n) \in 0..CooldownMs
  BY BreakerAssumption DEF Sooner

\* The breaker starts closed, with nothing counted.
LEMMA InitBreakerInv == BreakerInit => BreakerInv
<1> SUFFICES ASSUME BreakerInit PROVE BreakerInv
  OBVIOUS
<1>1. inFlight \in SUBSET Calls /\ healthy \in BOOLEAN
  BY Zenon DEF BreakerInit
<1>2. /\ consecutiveFail \in 0..FailureThreshold
      /\ halfOpenSuccess \in 0..SuccessThreshold
      /\ cooldown \in 0..CooldownMs
      /\ rest \in 0..CooldownMs
      /\ forces \in 0..MaxForces
  BY BreakerAssumption DEF BreakerInit
<1>3. CountersFitState /\ RestIsCooldown
  BY BreakerAssumption DEF BreakerInit, CountersFitState, RestIsCooldown
<1> QED
  BY <1>1, <1>2, <1>3 DEF BreakerInit, BreakerInv, BreakerTypeOK

\* trip() opens the breaker and starts the cooldown with the rest.
LEMMA TripKeepsInv ==
  ASSUME BreakerTypeOK, TripOpen
  PROVE  /\ breaker' = "open"
         /\ cooldown' \in 0..CooldownMs
         /\ rest' = cooldown'
         /\ halfOpenSuccess' \in 0..SuccessThreshold
  BY BreakerAssumption DEF TripOpen, BreakerTypeOK

\* fail() counts up to the threshold, where it trips.
LEMMA CountFailureType ==
  ASSUME BreakerTypeOK
  PROVE  /\ CountFailure \in 0..FailureThreshold
         /\ ~(CountFailure >= FailureThreshold) => CountFailure < FailureThreshold
  BY BreakerAssumption DEF CountFailure, BreakerTypeOK

\* Every step of the breaker keeps its invariant.
LEMMA NextBreakerInv == BreakerInv /\ [BreakerNext]_breakerVars => BreakerInv'
<1> SUFFICES ASSUME BreakerInv, [BreakerNext]_breakerVars
             PROVE  BreakerInv'
  OBVIOUS
<1> USE BreakerAssumption DEF BreakerInv, BreakerTypeOK, CountersFitState, RestIsCooldown
<1>1. ASSUME NEW c \in Calls, CallThrough(c) PROVE BreakerInv'
  BY <1>1 DEF CallThrough
<1>2. ASSUME NEW c \in Calls, CallAsProbe(c) PROVE BreakerInv'
  BY <1>2 DEF CallAsProbe
<1>3. ASSUME NEW c \in Calls, Succeed(c) PROVE BreakerInv'
  <2>1. CASE breaker = "half-open"
    <3>1. halfOpenSuccess' = halfOpenSuccess + 1 /\ halfOpenSuccess < SuccessThreshold
      BY <1>3, <2>1 DEF Succeed
    <3>2. halfOpenSuccess' \in 0..SuccessThreshold
      BY <3>1
    <3> QED
      BY <1>3, <2>1, <3>1, <3>2 DEF Succeed
  <2>2. CASE breaker # "half-open"
    BY <1>3, <2>2 DEF Succeed
  <2> QED
    BY <2>1, <2>2
<1>4. ASSUME NEW c \in Calls, Fail(c) PROVE BreakerInv'
  <2>1. /\ consecutiveFail' = CountFailure
        /\ inFlight' \in SUBSET Calls
        /\ UNCHANGED <<forces, healthy>>
    BY <1>4 DEF Fail
  <2>2. CASE breaker = "half-open" \/ consecutiveFail' >= FailureThreshold
    <3>1. TripOpen
      BY <1>4, <2>2 DEF Fail
    <3> QED
      BY <2>1, <3>1, TripKeepsInv, CountFailureType
  <2>3. CASE ~(breaker = "half-open" \/ consecutiveFail' >= FailureThreshold)
    <3>1. UNCHANGED <<breaker, cooldown, halfOpenSuccess, rest>>
      BY <1>4, <2>3 DEF Fail
    <3> QED
      BY <2>1, <2>3, <3>1, CountFailureType
  <2> QED
    BY <2>2, <2>3
<1>5. ASSUME NEW ms \in 0..CooldownMs, ForceOpen(ms) PROVE BreakerInv'
  BY <1>5 DEF ForceOpen
<1>6. CASE ForceClose
  BY <1>6 DEF ForceClose
<1>7. CASE BreakerTick
  BY <1>7, DecType DEF BreakerTick, Sooner
<1>8. CASE Recover
  BY <1>8 DEF Recover
<1>9. CASE UNCHANGED breakerVars
  BY <1>9 DEF breakerVars
<1> QED
  BY <1>1, <1>2, <1>3, <1>4, <1>5, <1>6, <1>7, <1>8, <1>9 DEF BreakerNext, BreakerCall

\* The invariant holds of every behaviour of the breaker.
THEOREM BreakerInvariant == BreakerSpec => []BreakerInv
<1>1. BreakerInit => BreakerInv
  BY InitBreakerInv
<1>2. BreakerInv /\ [BreakerNext]_breakerVars => BreakerInv'
  BY NextBreakerInv
<1> QED
  BY <1>1, <1>2, PTL DEF BreakerSpec

\* However late the calls in flight report, a closed breaker is below its
\* failure threshold and a half-open one below its success threshold.
THEOREM CountersAlwaysFit == BreakerSpec => []CountersFitState
<1>1. BreakerInv => CountersFitState
  BY DEF BreakerInv
<1> QED
  BY <1>1, BreakerInvariant, PTL

\* Every call that starts after a failure tripped the breaker starts after
\* the full cooldown counted from the last such failure.
THEOREM TripsRest == BreakerSpec => RestAfterTrip
<1>1. ASSUME BreakerInv, BreakerNext, inFlight' \ inFlight # {}
      PROVE  rest = 0
  <2>1. \/ \E c \in Calls : CallThrough(c)
        \/ \E c \in Calls : CallAsProbe(c)
    BY <1>1 DEF BreakerNext, BreakerCall, Succeed, Fail, ForceOpen, ForceClose,
                BreakerTick, Recover
  <2>2. ASSUME NEW c \in Calls, CallThrough(c) PROVE rest = 0
    BY <1>1, <2>2 DEF CallThrough, BreakerInv, RestIsCooldown
  <2>3. ASSUME NEW c \in Calls, CallAsProbe(c) PROVE rest = 0
    BY <1>1, <2>3 DEF CallAsProbe, BreakerInv, RestIsCooldown
  <2> QED
    BY <2>1, <2>2, <2>3
<1>2. BreakerInv /\ [BreakerNext]_breakerVars
        => [inFlight' \ inFlight # {} => rest = 0]_breakerVars
  BY <1>1
<1> QED
  BY <1>2, BreakerInvariant, PTL DEF BreakerSpec, RestAfterTrip

\* allow(), success() and fail() keep the breaker's terms in any order of late
\* results: thresholds are acted on, and a trip is a full cooldown of rest.
THEOREM TermsKept == BreakerSpec => KeepsItsTerms
BY CountersAlwaysFit, TripsRest DEF KeepsItsTerms

----------------------------------------------------------------------------
(* Arithmetic *)

\* The smaller of two numbers.
LEMMA MinOfTwo ==
    ASSUME NEW a \in Int, NEW b \in Int
    PROVE  Min({a, b}) = IF a <= b THEN a ELSE b
BY DEF Min

\* The larger of two numbers.
LEMMA MaxOfTwo ==
    ASSUME NEW a \in Int, NEW b \in Int
    PROVE  Max({a, b}) = IF a >= b THEN a ELSE b
BY DEF Max

\* Products with the rate distribute.
LEMMA Distributes ==
    ASSUME NEW a \in Int, NEW b \in Int, NEW r \in Int
    PROVE  /\ (a + b) * r = a * r + b * r
           /\ (a - b) * r = a * r - b * r
           /\ a * r \in Int
OBVIOUS

\* Products with the rate are monotone.
LEMMA Grows ==
    ASSUME NEW a \in Int, NEW b \in Int, NEW r \in Nat, a <= b
    PROVE  a * r <= b * r
OBVIOUS

\* What Math.ceil(need / perMs) ticks bring is enough.
LEMMA CeilingSuffices ==
    ASSUME NEW x \in Int, NEW r \in Nat \ {0}
    PROVE  /\ -((-x) \div r) \in Int
           /\ (-((-x) \div r)) * r >= x
<1> DEFINE y == -x
           quot == y \div r
<1>1. quot \in Int /\ quot * r <= y
  OBVIOUS
<1> HIDE DEF quot
<1>2. (-quot) * r = -(quot * r) /\ quot * r \in Int
  BY <1>1
<1> QED
  BY <1>1, <1>2 DEF quot

\* A non-empty set of naturals has a smallest member.
LEMMA LeastIsIn ==
    ASSUME NEW S \in SUBSET Nat, S # {}
    PROVE  \E m \in S : \A x \in S : m <= x
<1> DEFINE R == {ss \in Nat \X Nat : ss[1] < ss[2]}
<1>1. IsWellFoundedOn(R, Nat)
  BY NatLessThanWellFounded, Zenon DEF OpToRel
<1>2. PICK n \in S : TRUE
  OBVIOUS
<1>3. PICK m \in S : \A x \in S : ~ (<<x, m>> \in R)
  <2> HIDE DEF R
  <2> QED
    BY <1>1, <1>2, WFMin
<1>4. \A x \in S : m <= x
  <2> SUFFICES ASSUME NEW x \in S PROVE m <= x
    OBVIOUS
  <2>1. x \in Nat /\ m \in Nat /\ ~ (x < m)
    BY <1>3
  <2> QED
    BY <2>1
<1> QED
  BY <1>4

\* A bounded non-empty set of numbers has a largest member.
LEMMA MaxIsIn ==
    ASSUME NEW n \in Nat, NEW S \in SUBSET (0..n), S # {}
    PROVE  Max(S) \in S /\ \A x \in S : x <= Max(S)
<1> DEFINE U == {u \in Nat : \A x \in S : x <= u}
<1>2. n \in U
  OBVIOUS
<1>3. PICK m \in U : \A u \in U : m <= u
  <2> HIDE DEF U
  <2>1. U \in SUBSET Nat
    BY DEF U
  <2> QED
    BY <1>2, <2>1, LeastIsIn
<1>4. m \in Nat /\ \A x \in S : x \in Nat /\ x <= m
  OBVIOUS
<1>5. m \in S
  <2> SUFFICES ASSUME m \notin S PROVE FALSE
    OBVIOUS
  <2>1. \A x \in S : x <= m - 1 /\ x \in Nat
    BY <1>4
  <2>2. m - 1 \in Nat
    <3>1. PICK x \in S : TRUE
      OBVIOUS
    <3>2. x \in Nat /\ x <= m - 1
      BY <2>1
    <3> QED
      BY <1>4, <3>2
  <2>3. m - 1 \in U
    BY <2>1, <2>2
  <2> HIDE DEF U
  <2>4. m <= m - 1
    BY <1>3, <2>3
  <2> QED
    BY <1>4, <2>4
<1> QED
  BY <1>4, <1>5 DEF Max

----------------------------------------------------------------------------
(* The token bucket *)

Sleepers == [n : Nat, due : Nat, start : Nat, timeout : Nat, robbed : BOOLEAN]

BucketTypeOK ==
    /\ now \in 0..MaxTime
    /\ tokens \in 0..(Burst * Unit)
    /\ last \in 0..now
    /\ granted \in [0..MaxTime -> Nat]
    /\ sleeper \in [Takers -> Sleepers]
    /\ \A c \in Takers : sleeper[c] # Awake => sleeper[c].n \in Amounts

\* What has been granted since instant s, and what could be granted now, are
\* within the burst and the refill since then.
RoomLeft ==
    \A s \in 0..now :
        granted[now] - GrantedBefore(s) + Refilled <= Burst * Unit + (now - s) * Rate

\* The bucket will hold the tokens that c sleeps for when its timer is due, or
\* holds them if it is late.
WillSuffice(c) ==
    sleeper[c] # Awake /\ ~sleeper[c].robbed =>
        IF sleeper[c].due >= now
        THEN tokens + (sleeper[c].due - last) * Rate >= sleeper[c].n * Unit
        ELSE Refilled >= sleeper[c].n * Unit

BucketInv ==
    /\ BucketTypeOK
    /\ RateHolds
    /\ RoomLeft
    /\ \A c \in Takers : WillSuffice(c)

\* The constants are numbers, and no request is for more than the burst.
LEMMA BucketNumbers ==
    /\ Burst \in Nat /\ Unit \in Nat /\ Rate \in Nat /\ Rate # 0 /\ MaxTime \in Nat
    /\ Burst * Unit \in Nat
    /\ \A n \in Amounts : n \in Nat /\ n # 0 /\ n * Unit \in Nat /\ n * Unit <= Burst * Unit
<1>1. /\ Burst \in Nat /\ Unit \in Nat /\ Rate \in Nat /\ Rate # 0 /\ MaxTime \in Nat
      /\ \A n \in Amounts : n \in Nat /\ n # 0 /\ n <= Burst
  BY BucketAssumption
<1> QED
  BY <1>1, Grows

\* What refill() leaves in the bucket.
LEMMA RefilledIs ==
    ASSUME BucketTypeOK
    PROVE  /\ (now - last) * Rate \in Nat
           /\ Refilled = IF Burst * Unit <= tokens + (now - last) * Rate
                         THEN Burst * Unit ELSE tokens + (now - last) * Rate
           /\ Refilled \in 0..(Burst * Unit)
<1>1. /\ now - last \in Nat /\ tokens \in Nat /\ Burst * Unit \in Nat /\ Rate \in Nat
      /\ tokens <= Burst * Unit
  BY BucketNumbers DEF BucketTypeOK
<1>2. (now - last) * Rate \in Nat
  BY <1>1
<1>3. Refilled = IF Burst * Unit <= tokens + (now - last) * Rate
                 THEN Burst * Unit ELSE tokens + (now - last) * Rate
  BY <1>1, <1>2, MinOfTwo DEF Refilled
<1> QED
  BY <1>1, <1>2, <1>3

\* Right after a refill nothing is to be refilled.
LEMMA FreshRefill ==
    ASSUME NEW n \in Nat, last' = n, now' = n, tokens' \in 0..(Burst * Unit)
    PROVE  Refilled' = tokens'
<1>1. tokens' \in Int /\ Burst * Unit \in Int /\ tokens' <= Burst * Unit
  <2> DEFINE b == Burst * Unit
  <2>1. b \in Nat
    BY BucketNumbers
  <2> HIDE DEF b
  <2>2. tokens' \in 0..b
    BY DEF b
  <2>3. tokens' \in Int /\ b \in Int /\ tokens' <= b
    BY <2>1, <2>2
  <2> QED
    BY <2>3 DEF b
<1>2. tokens' + (now' - last') * Rate = tokens'
  <2>1. now' - last' = 0 /\ Rate \in Nat
    BY BucketNumbers
  <2>2. (now' - last') * Rate = 0
    BY <2>1
  <2> QED
    BY <1>1, <2>2
<1>3. Min({Burst * Unit, tokens'}) = tokens'
  BY <1>1, MinOfTwo
<1> QED
  BY <1>2, <1>3 DEF Refilled

\* A refill that grants nothing changes nothing for those who sleep.
LEMMA RefillSuffices ==
    ASSUME BucketTypeOK, tokens' = Refilled, last' = now, now' = now,
           NEW c \in Takers, sleeper'[c] = sleeper[c], WillSuffice(c)
    PROVE  WillSuffice(c)'
<1> SUFFICES ASSUME sleeper[c] # Awake, ~sleeper[c].robbed
             PROVE  WillSuffice(c)'
  BY DEF WillSuffice
<1> DEFINE due == sleeper[c].due
           need == sleeper[c].n * Unit
<1>1. /\ due \in Nat /\ now \in Nat /\ last \in Nat /\ last <= now /\ tokens \in Nat
      /\ Burst * Unit \in Nat /\ Rate \in Nat /\ need \in Nat /\ need <= Burst * Unit
  <2>1. sleeper[c] \in Sleepers /\ sleeper[c].n \in Amounts
    BY DEF BucketTypeOK
  <2> QED
    BY <2>1, BucketNumbers DEF BucketTypeOK, Sleepers
<1>2. (due - last) * Rate = (due - now) * Rate + (now - last) * Rate
  <2>1. (due - now) + (now - last) = due - last
    BY <1>1
  <2> QED
    BY <2>1, <1>1, Distributes
<1>3. (due - now) * Rate \in Int /\ (now - last) * Rate \in Int
  BY <1>1
<1>4. due >= now => (due - now) * Rate >= 0
  BY <1>1
<1>5. due >= now => tokens + (due - last) * Rate >= need
  BY DEF WillSuffice
<1>6. due < now => Refilled >= need
  BY <1>1 DEF WillSuffice
<1>7. due >= now => tokens' + (due - now) * Rate >= need
  BY <1>1, <1>2, <1>3, <1>4, <1>5, RefilledIs
<1>8. Refilled' = tokens'
  BY RefilledIs, FreshRefill, <1>1
<1> QED
  BY <1>1, <1>6, <1>7, <1>8 DEF WillSuffice

\* No more is granted than the rate allows, after a call that grants n units
\* out of those that refill() left in the bucket.
LEMMA RateKept ==
    ASSUME BucketInv, NEW n \in Nat, n <= Refilled,
           now' = now, last' = now, tokens' = Refilled - n,
           granted' = [granted EXCEPT ![now] = @ + n]
    PROVE  /\ tokens' \in 0..(Burst * Unit) /\ last' \in 0..now'
           /\ granted' \in [0..MaxTime -> Nat]
           /\ RateHolds' /\ RoomLeft'
<1>1. /\ now \in 0..MaxTime /\ MaxTime \in Nat /\ granted \in [0..MaxTime -> Nat]
      /\ Burst * Unit \in Nat /\ Rate \in Nat /\ Refilled \in 0..(Burst * Unit)
  BY BucketNumbers, RefilledIs DEF BucketInv, BucketTypeOK
<1>2. /\ tokens' \in 0..(Burst * Unit) /\ last' \in 0..now'
      /\ granted' \in [0..MaxTime -> Nat]
  BY <1>1
<1>3. Refilled' = Refilled - n
  BY <1>1, <1>2, FreshRefill
<1>4. \A t \in 0..now : t # now => granted'[t] = granted[t]
  BY <1>1
<1>5. granted'[now] = granted[now] + n
  BY <1>1
<1>6. \A s \in 0..now : GrantedBefore(s)' = GrantedBefore(s) /\ GrantedBefore(s) \in Nat
  BY <1>1, <1>4 DEF GrantedBefore
<1>7. RoomLeft'
  <2> SUFFICES ASSUME NEW s \in 0..now
               PROVE  granted'[now] - GrantedBefore(s)' + Refilled'
                        <= Burst * Unit + (now - s) * Rate
    BY DEF RoomLeft
  <2>1. granted[now] - GrantedBefore(s) + Refilled <= Burst * Unit + (now - s) * Rate
    BY DEF BucketInv, RoomLeft
  <2>2. (now - s) * Rate \in Int
    BY <1>1
  <2>3. granted[now] \in Nat
    BY <1>1
  <2> QED
    BY <1>1, <1>3, <1>5, <1>6, <2>1, <2>2, <2>3
<1>8. RateHolds'
  <2> SUFFICES ASSUME NEW s \in 0..now, NEW t \in s..now
               PROVE  granted'[t] - GrantedBefore(s)' <= Burst * Unit + (t - s) * Rate
    BY DEF RateHolds
  <2>1. CASE t # now
    <3>1. granted[t] - GrantedBefore(s) <= Burst * Unit + (t - s) * Rate
      BY DEF BucketInv, RateHolds
    <3>2. t \in 0..now
      BY <1>1
    <3> QED
      BY <2>1, <3>1, <3>2, <1>4, <1>6
  <2>2. CASE t = now
    <3>1. granted'[now] - GrantedBefore(s)' + Refilled'
            <= Burst * Unit + (now - s) * Rate
      BY <1>7 DEF RoomLeft
    <3>2. granted'[now] \in Nat /\ Refilled' \in Nat /\ (now - s) * Rate \in Int
      BY <1>1, <1>2, <1>3
    <3> DEFINE x == (now - s) * Rate
               b == Burst * Unit
    <3>3. x \in Int /\ b \in Int /\ GrantedBefore(s)' \in Int
      BY <1>1, <1>6, <3>2
    <3>4. (t - s) * Rate = x /\ granted'[t] = granted'[now]
      BY <1>1, <2>2
    <3>5. granted'[now] - GrantedBefore(s)' + Refilled' <= b + x
      BY <3>1
    <3> HIDE DEF x, b
    <3>6. granted'[now] - GrantedBefore(s)' <= b + x
      BY <3>2, <3>3, <3>5
    <3> QED
      BY <3>4, <3>6 DEF b
  <2> QED
    BY <2>1, <2>2
<1> QED
  BY <1>2, <1>7, <1>8

\* tryTake() that succeeds.
LEMMA GrantKeepsInv ==
    ASSUME BucketInv, NEW c \in Takers, NEW n \in Amounts, Grant(c, n), now' = now
    PROVE  BucketInv'
<1>1. /\ n * Unit \in Nat /\ n * Unit <= Refilled /\ Refilled \in Nat
      /\ tokens' = Refilled - n * Unit /\ last' = now
      /\ granted' = [granted EXCEPT ![now] = @ + n * Unit]
  BY BucketNumbers, RefilledIs DEF Grant, BucketInv
<1>2. /\ tokens' \in 0..(Burst * Unit) /\ last' \in 0..now'
      /\ granted' \in [0..MaxTime -> Nat]
      /\ RateHolds' /\ RoomLeft'
  BY <1>1, RateKept
<1>3. Awake \in Sleepers
  BY BucketAssumption DEF Awake, Sleepers
<1>4. \A d \in Takers :
        \/ sleeper'[d] = Awake
        \/ sleeper[d] # Awake /\ sleeper'[d] = [sleeper[d] EXCEPT !.robbed = TRUE]
  BY DEF Grant
<1>5. sleeper' \in [Takers -> Sleepers]
  <2>1. DOMAIN sleeper' = Takers /\ sleeper' = [d \in Takers |-> sleeper'[d]]
    BY DEF Grant
  <2>2. \A d \in Takers : sleeper[d] \in Sleepers
    BY DEF BucketInv, BucketTypeOK
  <2>3. \A r \in Sleepers : [r EXCEPT !.robbed = TRUE] \in Sleepers
    BY DEF Sleepers
  <2>4. \A d \in Takers : sleeper'[d] \in Sleepers
    <3> SUFFICES ASSUME NEW d \in Takers PROVE sleeper'[d] \in Sleepers
      OBVIOUS
    <3>1. CASE sleeper'[d] = Awake
      BY <1>3, <3>1
    <3>2. CASE sleeper'[d] = [sleeper[d] EXCEPT !.robbed = TRUE]
      BY <2>2, <2>3, <3>2
    <3> QED
      BY <1>4, <3>1, <3>2
  <2> QED
    BY <2>1, <2>4
<1>6. \A d \in Takers : sleeper'[d] # Awake =>
            sleeper'[d].n \in Amounts /\ sleeper'[d].robbed
  BY <1>4 DEF BucketInv, BucketTypeOK, Sleepers
<1>7. \A d \in Takers : WillSuffice(d)'
  BY <1>6 DEF WillSuffice
<1> QED
  BY <1>2, <1>5, <1>6, <1>7 DEF BucketInv, BucketTypeOK

\* tryTake() that fails, alone or in the turn of a taker that c stands for,
\* which sleeps on for as long as msUntil() says or gives up.
LEMMA DenyKeepsInv ==
    ASSUME BucketInv, NEW n \in Amounts, Deny(n), now' = now,
           sleeper' \in [Takers -> Sleepers],
           \A d \in Takers :
                \/ sleeper'[d] = sleeper[d]
                \/ sleeper'[d] = Awake
                \/ /\ sleeper'[d].n = n
                   /\ sleeper'[d].due = now + Max({1, MsUntil(n)})
    PROVE  BucketInv'
<1>1. /\ now \in 0..MaxTime /\ MaxTime \in Nat /\ granted \in [0..MaxTime -> Nat]
      /\ Burst * Unit \in Nat /\ Rate \in Nat \ {0} /\ Refilled \in 0..(Burst * Unit)
      /\ n * Unit \in Nat
  BY BucketNumbers, RefilledIs DEF BucketInv, BucketTypeOK
<1>2. /\ tokens' = Refilled - 0 /\ last' = now
      /\ granted' = [granted EXCEPT ![now] = @ + 0]
  BY <1>1 DEF Deny
<1>3. /\ tokens' \in 0..(Burst * Unit) /\ last' \in 0..now'
      /\ granted' \in [0..MaxTime -> Nat]
      /\ RateHolds' /\ RoomLeft'
  <2>1. 0 \in Nat /\ 0 <= Refilled
    BY <1>1
  <2> QED
    BY <2>1, <1>2, RateKept
<1>4. \A d \in Takers : sleeper'[d] # Awake => sleeper'[d].n \in Amounts
  BY DEF BucketInv, BucketTypeOK
<1>5. ASSUME NEW d \in Takers
      PROVE  WillSuffice(d)'
  <2>1. CASE sleeper'[d] = sleeper[d]
    <3>1. WillSuffice(d) /\ tokens' = Refilled /\ BucketTypeOK
      BY <1>1, <1>2 DEF BucketInv
    <3> QED
      BY <2>1, <3>1, <1>2, RefillSuffices
  <2>2. CASE sleeper'[d] = Awake
    BY <2>2 DEF WillSuffice
  <2>3. CASE /\ sleeper'[d].n = n
             /\ sleeper'[d].due = now + Max({1, MsUntil(n)})
    <3> DEFINE ms == MsUntil(n)
               x == n * Unit - Refilled
    <3>1. ms \in Int /\ ms * Rate >= x
      <4>1. x \in Int
        BY <1>1
      <4> HIDE DEF x
      <4>2. ms = -((-x) \div Rate)
        BY DEF MsUntil, x
      <4> HIDE DEF ms
      <4> QED
        BY <1>1, <4>1, <4>2, CeilingSuffices
    <3> HIDE DEF ms
    <3> DEFINE m == Max({1, ms})
    <3>2. m \in Nat /\ ms <= m
      BY <3>1, MaxOfTwo
    <3>3. sleeper'[d].due = now + m
      BY <2>3 DEF ms
    <3> HIDE DEF m
    <3>4. m * Rate >= x
      <4>1. ms * Rate <= m * Rate /\ m * Rate \in Int /\ ms * Rate \in Int /\ x \in Int
        BY <1>1, <3>1, <3>2, Grows
      <4> QED
        BY <3>1, <4>1
    <3>5. sleeper'[d].due >= now' /\ sleeper'[d].due - last' = m
      BY <1>1, <1>2, <3>2, <3>3
    <3>6. tokens' + (sleeper'[d].due - last') * Rate >= sleeper'[d].n * Unit
      <4>1. m * Rate \in Int
        BY <1>1, <3>2
      <4> QED
        BY <1>1, <1>2, <2>3, <3>4, <3>5, <4>1
    <3> QED
      BY <3>5, <3>6 DEF WillSuffice
  <2> QED
    BY <2>1, <2>2, <2>3
<1> QED
  BY <1>3, <1>4, <1>5 DEF BucketInv, BucketTypeOK

\* A turn of take(), its first or a later one.
LEMMA TurnKeepsInv ==
    ASSUME BucketInv, NEW c \in Takers, NEW n \in Amounts, NEW start \in Nat,
           NEW timeout \in Nat, TakeTurn(c, n, start, timeout), now' = now
    PROVE  BucketInv'
<1>1. CASE Grant(c, n)
  BY <1>1, GrantKeepsInv
<1>2. ASSUME Deny(n),
             sleeper' = [sleeper EXCEPT ![c] =
                IF timeout # Forever /\ now - start >= timeout THEN Awake
                ELSE [n |-> n, due |-> now + Max({1, MsUntil(n)}),
                      start |-> start, timeout |-> timeout, robbed |-> FALSE]]
      PROVE  BucketInv'
  <2> DEFINE due == now + Max({1, MsUntil(n)})
             asleep == [n |-> n, due |-> due, start |-> start, timeout |-> timeout,
                        robbed |-> FALSE]
  <2>1. due \in Nat
    <3>1. MsUntil(n) \in Int
      <4>1. n * Unit - Refilled \in Int /\ Rate \in Nat \ {0}
        BY BucketNumbers, RefilledIs DEF BucketInv
      <4>2. MsUntil(n) = -((-(n * Unit - Refilled)) \div Rate)
        BY DEF MsUntil
      <4> QED
        BY <4>1, <4>2, CeilingSuffices
    <3>2. Max({1, MsUntil(n)}) \in Nat
      BY <3>1, MaxOfTwo
    <3>3. now \in Nat
      BY BucketNumbers DEF BucketInv, BucketTypeOK
    <3> QED
      BY <3>2, <3>3
  <2>2. asleep \in Sleepers /\ asleep.n = n /\ asleep.due = due
    <3> HIDE DEF due
    <3> QED
      BY <2>1, BucketNumbers DEF Sleepers
  <2>3. Awake \in Sleepers
    BY BucketAssumption DEF Awake, Sleepers
  <2>4. sleeper \in [Takers -> Sleepers]
    BY DEF BucketInv, BucketTypeOK
  <2>5. sleeper' = [sleeper EXCEPT ![c] = Awake] \/ sleeper' = [sleeper EXCEPT ![c] = asleep]
    BY <1>2
  <2> HIDE DEF asleep
  <2>6. sleeper' \in [Takers -> Sleepers]
    BY <2>2, <2>3, <2>4, <2>5
  <2>7. \A d \in Takers :
            \/ sleeper'[d] = sleeper[d]
            \/ sleeper'[d] = Awake
            \/ sleeper'[d].n = n /\ sleeper'[d].due = due
    BY <2>2, <2>4, <2>5
  <2> QED
    BY <1>2, <2>6, <2>7, DenyKeepsInv
<1> QED
  BY <1>1, <1>2 DEF TakeTurn

\* Time passes.
LEMMA TickKeepsBucket ==
    ASSUME BucketInv, BucketTick
    PROVE  BucketInv'
<1>1. /\ now \in 0..MaxTime /\ now < MaxTime /\ MaxTime \in Nat /\ now' = now + 1
      /\ granted \in [0..MaxTime -> Nat]
      /\ granted' = [granted EXCEPT ![now + 1] = granted[now]]
      /\ tokens' = tokens /\ last' = last /\ sleeper' = sleeper
      /\ last \in 0..now /\ tokens \in 0..(Burst * Unit)
  BY BucketNumbers DEF BucketTick, BucketInv, BucketTypeOK
<1>2. BucketTypeOK'
  <2>1. granted' \in [0..MaxTime -> Nat] /\ now' \in 0..MaxTime /\ last' \in 0..now'
    BY <1>1
  <2> QED
    BY <1>1, <2>1 DEF BucketInv, BucketTypeOK
<1>3. \A t \in 0..now : granted'[t] = granted[t]
  BY <1>1
<1>4. granted'[now + 1] = granted[now] /\ granted[now] \in Nat
  BY <1>1
<1>5. \A s \in 0..now : GrantedBefore(s)' = GrantedBefore(s) /\ GrantedBefore(s) \in Nat
  BY <1>1, <1>3 DEF GrantedBefore
<1>6. \A s \in Nat : s = now + 1 => GrantedBefore(s)' = granted[now]
  BY <1>1, <1>3 DEF GrantedBefore
<1>r. Rate \in Nat /\ Burst * Unit \in Nat
  BY BucketNumbers
<1>7. /\ Refilled <= Refilled' /\ Refilled' <= Refilled + Rate
      /\ Refilled \in Nat /\ Refilled' \in Nat /\ Refilled' <= Burst * Unit
      /\ Refilled' = IF Burst * Unit <= tokens + (now + 1 - last) * Rate
                     THEN Burst * Unit ELSE tokens + (now + 1 - last) * Rate
  <2>1. /\ (now + 1 - last) * Rate = (now - last) * Rate + Rate
        /\ (now - last) * Rate \in Nat
    <3>1. now + 1 - last = (now - last) + 1 /\ now - last \in Nat
      BY <1>1
    <3>2. 1 * Rate = Rate
      BY <1>r
    <3> QED
      BY <1>r, <3>1, <3>2, Distributes
  <2>2. (tokens + (now - last) * Rate)' = tokens + (now + 1 - last) * Rate
    BY <1>1
  <2>3. Refilled' = IF Burst * Unit <= tokens + (now + 1 - last) * Rate
                    THEN Burst * Unit ELSE tokens + (now + 1 - last) * Rate
    BY <1>1, <1>r, <2>1, <2>2, MinOfTwo DEF Refilled
  <2>4. Refilled = IF Burst * Unit <= tokens + (now - last) * Rate
                   THEN Burst * Unit ELSE tokens + (now - last) * Rate
    BY RefilledIs DEF BucketInv
  <2>5. tokens \in Nat /\ tokens <= Burst * Unit
    BY <1>1, <1>r
  <2> QED
    BY <1>r, <2>1, <2>3, <2>4, <2>5
<1>8. \A s \in 0..now : (now + 1 - s) * Rate = (now - s) * Rate + Rate /\ (now - s) * Rate \in Int
  <2> SUFFICES ASSUME NEW s \in 0..now
               PROVE  (now + 1 - s) * Rate = (now - s) * Rate + Rate /\ (now - s) * Rate \in Int
    OBVIOUS
  <2> DEFINE a == now - s
  <2>1. now + 1 - s = a + 1 /\ a \in Int
    BY <1>1
  <2> HIDE DEF a
  <2>2. (a + 1) * Rate = a * Rate + Rate /\ a * Rate \in Int
    BY <1>r, <2>1, Distributes
  <2> QED
    BY <2>1, <2>2 DEF a
<1>9. RoomLeft'
  <2> SUFFICES ASSUME NEW s \in 0..(now + 1)
               PROVE  granted'[now + 1] - GrantedBefore(s)' + Refilled'
                        <= Burst * Unit + (now + 1 - s) * Rate
    BY <1>1 DEF RoomLeft
  <2>1. CASE s \in 0..now
    <3>1. granted[now] - GrantedBefore(s) + Refilled <= Burst * Unit + (now - s) * Rate
      BY <2>1 DEF BucketInv, RoomLeft
    <3> QED
      BY <1>r, <1>4, <1>5, <1>7, <1>8, <2>1, <3>1
  <2>2. CASE s = now + 1
    <3>1. now + 1 - s = 0
      BY <2>2, <1>1
    <3>2. (now + 1 - s) * Rate = 0
      BY <3>1, <1>r
    <3> QED
      BY <1>r, <1>4, <1>6, <1>7, <2>2, <3>2
  <2> QED
    BY <1>1, <2>1, <2>2
<1>10. RateHolds'
  <2> SUFFICES ASSUME NEW s \in 0..(now + 1), NEW t \in s..(now + 1)
               PROVE  granted'[t] - GrantedBefore(s)' <= Burst * Unit + (t - s) * Rate
    BY <1>1 DEF RateHolds
  <2>1. CASE t \in 0..now
    <3>1. s \in 0..now
      BY <1>1, <2>1
    <3>2. granted[t] - GrantedBefore(s) <= Burst * Unit + (t - s) * Rate
      BY <2>1, <3>1 DEF BucketInv, RateHolds
    <3> QED
      BY <1>3, <1>5, <2>1, <3>1, <3>2
  <2>2. CASE t = now + 1
    <3>1. granted'[now + 1] - GrantedBefore(s)' + Refilled'
            <= Burst * Unit + (now + 1 - s) * Rate
      BY <1>1, <1>9 DEF RoomLeft
    <3>2. (now + 1 - s) * Rate \in Int /\ GrantedBefore(s)' \in Int
      <4>1. now + 1 - s \in Int
        BY <1>1
      <4>2. s \in 0..now \/ s = now + 1
        BY <1>1
      <4> QED
        BY <1>r, <1>4, <1>5, <1>6, <4>1, <4>2
    <3>3. granted'[now + 1] \in Nat /\ Refilled' \in Nat /\ Burst * Unit \in Nat
      BY <1>r, <1>4, <1>7
    <3> DEFINE p == (now + 1 - s) * Rate
               b == Burst * Unit
    <3>4. granted'[t] = granted'[now + 1] /\ (t - s) * Rate = p
      BY <1>1, <2>2
    <3>5. p \in Int /\ b \in Int
      BY <3>2, <3>3
    <3>6. granted'[now + 1] - GrantedBefore(s)' + Refilled' <= b + p
      BY <3>1
    <3>7. granted'[t] - GrantedBefore(s)' <= b + (t - s) * Rate
      <4> HIDE DEF p, b
      <4>1. granted'[now + 1] - GrantedBefore(s)' <= b + p
        BY <3>2, <3>3, <3>5, <3>6
      <4> QED
        BY <3>4, <4>1
    <3> QED
      BY <3>7
  <2> QED
    BY <1>1, <2>1, <2>2
<1>11. ASSUME NEW c \in Takers
       PROVE  WillSuffice(c)'
  <2> SUFFICES ASSUME sleeper[c] # Awake, ~sleeper[c].robbed
               PROVE  WillSuffice(c)'
    BY <1>1 DEF WillSuffice
  <2> DEFINE due == sleeper[c].due
             need == sleeper[c].n * Unit
  <2>1. due \in Nat /\ need \in Nat /\ need <= Burst * Unit
    <3>1. sleeper[c] \in Sleepers /\ sleeper[c].n \in Amounts
      BY DEF BucketInv, BucketTypeOK
    <3> QED
      BY <3>1, BucketNumbers DEF Sleepers
  <2>2. WillSuffice(c)
    BY DEF BucketInv
  <2>3. due >= now => tokens + (due - last) * Rate >= need
    BY <2>2 DEF WillSuffice
  <2>4. due < now => Refilled >= need
    BY <1>1, <2>1, <2>2 DEF WillSuffice
  <2>5. due >= now + 1 => tokens' + (due - last') * Rate >= need
    BY <1>1, <2>1, <2>3
  <2>6. due < now + 1 => Refilled' >= need
    <3> SUFFICES ASSUME due < now + 1 PROVE Refilled' >= need
      OBVIOUS
    <3>1. CASE due < now
      BY <1>7, <2>1, <2>4, <3>1
    <3>2. CASE due = now
      <4>1. tokens + (now - last) * Rate >= need
        BY <1>1, <2>3, <3>2
      <4>2. Refilled >= need
        BY <2>1, <4>1, RefilledIs DEF BucketInv
      <4> QED
        BY <1>7, <2>1, <4>2
    <3> QED
      BY <1>1, <2>1, <3>1, <3>2
  <2> QED
    BY <1>1, <2>1, <2>5, <2>6 DEF WillSuffice
<1> QED
  BY <1>2, <1>9, <1>10, <1>11 DEF BucketInv

\* A full bucket that has granted nothing.
LEMMA InitBucket == BucketInit => BucketInv
<1> SUFFICES ASSUME BucketInit PROVE BucketInv
  OBVIOUS
<1>1. /\ now = 0 /\ last = 0 /\ tokens = Burst * Unit /\ Burst * Unit \in Nat
      /\ granted = [t \in 0..MaxTime |-> 0] /\ MaxTime \in Nat /\ Rate \in Nat
      /\ sleeper = [c \in Takers |-> Awake]
  BY BucketNumbers DEF BucketInit
<1>2. Awake \in Sleepers
  BY BucketAssumption DEF Awake, Sleepers
<1>3. BucketTypeOK
  BY <1>1, <1>2 DEF BucketTypeOK
<1>4. Refilled = Burst * Unit
  <2>1. (now - last) * Rate = 0
    BY <1>1
  <2> QED
    BY <1>1, <1>3, <2>1, RefilledIs
<1>5. GrantedBefore(0) = 0 /\ granted[0] = 0 /\ (0 - 0) * Rate = 0
  BY <1>1 DEF GrantedBefore
<1>6. RoomLeft /\ RateHolds
  BY <1>1, <1>4, <1>5 DEF RoomLeft, RateHolds
<1> QED
  BY <1>1, <1>3, <1>6 DEF BucketInv, WillSuffice

\* Every call, timer and tick keeps the invariant.
LEMMA StepBucket == BucketInv /\ [BucketNext]_bucketVars => BucketInv'
<1> SUFFICES ASSUME BucketInv, [BucketNext]_bucketVars
             PROVE  BucketInv'
  OBVIOUS
<1>n. now \in Nat /\ Timeouts \subseteq Nat
  BY BucketNumbers, BucketAssumption DEF BucketInv, BucketTypeOK
<1>1. ASSUME NEW c \in Takers, NEW n \in Amounts, TryTake(c, n)
      PROVE  BucketInv'
  <2>1. CASE Grant(c, n)
    BY <1>1, <2>1, GrantKeepsInv DEF TryTake
  <2>2. CASE Deny(n) /\ UNCHANGED sleeper
    <3>1. sleeper' \in [Takers -> Sleepers]
      BY <2>2 DEF BucketInv, BucketTypeOK
    <3> QED
      BY <1>1, <2>2, <3>1, DenyKeepsInv DEF TryTake
  <2> QED
    BY <1>1, <2>1, <2>2 DEF TryTake
<1>2. ASSUME NEW c \in Takers, NEW n \in Amounts, NEW timeout \in Timeouts,
             Take(c, n, timeout)
      PROVE  BucketInv'
  BY <1>n, <1>2, TurnKeepsInv DEF Take
<1>3. ASSUME NEW c \in Takers, WakeUp(c)
      PROVE  BucketInv'
  <2>1. sleeper[c] \in Sleepers /\ sleeper[c].n \in Amounts
    BY <1>3 DEF WakeUp, BucketInv, BucketTypeOK
  <2> QED
    BY <1>3, <2>1, TurnKeepsInv DEF WakeUp, Sleepers
<1>4. CASE BucketTick
  BY <1>4, TickKeepsBucket
<1>5. CASE UNCHANGED bucketVars
  BY <1>5 DEF bucketVars, BucketInv, BucketTypeOK, RateHolds, RoomLeft, WillSuffice,
              Refilled, GrantedBefore
<1> QED
  BY <1>1, <1>2, <1>3, <1>4, <1>5 DEF BucketNext

\* Between any two instants a TokenBucket grants no more than its capacity and
\* the refill of that time, and a take() that sleeps as long as msUntil() says
\* finds its tokens unless another call took them.
THEOREM BucketExact == BucketSpec => []BucketIsExact
<1>1. BucketInv => BucketIsExact
  <2> SUFFICES ASSUME BucketInv PROVE SleepSuffices
    BY DEF BucketInv, BucketIsExact
  <2> SUFFICES ASSUME NEW c \in Takers, sleeper[c] # Awake, ~sleeper[c].robbed,
                      now >= sleeper[c].due
               PROVE  Refilled >= sleeper[c].n * Unit
    BY DEF SleepSuffices
  <2>1. /\ sleeper[c].due \in Nat /\ now \in Nat
        /\ sleeper[c].n * Unit \in Nat /\ sleeper[c].n * Unit <= Burst * Unit
    <3>1. sleeper[c] \in Sleepers /\ sleeper[c].n \in Amounts
      BY DEF BucketInv, BucketTypeOK
    <3> QED
      BY <3>1, BucketNumbers DEF Sleepers, BucketInv, BucketTypeOK
  <2>2. WillSuffice(c)
    BY DEF BucketInv
  <2>3. CASE sleeper[c].due = now
    <3>1. tokens + (now - last) * Rate >= sleeper[c].n * Unit
      BY <2>1, <2>2, <2>3 DEF WillSuffice
    <3> QED
      BY <2>1, <3>1, RefilledIs DEF BucketInv
  <2>4. CASE sleeper[c].due < now
    BY <2>1, <2>2, <2>4 DEF WillSuffice
  <2> QED
    BY <2>1, <2>3, <2>4
<1> QED
  BY <1>1, InitBucket, StepBucket, PTL DEF BucketSpec

----------------------------------------------------------------------------
(* The semaphores *)

\* g sums the needs of the first n requests of rs.
Sums(rs, n, g) == g = [k \in 0..n |-> IF k = 0 THEN 0 ELSE g[k - 1] + rs[k].need]

\* The sums over a queue exist, one request after the other.
LEMMA SumsExist ==
    ASSUME NEW rs, Len(rs) \in Nat
    PROVE  \E g : Sums(rs, Len(rs), g)
<1> DEFINE U == {n \in Nat : ~ \E g : Sums(rs, n, g)}
<1>1. U = {}
  <2> SUFFICES ASSUME U # {} PROVE FALSE
    OBVIOUS
  <2>1. PICK n \in U : \A x \in U : n <= x
    BY LeastIsIn
  <2>2. CASE n = 0
    <3>1. Sums(rs, 0, [k \in 0..0 |-> 0])
      BY DEF Sums
    <3> QED
      BY <2>1, <2>2, <3>1
  <2>3. CASE n # 0
    <3>1. n \in Nat /\ n - 1 \in Nat /\ n - 1 \notin U
      BY <2>1, <2>3
    <3>2. PICK g : Sums(rs, n - 1, g)
      BY <3>1
    <3> DEFINE h == [k \in 0..n |-> IF k < n THEN g[k] ELSE g[n - 1] + rs[n].need]
    <3>3. \A k \in 0..n : h[k] = IF k = 0 THEN 0 ELSE h[k - 1] + rs[k].need
      <4> SUFFICES ASSUME NEW k \in 0..n
                   PROVE  h[k] = IF k = 0 THEN 0 ELSE h[k - 1] + rs[k].need
        OBVIOUS
      <4>1. CASE k = n
        BY <3>1, <4>1, <2>3
      <4>2. CASE k < n
        <5>1. k \in 0..(n - 1) /\ h[k] = g[k]
          BY <3>1, <4>2
        <5>2. g[k] = IF k = 0 THEN 0 ELSE g[k - 1] + rs[k].need
          BY <3>2, <5>1 DEF Sums
        <5>3. k # 0 => h[k - 1] = g[k - 1]
          BY <3>1, <4>2
        <5> QED
          BY <5>1, <5>2, <5>3
      <4> QED
        BY <4>1, <4>2, <3>1
    <3>4. Sums(rs, n, h)
      <4>1. h = [k \in 0..n |-> h[k]]
        OBVIOUS
      <4> QED
        BY <3>3, <4>1 DEF Sums
    <3> QED
      BY <2>1, <3>4
  <2> QED
    BY <2>2, <2>3
<1> QED
  BY <1>1

\* What the first k requests of a queue ask for, request by request.
LEMMA AskedIs ==
    ASSUME NEW rs, Len(rs) \in Nat, \A i \in 1..Len(rs) : rs[i].need \in Nat \ {0}
    PROVE  /\ Asked(rs)[0] = 0
           /\ \A k \in 1..Len(rs) : Asked(rs)[k] = Asked(rs)[k - 1] + rs[k].need
           /\ \A k \in 0..Len(rs) : Asked(rs)[k] \in Nat /\ Asked(rs)[k] >= k
<1> DEFINE A == CHOOSE g : g = [k \in 0..Len(rs) |-> IF k = 0 THEN 0 ELSE g[k - 1] + rs[k].need]
<1>1. A = Asked(rs)
  BY DEF Asked
<1>2. A = [k \in 0..Len(rs) |-> IF k = 0 THEN 0 ELSE A[k - 1] + rs[k].need]
  BY SumsExist DEF Sums
<1> HIDE DEF A
<1>3. A[0] = 0 /\ \A k \in 1..Len(rs) : A[k] = A[k - 1] + rs[k].need
  BY <1>2
<1> DEFINE U == {k \in Nat : k <= Len(rs) /\ ~ (A[k] \in Nat /\ A[k] >= k)}
<1>4. U = {}
  <2> SUFFICES ASSUME U # {} PROVE FALSE
    OBVIOUS
  <2>1. PICK k \in U : \A x \in U : k <= x
    BY LeastIsIn
  <2>2. CASE k = 0
    BY <1>3, <2>2
  <2>3. CASE k # 0
    <3>1. k - 1 \in Nat /\ k - 1 \notin U /\ k \in 1..Len(rs) /\ k - 1 <= Len(rs)
      BY <2>1, <2>3
    <3>2. A[k - 1] \in Nat /\ A[k - 1] >= k - 1 /\ rs[k].need \in Nat \ {0}
      BY <3>1
    <3>3. A[k] = A[k - 1] + rs[k].need
      BY <3>1, <1>3
    <3> QED
      BY <3>1, <3>2, <3>3
  <2> QED
    BY <2>2, <2>3
<1>5. \A k \in 0..Len(rs) : A[k] \in Nat /\ A[k] >= k
  BY <1>4
<1> QED
  BY <1>1, <1>3, <1>5

\* processQueue() grants as many as it may: what is left is not enough for the
\* next request.
LEMMA GrantedIs ==
    ASSUME NEW rs, Len(rs) \in Nat, \A i \in 1..Len(rs) : rs[i].need \in Nat \ {0},
           NEW p \in Nat
    PROVE  LET k == Granted(rs, p)
           IN  /\ k \in 0..Len(rs)
               /\ p - Asked(rs)[k] \in Nat
               /\ k < Len(rs) => p - Asked(rs)[k] < rs[k + 1].need
               /\ \A j \in 0..Len(rs) : Asked(rs)[j] <= p => j <= k
<1> DEFINE K == {k \in 0..Len(rs) : Asked(rs)[k] <= p}
           k == Granted(rs, p)
<1>1. k = Max(K)
  BY DEF Granted
<1>2. 0 \in K /\ K \in SUBSET (0..Len(rs))
  BY AskedIs
<1>3. k \in K /\ \A x \in K : x <= k
  <2> HIDE DEF K, k
  <2> QED
    BY <1>1, <1>2, MaxIsIn
<1> HIDE DEF k
<1>4. k \in 0..Len(rs) /\ Asked(rs)[k] <= p /\ Asked(rs)[k] \in Nat
  BY <1>3, AskedIs
<1>5. k < Len(rs) => p - Asked(rs)[k] < rs[k + 1].need
  <2> SUFFICES ASSUME k < Len(rs) PROVE p - Asked(rs)[k] < rs[k + 1].need
    OBVIOUS
  <2>1. k + 1 \in 1..Len(rs) /\ k + 1 \in 0..Len(rs) /\ (k + 1) - 1 = k /\ ~ (k + 1 <= k)
    BY <1>4
  <2>2. ~ (Asked(rs)[k + 1] <= p)
    BY <1>3, <2>1
  <2>3. Asked(rs)[k + 1] = Asked(rs)[k] + rs[k + 1].need /\ rs[k + 1].need \in Nat
    BY <2>1, AskedIs
  <2> QED
    BY <1>4, <2>2, <2>3
<1>6. \A j \in 0..Len(rs) : Asked(rs)[j] <= p => j <= k
  BY <1>3
<1> QED
  BY <1>4, <1>5, <1>6 DEF k

SemRequests == [who : Clients, need : Needs]

\* A client has one request or one handle at a time.
OneEach(rs, h) ==
    /\ \A i, j \in 1..Len(rs) : rs[i].who = rs[j].who => i = j
    /\ \A i \in 1..Len(rs) : h[rs[i].who] = 0

SemInv ==
    /\ permits \in Nat
    /\ requests \in Seq(SemRequests)
    /\ held \in [Clients -> Nat]
    /\ OneEach(requests, held)
    /\ HeadIsBlocked

\* A queue of requests as the lemmas above want it.
LEMMA RequestQueue ==
    ASSUME NEW rs \in Seq(SemRequests)
    PROVE  /\ Len(rs) \in Nat
           /\ \A i \in 1..Len(rs) : /\ rs[i] \in SemRequests
                                    /\ rs[i].who \in Clients
                                    /\ rs[i].need \in Nat \ {0}
<1>1. Len(rs) \in Nat /\ \A i \in 1..Len(rs) : rs[i] \in SemRequests
  OBVIOUS
<1> QED
  BY <1>1, SemaphoreAssumption DEF SemRequests

\* Who holds what after processQueue().
LEMMA ProcessGrants ==
    ASSUME NEW rs \in Seq(SemRequests), NEW p \in Nat, NEW h \in [Clients -> Nat],
           OneEach(rs, h), ProcessQueue(rs, p, h)
    PROVE  LET k == Granted(rs, p)
           IN  /\ held' \in [Clients -> Nat]
               /\ \A i \in 1..k : held'[rs[i].who] = rs[i].need
               /\ \A c \in Clients : (\A i \in 1..k : rs[i].who # c) => held'[c] = h[c]
<1> DEFINE k == Granted(rs, p)
<1>1. k \in 0..Len(rs) /\ Len(rs) \in Nat
  BY RequestQueue, GrantedIs
<1>2. held' = [c \in Clients |-> IF \E i \in 1..k : rs[i].who = c
                                 THEN rs[CHOOSE i \in 1..k : rs[i].who = c].need
                                 ELSE h[c]]
  BY DEF ProcessQueue
<1> HIDE DEF k
<1>3. \A i \in 1..k : i \in 1..Len(rs)
  BY <1>1
<1>4. \A c \in Clients : (\E i \in 1..k : rs[i].who = c) =>
         LET j == CHOOSE i \in 1..k : rs[i].who = c IN j \in 1..k /\ rs[j].who = c
  OBVIOUS
<1>5. \A i \in 1..k : held'[rs[i].who] = rs[i].need
  <2> SUFFICES ASSUME NEW i \in 1..k PROVE held'[rs[i].who] = rs[i].need
    OBVIOUS
  <2> DEFINE c == rs[i].who
             j == CHOOSE n \in 1..k : rs[n].who = c
  <2>1. c \in Clients
    BY <1>3, RequestQueue
  <2>2. j \in 1..k /\ rs[j].who = c
    BY <1>4, <2>1
  <2>3. held'[c] = rs[j].need
    BY <1>2, <2>1
  <2> HIDE DEF j
  <2>4. j = i
    BY <1>3, <2>2 DEF OneEach
  <2> QED
    BY <2>3, <2>4
<1>6. \A c \in Clients : (\A i \in 1..k : rs[i].who # c) => held'[c] = h[c]
  BY <1>2
<1>7. held' \in [Clients -> Nat]
  <2>1. \A c \in Clients : held'[c] \in Nat
    <3> SUFFICES ASSUME NEW c \in Clients PROVE held'[c] \in Nat
      OBVIOUS
    <3>1. CASE \E i \in 1..k : rs[i].who = c
      BY <1>3, <1>5, <3>1, RequestQueue
    <3>2. CASE \A i \in 1..k : rs[i].who # c
      BY <1>6, <3>2
    <3> QED
      BY <3>1, <3>2
  <2> QED
    BY <1>2, <2>1
<1> QED
  BY <1>5, <1>6, <1>7 DEF k

\* What is left of a queue without its first k entries.
LEMMA Suffix ==
    ASSUME NEW S, NEW s \in Seq(S), NEW k \in 0..Len(s)
    PROVE  LET t == SubSeq(s, k + 1, Len(s))
           IN  /\ t \in Seq(S)
               /\ Len(t) = Len(s) - k
               /\ \A i \in 1..Len(t) : k + i \in 1..Len(s) /\ t[i] = s[k + i]
<1> DEFINE t == SubSeq(s, k + 1, Len(s))
<1>1. Len(s) \in Nat /\ k \in Nat /\ k <= Len(s)
  OBVIOUS
<1>2. Len(t) = Len(s) - k
  BY <1>1
<1>3. \A i \in 1..Len(t) : k + i \in 1..Len(s) /\ t[i] = s[k + i]
  <2> SUFFICES ASSUME NEW i \in 1..(Len(s) - k)
               PROVE  k + i \in 1..Len(s) /\ t[i] = s[k + i]
    BY <1>2
  <2>1. i + (k + 1) - 1 = k + i
    BY <1>1
  <2> QED
    BY <1>1, <2>1
<1>4. t \in Seq(S)
  BY <1>1
<1> QED
  BY <1>2, <1>3, <1>4

\* processQueue() keeps the invariant.
LEMMA ProcessKeepsInv ==
    ASSUME NEW rs \in Seq(SemRequests), NEW p \in Nat, NEW h \in [Clients -> Nat],
           OneEach(rs, h), ProcessQueue(rs, p, h)
    PROVE  SemInv'
<1> DEFINE k == Granted(rs, p)
<1>1. /\ k \in 0..Len(rs) /\ Len(rs) \in Nat
      /\ p - Asked(rs)[k] \in Nat
      /\ k < Len(rs) => p - Asked(rs)[k] < rs[k + 1].need
  BY RequestQueue, GrantedIs
<1>2. permits' = p - Asked(rs)[k] /\ requests' = SubSeq(rs, k + 1, Len(rs))
  BY DEF ProcessQueue
<1>3. /\ held' \in [Clients -> Nat]
      /\ \A c \in Clients : (\A i \in 1..k : rs[i].who # c) => held'[c] = h[c]
  BY ProcessGrants
<1> HIDE DEF k
<1>4. /\ requests' \in Seq(SemRequests)
      /\ Len(requests') = Len(rs) - k
      /\ \A i \in 1..Len(requests') : k + i \in 1..Len(rs) /\ requests'[i] = rs[k + i]
  BY <1>1, <1>2, Suffix
<1>5. OneEach(requests, held)'
  <2>1. \A i, j \in 1..Len(requests') : requests'[i].who = requests'[j].who => i = j
    <3> SUFFICES ASSUME NEW i \in 1..Len(requests'), NEW j \in 1..Len(requests'),
                        requests'[i].who = requests'[j].who
                 PROVE  i = j
      OBVIOUS
    <3>1. k + i \in 1..Len(rs) /\ k + j \in 1..Len(rs) /\ rs[k + i].who = rs[k + j].who
      BY <1>4
    <3>2. k + i = k + j
      BY <3>1 DEF OneEach
    <3> QED
      BY <1>1, <3>2
  <2>2. \A i \in 1..Len(requests') : held'[requests'[i].who] = 0
    <3> SUFFICES ASSUME NEW i \in 1..Len(requests')
                 PROVE  held'[requests'[i].who] = 0
      OBVIOUS
    <3>1. k + i \in 1..Len(rs) /\ requests'[i] = rs[k + i] /\ rs[k + i].who \in Clients
      BY <1>4, RequestQueue
    <3>2. h[rs[k + i].who] = 0
      BY <3>1 DEF OneEach
    <3>3. \A j \in 1..k : rs[j].who # rs[k + i].who
      <4> SUFFICES ASSUME NEW j \in 1..k, rs[j].who = rs[k + i].who PROVE FALSE
        OBVIOUS
      <4>1. j \in 1..Len(rs) /\ j # k + i
        BY <1>1
      <4> QED
        BY <3>1, <4>1 DEF OneEach
    <3> QED
      BY <1>3, <3>1, <3>2, <3>3
  <2> QED
    BY <2>1, <2>2 DEF OneEach
<1>6. HeadIsBlocked'
  <2> SUFFICES ASSUME requests' # <<>> PROVE permits' < Head(requests').need
    BY DEF HeadIsBlocked
  <2>1. Len(requests') # 0 /\ Head(requests') = requests'[1] /\ 1 \in 1..Len(requests')
    BY <1>4
  <2>2. k < Len(rs) /\ Head(requests') = rs[k + 1]
    BY <1>1, <1>4, <2>1
  <2> QED
    BY <1>1, <1>2, <2>2
<1> QED
  BY <1>1, <1>2, <1>3, <1>4, <1>5, <1>6 DEF SemInv

\* A new request joins the queue.
LEMMA JoinedQueue ==
    ASSUME SemInv, NEW c \in Clients, NEW n \in Needs, held[c] = 0, c \notin Queued
    PROVE  LET rs == Append(requests, Request(c, n))
           IN  /\ rs \in Seq(SemRequests) /\ OneEach(rs, held)
               /\ Len(rs) = Len(requests) + 1
               /\ \A i \in 1..Len(requests) : rs[i] = requests[i]
               /\ rs[Len(rs)] = Request(c, n)
<1> DEFINE rs == Append(requests, Request(c, n))
<1>1. requests \in Seq(SemRequests) /\ Request(c, n) \in SemRequests
  BY DEF SemInv, Request, SemRequests
<1>2. /\ rs \in Seq(SemRequests)
      /\ Len(rs) = Len(requests) + 1
      /\ \A i \in 1..Len(requests) : rs[i] = requests[i]
      /\ rs[Len(rs)] = Request(c, n)
  BY <1>1
<1>3. Request(c, n).who = c
  BY DEF Request
<1>4. \A i \in 1..Len(requests) : requests[i].who # c
  BY <1>1 DEF Queued
<1>5. Len(requests) \in Nat
  BY <1>1
<1> HIDE DEF rs
<1>6. \A i \in 1..Len(rs) : i \in 1..Len(requests) \/ i = Len(rs)
  BY <1>2, <1>5
<1>7. OneEach(rs, held)
  BY <1>2, <1>3, <1>4, <1>6 DEF SemInv, OneEach
<1> QED
  BY <1>2, <1>7 DEF rs

\* The fast path of Semaphore's acquire() does what the queue would do.
LEMMA FastPath ==
    ASSUME SemInv, NEW c \in Clients, NEW n \in Needs, held[c] = 0, c \notin Queued,
           requests = <<>>, permits >= n
    PROVE  ProcessQueue(Append(requests, Request(c, n)), permits, held)
              <=> /\ permits' = permits - n
                  /\ held' = [held EXCEPT ![c] = n]
                  /\ UNCHANGED requests
<1> DEFINE rs == Append(requests, Request(c, n))
           k == Granted(rs, permits)
<1>0. permits \in Nat /\ n \in Nat \ {0} /\ held \in [Clients -> Nat]
  BY SemaphoreAssumption DEF SemInv
<1>1. rs = <<Request(c, n)>> /\ Len(rs) = 1 /\ rs[1] = Request(c, n)
  OBVIOUS
<1>2. rs[1].who = c /\ rs[1].need = n
  BY <1>1 DEF Request
<1> HIDE DEF rs
<1>q. Len(rs) \in Nat /\ 1 \in 1..Len(rs) /\ 1 - 1 = 0
      /\ \A i \in 1..Len(rs) : rs[i].need \in Nat \ {0}
  BY <1>0, <1>1, <1>2
<1>3. Asked(rs)[1] = n
  BY <1>0, <1>2, <1>q, AskedIs
<1>4. k = 1
  <2>1. k \in 0..Len(rs) /\ \A j \in 0..Len(rs) : Asked(rs)[j] <= permits => j <= k
    BY <1>0, <1>q, GrantedIs
  <2> HIDE DEF k
  <2> QED
    BY <1>1, <1>3, <2>1
<1> HIDE DEF k
<1>5. SubSeq(rs, k + 1, Len(rs)) = <<>>
  BY <1>1, <1>4
<1>6. \A d \in Clients : (\E i \in 1..k : rs[i].who = d) <=> d = c
  BY <1>2, <1>4
<1>7. (CHOOSE i \in 1..k : rs[i].who = c) = 1
  BY <1>2, <1>4
<1>8. [d \in Clients |-> IF \E i \in 1..k : rs[i].who = d
                         THEN rs[CHOOSE i \in 1..k : rs[i].who = d].need
                         ELSE held[d]]
      = [held EXCEPT ![c] = n]
  <2>1. ASSUME NEW d \in Clients
        PROVE  (IF \E i \in 1..k : rs[i].who = d
                THEN rs[CHOOSE i \in 1..k : rs[i].who = d].need
                ELSE held[d]) = [held EXCEPT ![c] = n][d]
    <3>1. CASE d = c
      BY <1>0, <1>2, <1>6, <1>7, <3>1
    <3>2. CASE d # c
      BY <1>0, <1>6, <3>2
    <3> QED
      BY <3>1, <3>2
  <2>2. [held EXCEPT ![c] = n] = [d \in Clients |-> [held EXCEPT ![c] = n][d]]
    BY <1>0
  <2> QED
    BY <2>1, <2>2
<1>9. ProcessQueue(rs, permits, held)
         <=> /\ permits' = permits - Asked(rs)[k]
             /\ requests' = SubSeq(rs, k + 1, Len(rs))
             /\ held' = [d \in Clients |-> IF \E i \in 1..k : rs[i].who = d
                                           THEN rs[CHOOSE i \in 1..k : rs[i].who = d].need
                                           ELSE held[d]]
  BY DEF ProcessQueue, k
<1> QED
  BY <1>3, <1>4, <1>5, <1>8, <1>9 DEF rs

\* So that acquire() of the two classes is the same.
LEMMA AcquiresAgree ==
    ASSUME SemInv, NEW c \in Clients, NEW n \in Needs
    PROVE  AcquirePermits(c, n) <=> FairAcquire(c, n)
<1>1. CASE held[c] = 0 /\ c \notin Queued /\ requests = <<>> /\ permits >= n
  BY <1>1, FastPath DEF AcquirePermits, FairAcquire
<1>2. CASE ~ (held[c] = 0 /\ c \notin Queued /\ requests = <<>> /\ permits >= n)
  BY <1>2 DEF AcquirePermits, FairAcquire
<1> QED
  BY <1>1, <1>2

\* Who gets its permits from processQueue() is not preceded by one who does not.
InOrder ==
    \A c \in Clients :
        held[c] = 0 /\ held'[c] > 0 =>
            \A i \in DOMAIN requests :
                (\A j \in 1..i : requests[j].who # c) => held'[requests[i].who] > 0

\* Processing a queue that begins with the requests there are, with holdings
\* that give nobody a permit, grants in order.
LEMMA ProcessInOrder ==
    ASSUME SemInv, NEW rs \in Seq(SemRequests), NEW p \in Nat,
           NEW h \in [Clients -> Nat], OneEach(rs, h), ProcessQueue(rs, p, h),
           Len(rs) >= Len(requests),
           \A i \in 1..Len(requests) : rs[i] = requests[i],
           \A c \in Clients : held[c] = 0 => h[c] = 0
    PROVE  InOrder
<1> SUFFICES ASSUME NEW c \in Clients, held[c] = 0, held'[c] > 0,
                    NEW i \in DOMAIN requests,
                    \A j \in 1..i : requests[j].who # c
             PROVE  held'[requests[i].who] > 0
  BY DEF InOrder
<1> DEFINE k == Granted(rs, p)
<1>1. /\ k \in 0..Len(rs) /\ Len(rs) \in Nat
      /\ \A j \in 1..k : held'[rs[j].who] = rs[j].need
      /\ \A d \in Clients : (\A j \in 1..k : rs[j].who # d) => held'[d] = h[d]
  <2>1. k \in 0..Len(rs) /\ Len(rs) \in Nat
    BY RequestQueue, GrantedIs
  <2> QED
    BY <2>1, ProcessGrants
<1> HIDE DEF k
<1>2. i \in 1..Len(requests) /\ Len(requests) \in Nat
  BY DEF SemInv
<1>3. PICK j \in 1..k : rs[j].who = c
  <2>1. h[c] = 0
    OBVIOUS
  <2> QED
    BY <1>1, <2>1
<1>4. i <= k
  <2> SUFFICES ASSUME i > k PROVE FALSE
    BY <1>1, <1>2
  <2>1. j \in 1..i /\ j \in 1..Len(requests)
    BY <1>1, <1>2
  <2> QED
    BY <1>3, <2>1
<1>5. i \in 1..k /\ i \in 1..Len(rs) /\ rs[i] = requests[i]
  BY <1>1, <1>2, <1>4
<1>6. held'[requests[i].who] = rs[i].need /\ rs[i].need \in Nat \ {0}
  BY <1>1, <1>5, RequestQueue
<1> QED
  BY <1>6

\* acquire() keeps the invariant and the order.
LEMMA AcquireKeeps ==
    ASSUME SemInv, NEW c \in Clients, NEW n \in Needs, FairAcquire(c, n)
    PROVE  SemInv' /\ InOrder
<1> DEFINE rs == Append(requests, Request(c, n))
<1>1. held[c] = 0 /\ c \notin Queued /\ ProcessQueue(rs, permits, held)
  BY DEF FairAcquire
<1>2. /\ rs \in Seq(SemRequests) /\ OneEach(rs, held)
      /\ Len(rs) = Len(requests) + 1
      /\ \A i \in 1..Len(requests) : rs[i] = requests[i]
  BY <1>1, JoinedQueue
<1>3. permits \in Nat /\ held \in [Clients -> Nat] /\ Len(requests) \in Nat
  BY DEF SemInv
<1> HIDE DEF rs
<1>4. Len(rs) >= Len(requests)
  BY <1>2, <1>3
<1> QED
  BY <1>1, <1>2, <1>3, <1>4, ProcessKeepsInv, ProcessInOrder

\* A handle keeps them.
LEMMA ReleaseKeeps ==
    ASSUME SemInv, NEW c \in Clients, ReleasePermits(c)
    PROVE  SemInv' /\ InOrder
<1> DEFINE h == [held EXCEPT ![c] = 0]
<1>1. /\ requests \in Seq(SemRequests) /\ permits \in Nat /\ held \in [Clients -> Nat]
      /\ OneEach(requests, held) /\ Len(requests) \in Nat
  BY DEF SemInv
<1>2. h \in [Clients -> Nat] /\ \A d \in Clients : held[d] = 0 => h[d] = 0
  BY <1>1
<1>3. OneEach(requests, h)
  BY <1>1, <1>2, RequestQueue DEF OneEach
<1>4. permits + held[c] \in Nat /\ ProcessQueue(requests, permits + held[c], h)
  BY <1>1 DEF ReleasePermits
<1>5. Len(requests) >= Len(requests)
  BY <1>1
<1> HIDE DEF h
<1> QED
  BY <1>1, <1>2, <1>3, <1>4, <1>5, ProcessKeepsInv, ProcessInOrder

\* So does release(n).
LEMMA RaiseKeeps ==
    ASSUME SemInv, NEW n \in Needs, RaisePermits(n)
    PROVE  SemInv' /\ InOrder
<1>1. /\ requests \in Seq(SemRequests) /\ permits \in Nat /\ held \in [Clients -> Nat]
      /\ OneEach(requests, held) /\ Len(requests) \in Nat /\ n \in Nat
  BY SemaphoreAssumption DEF SemInv
<1>2. permits + n \in Nat /\ Len(requests) >= Len(requests)
      /\ ProcessQueue(requests, permits + n, held)
  BY <1>1 DEF RaisePermits
<1> QED
  BY <1>1, <1>2, ProcessKeepsInv, ProcessInOrder

\* A request is granted after those before it and as soon as the permits are
\* there, and Semaphore and FairSemaphore are one machine, for any clients, any
\* number of permits, and requests and releases of any size.
THEOREM NobodyOvertakes == SemSpec => NoOvertaking
<1>1. SemInit => SemInv
  <2> SUFFICES ASSUME SemInit PROVE SemInv
    OBVIOUS
  <2>1. permits \in Nat /\ requests \in Seq(SemRequests) /\ held \in [Clients -> Nat]
        /\ requests = <<>> /\ Len(requests) = 0
    BY SemaphoreAssumption DEF SemInit
  <2> QED
    BY <2>1 DEF SemInv, OneEach, HeadIsBlocked
<1>2. SemInv /\ [SemNext]_semVars => SemInv' /\ [InOrder]_semVars
  <2> SUFFICES ASSUME SemInv, [SemNext]_semVars PROVE SemInv' /\ [InOrder]_semVars
    OBVIOUS
  <2>1. CASE UNCHANGED semVars
    BY <2>1 DEF semVars, SemInv, HeadIsBlocked, OneEach
  <2>2. ASSUME NEW c \in Clients, NEW n \in Needs, AcquirePermits(c, n)
        PROVE  SemInv' /\ InOrder
    BY <2>2, AcquiresAgree, AcquireKeeps
  <2>3. CASE SemNext
    BY <2>2, <2>3, ReleaseKeeps, RaiseKeeps DEF SemNext
  <2> QED
    BY <2>1, <2>3
<1>3. SemInv => [\A c \in Clients, n \in Needs :
                    AcquirePermits(c, n) <=> FairAcquire(c, n)]_semVars
  BY AcquiresAgree
<1>4. SemInv => HeadIsBlocked
  BY DEF SemInv
<1> QED
  BY <1>1, <1>2, <1>3, <1>4, PTL DEF SemSpec, NoOvertaking, GrantsInOrder, FastPathIsFair, InOrder

----------------------------------------------------------------------------
(* The mutex *)

\* The queue that the semaphore has instead of the mutex's.
AsRequests(s) == [i \in DOMAIN s |-> [who |-> s[i], need |-> 1]]

MutexInv ==
    /\ locked \in BOOLEAN
    /\ q \in Seq(Lockers)
    /\ owners \subseteq Lockers
    /\ \A i, j \in 1..Len(q) : q[i] = q[j] => i = j
    /\ \A i \in 1..Len(q) : q[i] \notin owners
    /\ \A a, b \in owners : a = b
    /\ locked <=> owners # {}
    /\ ~locked => q = <<>>

\* A queue of locks is a queue of requests for one permit each.
LEMMA AsRequestsIs ==
    ASSUME NEW s \in Seq(Lockers)
    PROVE  LET rs == AsRequests(s)
           IN  /\ rs \in Seq([who : Lockers, need : {1}])
               /\ Len(rs) = Len(s) /\ Len(rs) \in Nat
               /\ \A i \in 1..Len(s) : /\ rs[i] = [who |-> s[i], need |-> 1]
                                       /\ rs[i].who = s[i] /\ rs[i].need = 1
                                       /\ rs[i].need \in Nat \ {0}
<1>1. Len(s) \in Nat /\ DOMAIN s = 1..Len(s) /\ \A i \in 1..Len(s) : s[i] \in Lockers
  OBVIOUS
<1>2. AsRequests(s) = [i \in 1..Len(s) |-> [who |-> s[i], need |-> 1]]
  BY <1>1 DEF AsRequests
<1> QED
  BY <1>1, <1>2

\* How many of a queue of locks p permits serve, and what is left.
LEMMA LocksGranted ==
    ASSUME NEW s \in Seq(Lockers), NEW p \in {0, 1}
    PROVE  LET rs == AsRequests(s)
               k == Granted(rs, p)
           IN  /\ s = <<>> \/ p = 0 => k = 0 /\ Asked(rs)[k] = 0
               /\ s # <<>> /\ p = 1 => k = 1 /\ Asked(rs)[k] = 1
<1> DEFINE rs == AsRequests(s)
           k == Granted(rs, p)
<1>1. Len(rs) = Len(s) /\ Len(s) \in Nat
      /\ \A i \in 1..Len(rs) : rs[i].need \in Nat \ {0} /\ rs[i].need = 1
  BY AsRequestsIs
<1>2. p \in Nat
  OBVIOUS
<1> HIDE DEF rs
<1>3. /\ k \in 0..Len(rs)
      /\ p - Asked(rs)[k] \in Nat
      /\ \A j \in 0..Len(rs) : Asked(rs)[j] <= p => j <= k
  BY <1>1, <1>2, GrantedIs
<1>4. /\ Asked(rs)[0] = 0
      /\ \A j \in 1..Len(rs) : Asked(rs)[j] = Asked(rs)[j - 1] + rs[j].need
      /\ \A j \in 0..Len(rs) : Asked(rs)[j] \in Nat /\ Asked(rs)[j] >= j
  BY <1>1, AskedIs
<1> HIDE DEF k
<1>5. k <= p
  BY <1>1, <1>2, <1>3, <1>4
<1>6. s = <<>> \/ p = 0 => k = 0 /\ Asked(rs)[k] = 0
  BY <1>1, <1>3, <1>4, <1>5
<1>7. s # <<>> /\ p = 1 => k = 1 /\ Asked(rs)[k] = 1
  <2> SUFFICES ASSUME s # <<>>, p = 1 PROVE k = 1 /\ Asked(rs)[k] = 1
    OBVIOUS
  <2>1. 1 \in 1..Len(rs) /\ 1 - 1 = 0
    BY <1>1
  <2>2. Asked(rs)[1] = 1
    BY <1>1, <1>4, <2>1
  <2> QED
    BY <1>3, <1>5, <2>1, <2>2
<1> QED
  BY <1>6, <1>7 DEF rs, k

\* The mutex as the semaphore sees it.
SemHeld(o) == [c \in Lockers |-> IF c \in o THEN 1 ELSE 0]

\* processQueue() of the semaphore, seen from the mutex.
MutexProcesses(rs, p, h) ==
    LET k == Granted(rs, p)
    IN  /\ (IF locked' THEN 0 ELSE 1) = p - Asked(rs)[k]
        /\ AsRequests(q') = SubSeq(rs, k + 1, Len(rs))
        /\ SemHeld(owners') = [c \in Lockers |->
                                  IF \E i \in 1..k : rs[i].who = c
                                  THEN rs[CHOOSE i \in 1..k : rs[i].who = c].need
                                  ELSE h[c]]

\* acquire() of a taken lock is the semaphore's.
LEMMA QueueUpIs ==
    ASSUME NEW c \in Lockers, c \notin owners, c \notin OneSemaphore!Queued, locked,
           MutexProcesses(Append(AsRequests(q), OneSemaphore!Request(c, 1)),
                          IF locked THEN 0 ELSE 1, SemHeld(owners))
    PROVE  OneSemaphore!AcquirePermits(c, 1)
<1>1. ~ ((IF locked THEN 0 ELSE 1) >= 1)
  OBVIOUS
<1>2. [d \in Lockers |-> IF d \in owners THEN 1 ELSE 0][c] = 0
  OBVIOUS
<1> QED
  BY <1>1, <1>2
     DEF OneSemaphore!AcquirePermits, OneSemaphore!ProcessQueue, MutexProcesses, AsRequests, SemHeld,
         OneSemaphore!Granted, OneSemaphore!Asked, OneSemaphore!Max, Granted, Asked, Max

\* A release of the mutex is the semaphore's.
LEMMA ReleaseIs ==
    ASSUME NEW c \in Lockers, SemHeld(owners)[c] > 0,
           MutexProcesses(AsRequests(q), (IF locked THEN 0 ELSE 1) + SemHeld(owners)[c],
                          [SemHeld(owners) EXCEPT ![c] = 0])
    PROVE  OneSemaphore!ReleasePermits(c)
BY DEF OneSemaphore!ReleasePermits, OneSemaphore!ProcessQueue, MutexProcesses, AsRequests, SemHeld,
       OneSemaphore!Granted, OneSemaphore!Asked, OneSemaphore!Max, Granted, Asked, Max

\* What a queue of locks becomes.
LEMMA LocksProcessed ==
    ASSUME NEW s \in Seq(Lockers), NEW p \in {0, 1}, NEW o \in SUBSET Lockers,
           locked' \in BOOLEAN,
           IF s # <<>> /\ p = 1
           THEN owners' = o \cup {Head(s)} /\ q' = Tail(s) /\ locked'
           ELSE owners' = o /\ q' = s /\ (locked' <=> p = 0)
    PROVE  MutexProcesses(AsRequests(s), p, SemHeld(o))
<1> DEFINE rs == AsRequests(s)
           k == Granted(rs, p)
<1>1. /\ Len(rs) = Len(s) /\ Len(s) \in Nat
      /\ \A i \in 1..Len(s) : rs[i] = [who |-> s[i], need |-> 1]
                              /\ rs[i].who = s[i] /\ rs[i].need = 1
      /\ rs = [i \in 1..Len(s) |-> [who |-> s[i], need |-> 1]]
  <2>1. DOMAIN s = 1..Len(s)
    OBVIOUS
  <2>2. rs = [i \in 1..Len(s) |-> [who |-> s[i], need |-> 1]]
    BY <2>1 DEF AsRequests
  <2> HIDE DEF rs
  <2> QED
    BY <2>2, AsRequestsIs DEF rs
<1>2. /\ s = <<>> \/ p = 0 => k = 0 /\ Asked(rs)[k] = 0
      /\ s # <<>> /\ p = 1 => k = 1 /\ Asked(rs)[k] = 1
  BY LocksGranted
<1> HIDE DEF k, rs
<1>3. (IF locked' THEN 0 ELSE 1) = p - Asked(rs)[k]
  <2>1. CASE s # <<>> /\ p = 1
    BY <1>2, <2>1
  <2>2. CASE p = 0
    BY <1>2, <2>2
  <2>3. CASE s = <<>> /\ p = 1
    BY <1>2, <2>3
  <2> QED
    BY <2>1, <2>2, <2>3
<1>4. AsRequests(q') = SubSeq(rs, k + 1, Len(rs))
  <2>1. CASE s # <<>> /\ p = 1
    <3>1. q' = Tail(s) /\ k = 1
      BY <1>2, <2>1
    <3>2. /\ Len(Tail(s)) = Len(s) - 1 /\ DOMAIN Tail(s) = 1..(Len(s) - 1)
          /\ \A i \in 1..(Len(s) - 1) : Tail(s)[i] = s[i + 1]
      BY <2>1
    <3>3. SubSeq(rs, 2, Len(rs)) = [i \in 1..(Len(s) - 1) |-> rs[i + 1]]
      <4>1. SubSeq(rs, 2, Len(rs)) = [i \in 1..(1 + Len(rs) - 2) |-> rs[i + 2 - 1]]
        OBVIOUS
      <4>2. 1 + Len(rs) - 2 = Len(s) - 1 /\ \A i \in 1..(Len(s) - 1) : i + 2 - 1 = i + 1
        BY <1>1
      <4> QED
        BY <4>1, <4>2
    <3>4. \A i \in 1..(Len(s) - 1) : rs[i + 1] = [who |-> s[i + 1], need |-> 1]
      BY <1>1
    <3>5. AsRequests(Tail(s)) = [i \in 1..(Len(s) - 1) |-> rs[i + 1]]
      BY <3>2, <3>4 DEF AsRequests
    <3>6. SubSeq(rs, k + 1, Len(rs)) = SubSeq(rs, 2, Len(rs))
      BY <3>1
    <3> QED
      BY <3>1, <3>3, <3>5, <3>6
  <2>2. CASE ~ (s # <<>> /\ p = 1)
    <3>1. q' = s /\ k = 0
      BY <1>2, <2>2
    <3>2. AsRequests(q') = rs
      BY <3>1 DEF AsRequests, rs
    <3>3. SubSeq(rs, 1, Len(rs)) = rs
      BY AsRequestsIs DEF rs
    <3> QED
      BY <3>1, <3>2, <3>3
  <2> QED
    BY <2>1, <2>2
<1>5. SemHeld(owners') = [c \in Lockers |-> IF \E i \in 1..k : rs[i].who = c
                               THEN rs[CHOOSE i \in 1..k : rs[i].who = c].need
                               ELSE SemHeld(o)[c]]
  <2>1. CASE s # <<>> /\ p = 1
    <3>1. k = 1 /\ rs[1].who = Head(s) /\ rs[1].need = 1 /\ owners' = o \cup {Head(s)}
      BY <1>1, <1>2, <2>1
    <3>2. \A c \in Lockers : (\E i \in 1..k : rs[i].who = c) <=> c = Head(s)
      BY <3>1
    <3>3. (CHOOSE i \in 1..k : rs[i].who = Head(s)) = 1
      BY <3>1
    <3> QED
      BY <3>1, <3>2, <3>3 DEF SemHeld
  <2>2. CASE ~ (s # <<>> /\ p = 1)
    BY <1>2, <2>2 DEF SemHeld
  <2> QED
    BY <2>1, <2>2
<1> QED
  BY <1>3, <1>4, <1>5 DEF rs, k, MutexProcesses

\* The mutex starts unlocked.
LEMMA InitMutex == MutexInit => MutexInv
<1> SUFFICES ASSUME MutexInit PROVE MutexInv
  OBVIOUS
<1>1. ~locked /\ locked \in BOOLEAN /\ owners = {} /\ q = <<>> /\ Len(q) = 0 /\ q \in Seq(Lockers)
  <2>1. q = <<>> /\ Len(q) = 0 /\ q \in Seq(Lockers)
    BY DEF MutexInit
  <2> QED
    BY <2>1, Zenon DEF MutexInit
<1> QED
  BY <1>1 DEF MutexInv

\* Every step of the mutex keeps its invariant.
LEMMA MutexKeepsInv ==
    ASSUME MutexInv, [MutexNext]_mutexVars
    PROVE  MutexInv'
<1> USE DEF MutexInv
<1>1. ASSUME NEW c \in Lockers, Lock(c) PROVE MutexInv'
  BY <1>1 DEF Lock
<1>2. ASSUME NEW c \in Lockers, QueueUp(c) PROVE MutexInv'
  <2>1. /\ Append(q, c) \in Seq(Lockers)
        /\ Len(Append(q, c)) = Len(q) + 1
        /\ \A i \in 1..Len(Append(q, c)) :
              Append(q, c)[i] = IF i <= Len(q) THEN q[i] ELSE c
    OBVIOUS
  <2>2. \A i \in 1..Len(q) : q[i] # c
    BY <1>2 DEF QueueUp
  <2> QED
    BY <1>2, <2>1, <2>2 DEF QueueUp
<1>3. ASSUME NEW c \in Lockers, HandOver(c) PROVE MutexInv'
  <2>1. /\ q # <<>> /\ Head(q) = q[1] /\ 1 \in 1..Len(q) /\ Head(q) \in Lockers
        /\ Tail(q) \in Seq(Lockers) /\ Len(Tail(q)) = Len(q) - 1
        /\ \A i \in 1..Len(Tail(q)) : i + 1 \in 1..Len(q) /\ Tail(q)[i] = q[i + 1]
    BY <1>3 DEF HandOver
  <2>2. owners' = {Head(q)} /\ q' = Tail(q) /\ locked' = locked /\ locked
    BY <1>3 DEF HandOver
  <2>3. \A i \in 1..Len(Tail(q)) : Tail(q)[i] # Head(q)
    <3> SUFFICES ASSUME NEW i \in 1..Len(Tail(q)), Tail(q)[i] = Head(q) PROVE FALSE
      OBVIOUS
    <3>1. i + 1 \in 1..Len(q) /\ q[i + 1] = q[1] /\ i + 1 # 1
      BY <2>1
    <3> QED
      BY <2>1, <3>1
  <2>4. \A i, j \in 1..Len(Tail(q)) : Tail(q)[i] = Tail(q)[j] => i = j
    <3> SUFFICES ASSUME NEW i \in 1..Len(Tail(q)), NEW j \in 1..Len(Tail(q)),
                        Tail(q)[i] = Tail(q)[j]
                 PROVE  i = j
      OBVIOUS
    <3>1. i + 1 = j + 1
      BY <2>1
    <3> QED
      BY <3>1
  <2> QED
    BY <2>1, <2>2, <2>3, <2>4
<1>4. ASSUME NEW c \in Lockers, Unlock(c) PROVE MutexInv'
  <2>1. /\ ~locked' /\ locked' \in BOOLEAN /\ c \in owners
        /\ owners' = owners \ {c} /\ q' = q /\ q = <<>> /\ Len(q) = 0
    BY <1>4 DEF Unlock
  <2>2. owners' = {}
    BY <2>1
  <2> QED
    BY <2>1, <2>2
<1>5. CASE UNCHANGED mutexVars
  BY <1>5 DEF mutexVars
<1> QED
  BY <1>1, <1>2, <1>3, <1>4, <1>5 DEF MutexNext

\* One permit, handed over from owner to owner: Mutex implements Semaphore with
\* max 1, order of service included, for any number of lockers.
THEOREM MutexServesAsSemaphore == MutexSpec => MutexIsSemaphore
<1>1. MutexInit => OneSemaphore!SemInit
  BY DEF MutexInit, OneSemaphore!SemInit
<1>2. ASSUME MutexInv, [MutexNext]_mutexVars
      PROVE  [OneSemaphore!SemNext]_(OneSemaphore!semVars)
  <2>0. /\ OneSemaphore!Queued = {q[i] : i \in DOMAIN q}
        /\ owners \in SUBSET Lockers /\ q \in Seq(Lockers) /\ Len(q) \in Nat
    <3>1. DOMAIN AsRequests(q) = DOMAIN q /\ \A i \in DOMAIN q : AsRequests(q)[i].who = q[i]
      BY DEF AsRequests
    <3>2. OneSemaphore!Queued = {AsRequests(q)[i].who : i \in DOMAIN AsRequests(q)}
      BY DEF OneSemaphore!Queued, AsRequests
    <3> QED
      BY <1>2, <3>1, <3>2 DEF MutexInv
  <2>1. ASSUME NEW c \in Lockers, Lock(c) PROVE OneSemaphore!AcquirePermits(c, 1)
    <3>1. /\ c \notin owners /\ ~locked /\ locked' /\ q = <<>> /\ q' = q
          /\ owners' = owners \cup {c} /\ c \notin OneSemaphore!Queued
      BY <1>2, <2>0, <2>1 DEF Lock, MutexInv
    <3>2. AsRequests(q) = <<>>
      BY <3>1 DEF AsRequests
    <3>3. SemHeld(owners') = [SemHeld(owners) EXCEPT ![c] = 1] /\ SemHeld(owners)[c] = 0
      BY <3>1 DEF SemHeld
    <3> QED
      BY <3>1, <3>2, <3>3 DEF OneSemaphore!AcquirePermits, AsRequests, SemHeld
  <2>2. ASSUME NEW c \in Lockers, QueueUp(c) PROVE OneSemaphore!AcquirePermits(c, 1)
    <3>1. /\ c \notin owners /\ locked /\ locked' = locked /\ q' = Append(q, c)
          /\ owners' = owners /\ c \notin OneSemaphore!Queued
      BY <1>2, <2>0, <2>2 DEF QueueUp, MutexInv
    <3>2. AsRequests(Append(q, c)) = Append(AsRequests(q), OneSemaphore!Request(c, 1))
      <4>1. /\ Len(Append(q, c)) = Len(q) + 1
            /\ DOMAIN Append(q, c) = 1..(Len(q) + 1)
            /\ \A i \in 1..(Len(q) + 1) : Append(q, c)[i] = IF i <= Len(q) THEN q[i] ELSE c
        BY <2>0
      <4> QED
        BY <2>0, <4>1 DEF AsRequests, OneSemaphore!Request
    <3>3. MutexProcesses(AsRequests(Append(q, c)), 0, SemHeld(owners))
      <4> DEFINE s == Append(q, c)
      <4>1. /\ s \in Seq(Lockers) /\ locked' \in BOOLEAN /\ 0 \in {0, 1}
            /\ IF s # <<>> /\ 0 = 1
               THEN owners' = owners \cup {Head(s)} /\ q' = Tail(s) /\ locked'
               ELSE owners' = owners /\ q' = s /\ (locked' <=> 0 = 0)
        BY <1>2, <2>0, <3>1 DEF MutexInv
      <4> HIDE DEF s
      <4> QED
        BY <2>0, <4>1, LocksProcessed DEF s
    <3>4. SemHeld(owners)[c] = 0
      BY <3>1 DEF SemHeld
    <3>5. (IF locked THEN 0 ELSE 1) = 0
      BY <3>1
    <3> QED
      BY <3>1, <3>2, <3>3, <3>5, QueueUpIs
  <2>3. ASSUME NEW c \in Lockers, HandOver(c) \/ Unlock(c)
        PROVE  OneSemaphore!ReleasePermits(c)
    <3>1. c \in owners /\ owners \ {c} = {} /\ locked
      BY <1>2, <2>3 DEF HandOver, Unlock, MutexInv
    <3>2. SemHeld(owners)[c] = 1 /\ [SemHeld(owners) EXCEPT ![c] = 0] = SemHeld(owners \ {c})
      BY <2>0, <3>1 DEF SemHeld
    <3>3. MutexProcesses(AsRequests(q), 1, SemHeld(owners \ {c}))
      <4>a. 1 \in {0, 1} /\ 1 = 1 /\ 1 # 0 /\ owners \ {c} \in SUBSET Lockers
        BY <2>0
      <4>1. CASE HandOver(c)
        <5>1. /\ q # <<>> /\ q' = Tail(q) /\ owners' = (owners \ {c}) \cup {Head(q)}
              /\ locked' \in BOOLEAN /\ locked'
          BY <1>2, <3>1, <4>1 DEF HandOver, MutexInv
        <5> QED
          BY <2>0, <4>a, <5>1, LocksProcessed
      <4>2. CASE Unlock(c)
        <5>1. q = <<>> /\ q' = q /\ owners' = owners \ {c} /\ locked' \in BOOLEAN /\ ~locked'
          BY <4>2 DEF Unlock
        <5> QED
          BY <2>0, <4>a, <5>1, LocksProcessed
      <4> QED
        BY <2>3, <4>1, <4>2
    <3>4. (IF locked THEN 0 ELSE 1) + SemHeld(owners)[c] = 1 /\ SemHeld(owners)[c] > 0
      BY <3>1, <3>2
    <3> QED
      BY <3>2, <3>3, <3>4, ReleaseIs
  <2>4. CASE UNCHANGED mutexVars
    BY <2>4 DEF mutexVars, OneSemaphore!semVars
  <2>5. CASE MutexNext
    BY <2>1, <2>2, <2>3, <2>5 DEF MutexNext, OneSemaphore!SemNext
  <2> QED
    BY <1>2, <2>4, <2>5
<1> QED
  BY <1>1, <1>2, InitMutex, MutexKeepsInv, PTL
     DEF MutexSpec, MutexIsSemaphore, OneSemaphore!SemSpec

----------------------------------------------------------------------------
(* The job queue *)

\* Of the first m jobs of p, those that do not settle at once, by position.
Lasting(p, m) == {i \in 1..m : p[i] \notin throwers}

\* Each position adds at most one.
LEMMA LastingCounts ==
    ASSUME NEW p, NEW m \in Nat
    PROVE  /\ IsFiniteSet(Lasting(p, m)) /\ Cardinality(Lasting(p, m)) \in Nat
           /\ Lasting(p, 0) = {} /\ Cardinality(Lasting(p, 0)) = 0
           /\ Cardinality(Lasting(p, m + 1)) \in Nat
           /\ Cardinality(Lasting(p, m + 1)) <= Cardinality(Lasting(p, m)) + 1
           /\ Cardinality(Lasting(p, m + 1)) >= Cardinality(Lasting(p, m))
<1>1. \A n \in Nat : IsFiniteSet(Lasting(p, n)) /\ Cardinality(Lasting(p, n)) \in Nat
  <2> SUFFICES ASSUME NEW n \in Nat
               PROVE  IsFiniteSet(Lasting(p, n)) /\ Cardinality(Lasting(p, n)) \in Nat
    OBVIOUS
  <2>1. IsFiniteSet(1..n) /\ Lasting(p, n) \in SUBSET (1..n)
    BY FS_Interval DEF Lasting
  <2> QED
    BY <2>1, FS_Subset, FS_CardinalityType
<1>2. Lasting(p, 0) = {}
  BY DEF Lasting
<1>3. Lasting(p, m + 1) = Lasting(p, m) \/ Lasting(p, m + 1) = Lasting(p, m) \cup {m + 1}
  BY DEF Lasting
<1> DEFINE c == Cardinality(Lasting(p, m))
           d == Cardinality(Lasting(p, m + 1))
<1>4. c \in Nat /\ d \in Nat
  BY <1>1
<1>5. d = c \/ d = c + 1
  BY <1>1, <1>3, FS_AddElement
<1>6. Cardinality(Lasting(p, 0)) = 0
  BY <1>2, FS_EmptySet
<1>7. d <= c + 1 /\ d >= c
  <2> HIDE DEF c, d
  <2> QED
    BY <1>4, <1>5
<1> QED
  BY <1>1, <1>2, <1>4, <1>6, <1>7

\* drain() stops at the first job that finds the slots taken.
LEMMA StartedStops ==
    ASSUME NEW p \in Seq(Jobs), NEW a \in 0..Concurrency
    PROVE  LET k == Started(p, a)
           IN  /\ k \in 0..Len(p)
               /\ a + Cardinality(Lasting(p, k)) <= Concurrency
               /\ k < Len(p) => a + Cardinality(Lasting(p, k)) = Concurrency
<1> DEFINE K == {k \in 0..Len(p) :
                    k > 0 => a + Cardinality(Lasting(p, k - 1)) < Concurrency}
           k == Started(p, a)
<1>n. Len(p) \in Nat /\ Concurrency \in Nat /\ a \in Nat /\ a <= Concurrency
  BY JobAssumption
<1>1. k = Max(K)
  BY DEF Started, Lasting
<1>2. 0 \in K /\ K \in SUBSET (0..Len(p))
  BY <1>n
<1>3. k \in K /\ \A x \in K : x <= k
  <2> HIDE DEF K, k
  <2> QED
    BY <1>n, <1>1, <1>2, MaxIsIn
<1>4. k \in 0..Len(p) /\ k \in Nat /\ (k > 0 => a + Cardinality(Lasting(p, k - 1)) < Concurrency)
  BY <1>3, <1>n
<1>5. k < Len(p) => ~ (a + Cardinality(Lasting(p, k)) < Concurrency)
  <2> SUFFICES ASSUME k < Len(p), a + Cardinality(Lasting(p, k)) < Concurrency
               PROVE  FALSE
    OBVIOUS
  <2>1. k + 1 \in 0..Len(p) /\ (k + 1) - 1 = k
    BY <1>4, <1>n
  <2>2. k + 1 \in K
    BY <2>1
  <2> HIDE DEF K
  <2> QED
    BY <1>3, <1>4, <2>2
<1> HIDE DEF k
<1>6. Cardinality(Lasting(p, k)) \in Nat
  BY <1>4, LastingCounts
<1>7. a + Cardinality(Lasting(p, k)) <= Concurrency
  <2>1. CASE k = 0
    BY <1>n, <2>1, LastingCounts
  <2>2. CASE k > 0
    <3>1. k - 1 \in Nat /\ (k - 1) + 1 = k
      BY <1>4, <2>2
    <3>2. /\ Cardinality(Lasting(p, k)) <= Cardinality(Lasting(p, k - 1)) + 1
          /\ Cardinality(Lasting(p, k - 1)) \in Nat
      BY <3>1, LastingCounts
    <3> QED
      BY <1>n, <1>4, <1>6, <2>2, <3>2
  <2> QED
    BY <1>4, <2>1, <2>2
<1> QED
  BY <1>n, <1>4, <1>5, <1>6, <1>7 DEF k

JobStates == {"new", "queued", "running", "settled"}

\* p holds jobs in the order of add(), and those that are queued in s.
Waiting(p, s) ==
    /\ \A i, j \in 1..Len(p) : i < j => p[i] < p[j]
    /\ \A j \in Jobs : s[j] = "queued" <=> \E i \in 1..Len(p) : p[i] = j

\* Jobs are added in order.
AddedInOrder(s) == \A i, j \in Jobs : i < j /\ s[i] = "new" => s[j] = "new"

StartedInOrder(s) ==
    \A i, j \in Jobs : i < j /\ s[i] = "queued" => s[j] \in {"new", "queued"}

JobInv ==
    /\ pending \in Seq(Jobs)
    /\ active \in 0..Concurrency
    /\ job \in [Jobs -> JobStates]
    /\ throwers \in SUBSET Jobs
    /\ active = Cardinality(Running(job))
    /\ pending # <<>> => active = Concurrency
    /\ Waiting(pending, job)
    /\ AddedInOrder(job)
    /\ StartedInOrder(job)

\* The running jobs are finitely many.
LEMMA RunningFinite ==
    ASSUME NEW s
    PROVE  IsFiniteSet(Running(s)) /\ Cardinality(Running(s)) \in Nat
<1>1. IsFiniteSet(Jobs) /\ Running(s) \in SUBSET Jobs
  BY JobAssumption, FS_Interval DEF Jobs, Running
<1> QED
  BY <1>1, FS_Subset, FS_CardinalityType

\* What drain() makes of a queue p, of a jobs active and of the states s.
LEMMA DrainKeepsInv ==
    ASSUME NEW p \in Seq(Jobs), NEW a \in 0..Concurrency,
           NEW s \in [Jobs -> JobStates], throwers \in SUBSET Jobs,
           a = Cardinality(Running(s)),
           Waiting(p, s), AddedInOrder(s), StartedInOrder(s), Drain(p, a, s)
    PROVE  JobInv'
<1> DEFINE k == Started(p, a)
           shifted == {p[i] : i \in 1..k}
           lasting == Lasting(p, k)
<1>n. /\ Len(p) \in Nat /\ Concurrency \in Nat /\ a \in Nat /\ a <= Concurrency
      /\ Jobs \subseteq Nat /\ \A i \in 1..Len(p) : p[i] \in Jobs
  BY JobAssumption DEF Jobs
<1>1. /\ pending' = SubSeq(p, k + 1, Len(p))
      /\ active' = a + Cardinality(shifted \ throwers)
      /\ job' = [j \in Jobs |->
                    IF j \notin shifted THEN s[j]
                    ELSE IF j \in throwers THEN "settled" ELSE "running"]
      /\ throwers' = throwers
  BY DEF Drain
<1>2. /\ k \in 0..Len(p)
      /\ a + Cardinality(lasting) <= Concurrency
      /\ k < Len(p) => a + Cardinality(lasting) = Concurrency
  BY StartedStops
<1> HIDE DEF k
<1>3. /\ \A i, j \in 1..Len(p) : p[i] = p[j] => i = j
      /\ \A i, j \in 1..Len(p) : p[i] < p[j] => i < j
  <2> SUFFICES ASSUME NEW i \in 1..Len(p), NEW j \in 1..Len(p)
               PROVE  (p[i] = p[j] => i = j) /\ (p[i] < p[j] => i < j)
    OBVIOUS
  <2>0. p[i] \in Jobs /\ p[j] \in Jobs
    BY <1>n
  <2>a. p[i] \in Nat /\ p[j] \in Nat
    BY <2>0 DEF Jobs
  <2>b. i \in Nat /\ j \in Nat
    OBVIOUS
  <2>1. p[i] \in Nat /\ p[j] \in Nat /\ i \in Nat /\ j \in Nat
    BY <2>a, <2>b
  <2>2. (i < j => p[i] < p[j]) /\ (j < i => p[j] < p[i])
    BY DEF Waiting
  <2> QED
    BY <2>1, <2>2
<1>4. /\ IsFiniteSet(lasting) /\ Cardinality(lasting) \in Nat
      /\ IsFiniteSet(shifted \ throwers)
      /\ Cardinality(shifted \ throwers) = Cardinality(lasting)
  <2>1. k \in Nat /\ IsFiniteSet(lasting) /\ Cardinality(lasting) \in Nat
    BY <1>n, <1>2, LastingCounts
  <2>2. 1..k \subseteq 1..Len(p)
    BY <1>n, <1>2
  <2> DEFINE f == [i \in lasting |-> p[i]]
             T == shifted \ throwers
  <2>3. f \in [lasting -> T] /\ \A y \in T : \E i \in lasting : f[i] = y
    BY DEF Lasting
  <2>4. \A i, j \in lasting : f[i] = f[j] => i = j
    BY <1>3, <2>2 DEF Lasting
  <2> HIDE DEF f, T
  <2>5. f \in Bijection(lasting, T)
    BY <2>3, <2>4 DEF Bijection, Injection, Surjection, IsInjective
  <2>6. ExistsBijection(lasting, T)
    BY <2>5 DEF ExistsBijection
  <2>7. IsFiniteSet(T) /\ Cardinality(T) = Cardinality(lasting)
    BY <2>1, <2>6, FS_Bijection
  <2> QED
    BY <2>1, <2>7 DEF T
<1>5. \A j \in shifted : j \in Jobs /\ s[j] = "queued"
  <2> SUFFICES ASSUME NEW i \in 1..k PROVE p[i] \in Jobs /\ s[p[i]] = "queued"
    OBVIOUS
  <2>1. i \in 1..Len(p)
    BY <1>n, <1>2
  <2> QED
    BY <1>n, <2>1 DEF Waiting
<1>6. pending' \in Seq(Jobs) /\ Len(pending') = Len(p) - k
      /\ \A i \in 1..Len(pending') : pending'[i] = p[k + i]
  <2>1. k + 1 \in Int /\ Len(p) \in Int /\ \A i \in (k + 1)..Len(p) : p[i] \in Jobs
    BY <1>n, <1>2
  <2>2. /\ pending' \in Seq(Jobs)
        /\ Len(pending') = IF k + 1 <= Len(p) THEN Len(p) - (k + 1) + 1 ELSE 0
        /\ \A i \in 1..(Len(p) - (k + 1) + 1) : pending'[i] = p[(k + 1) + i - 1]
    <3> DEFINE m == k + 1
               n == Len(p)
    <3>1. m \in Int /\ n \in Int /\ \A i \in m..n : p[i] \in Jobs
      BY <2>1
    <3>2. pending' = SubSeq(p, m, n)
      BY <1>1
    <3> HIDE DEF m, n
    <3>3. /\ pending' \in Seq(Jobs)
          /\ Len(pending') = IF m <= n THEN n - m + 1 ELSE 0
          /\ \A i \in 1..(n - m + 1) : pending'[i] = p[m + i - 1]
      BY <3>1, <3>2, SubSeqProperties
    <3> QED
      BY <3>3 DEF m, n
  <2>3. Len(pending') = Len(p) - k /\ Len(p) - (k + 1) + 1 = Len(p) - k
    BY <1>n, <1>2, <2>2
  <2>4. \A i \in 1..Len(pending') : (k + 1) + i - 1 = k + i
    BY <1>n, <1>2, <2>3
  <2> QED
    BY <2>2, <2>3, <2>4
<1>7. job' \in [Jobs -> JobStates]
  BY <1>1 DEF JobStates
<1>8. \A j \in Jobs : job'[j] = "queued" <=> s[j] = "queued" /\ j \notin shifted
  BY <1>1
<1>9. \A j \in Jobs : job'[j] = "new" <=> s[j] = "new"
  BY <1>1, <1>5
<1>10. Running(job') = Running(s) \cup (shifted \ throwers)
       /\ Running(s) \cap (shifted \ throwers) = {}
  BY <1>1, <1>5 DEF Running
<1>11. active' = Cardinality(Running(job')) /\ active' = a + Cardinality(lasting)
  <2>1. /\ IsFiniteSet(Running(s)) /\ Cardinality(Running(s)) \in Nat
        /\ Cardinality({}) = 0
    BY RunningFinite, FS_EmptySet
  <2>2. Cardinality(Running(job')) = Cardinality(Running(s)) + Cardinality(shifted \ throwers) - 0
    BY <1>4, <1>10, <2>1, FS_Union
  <2> QED
    BY <1>1, <1>4, <2>1, <2>2
<1>12. Waiting(pending', job')
  <2>1. ASSUME NEW i \in 1..Len(pending'), NEW j \in 1..Len(pending'), i < j
        PROVE  pending'[i] < pending'[j]
    <3>1. k + i \in 1..Len(p) /\ k + j \in 1..Len(p) /\ k + i < k + j
      BY <1>n, <1>2, <1>6, <2>1
    <3> QED
      BY <1>6, <3>1 DEF Waiting
  <2>2. ASSUME NEW j \in Jobs
        PROVE  job'[j] = "queued" <=> \E i \in 1..Len(pending') : pending'[i] = j
    <3>1. ASSUME job'[j] = "queued"
          PROVE  \E i \in 1..Len(pending') : pending'[i] = j
      <4>1. PICK x \in 1..Len(p) : p[x] = j
        BY <1>8, <3>1 DEF Waiting
      <4>2. x \notin 1..k
        BY <1>8, <3>1, <4>1
      <4>3. x - k \in 1..Len(pending') /\ k + (x - k) = x
        BY <1>n, <1>2, <1>6, <4>2
      <4> QED
        BY <1>6, <4>1, <4>3
    <3>2. ASSUME NEW i \in 1..Len(pending'), pending'[i] = j
          PROVE  job'[j] = "queued"
      <4>1. k + i \in 1..Len(p) /\ k + i \notin 1..k /\ p[k + i] = j
        BY <1>n, <1>2, <1>6, <3>2
      <4>2. 1..k \subseteq 1..Len(p)
        BY <1>n, <1>2
      <4>3. j \notin shifted
        BY <1>3, <4>1, <4>2
      <4> QED
        BY <1>8, <4>1, <4>3 DEF Waiting
    <3> QED
      BY <3>1, <3>2
  <2> QED
    BY <2>1, <2>2 DEF Waiting
<1>13. AddedInOrder(job')
  BY <1>9 DEF AddedInOrder
<1>14. StartedInOrder(job')
  <2> SUFFICES ASSUME NEW i \in Jobs, NEW j \in Jobs, i < j, job'[i] = "queued"
               PROVE  job'[j] \in {"new", "queued"}
    BY DEF StartedInOrder
  <2>1. s[i] = "queued" /\ i \notin shifted /\ s[j] \in {"new", "queued"}
    BY <1>8 DEF StartedInOrder
  <2>2. CASE s[j] = "new"
    BY <1>9, <2>2
  <2>3. CASE s[j] = "queued"
    <3>1. PICK x \in 1..Len(p), y \in 1..Len(p) : p[x] = i /\ p[y] = j
      BY <2>1, <2>3 DEF Waiting
    <3>2. x < y /\ x \notin 1..k
      BY <1>3, <2>1, <3>1
    <3>3. y \notin 1..k /\ 1..k \subseteq 1..Len(p)
      BY <1>n, <1>2, <3>2
    <3>4. j \notin shifted
      BY <1>3, <3>1, <3>3
    <3> QED
      BY <1>8, <2>3, <3>4
  <2> QED
    BY <2>1, <2>2, <2>3
<1>15. active' \in 0..Concurrency
  BY <1>n, <1>2, <1>4, <1>11
<1>16. pending' # <<>> => active' = Concurrency
  <2> SUFFICES ASSUME pending' # <<>> PROVE active' = Concurrency
    OBVIOUS
  <2>1. Len(pending') # 0
    BY <1>6
  <2>2. k < Len(p)
    BY <1>n, <1>2, <1>6, <2>1
  <2> QED
    BY <1>2, <1>11, <2>2
<1> QED
  BY <1>1, <1>6, <1>7, <1>11, <1>12, <1>13, <1>14, <1>15, <1>16
  DEF JobInv

\* add() hands drain() the queue with the job at its end.
LEMMA AddKeepsInv ==
    ASSUME JobInv, NEW j \in Jobs, AddJob(j)
    PROVE  JobInv'
<1> DEFINE p == Append(pending, j)
           s == [job EXCEPT ![j] = "queued"]
<1>1. /\ job[j] = "new" /\ \A i \in Jobs : i < j => job[i] # "new"
      /\ Drain(p, active, s) /\ pending \in Seq(Jobs) /\ job \in [Jobs -> JobStates]
      /\ Jobs \subseteq Nat /\ Len(pending) \in Nat
      /\ \A i \in 1..Len(pending) : pending[i] \in Jobs
  BY JobAssumption DEF AddJob, JobInv, Jobs
<1>2. /\ p \in Seq(Jobs) /\ Len(p) = Len(pending) + 1
      /\ \A i \in 1..Len(pending) : p[i] = pending[i]
      /\ p[Len(pending) + 1] = j
  BY <1>1, AppendProperties
<1>3. s \in [Jobs -> JobStates] /\ s[j] = "queued" /\ \A i \in Jobs : i # j => s[i] = job[i]
  BY <1>1 DEF JobStates
<1> HIDE DEF p, s
<1>4. Running(s) = Running(job)
  BY <1>1, <1>3 DEF Running
<1>5. \A i \in Jobs : job[i] = "queued" => i < j
  <2> SUFFICES ASSUME NEW i \in Jobs, job[i] = "queued", ~(i < j) PROVE FALSE
    OBVIOUS
  <2>1. j < i
    BY <1>1
  <2> QED
    BY <1>1, <2>1 DEF JobInv, AddedInOrder
<1>6. Waiting(p, s)
  <2>1. ASSUME NEW x \in 1..Len(p), NEW y \in 1..Len(p), x < y
        PROVE  p[x] < p[y]
    <3>1. x \in 1..Len(pending) /\ (y \in 1..Len(pending) \/ y = Len(pending) + 1)
      BY <1>1, <1>2, <2>1
    <3>2. job[pending[x]] = "queued"
      BY <1>1, <3>1 DEF JobInv, Waiting
    <3> QED
      BY <1>1, <1>2, <1>5, <2>1, <3>1, <3>2 DEF JobInv, Waiting
  <2>2. ASSUME NEW i \in Jobs
        PROVE  s[i] = "queued" <=> \E x \in 1..Len(p) : p[x] = i
    <3>1. 1..Len(p) = (1..Len(pending)) \cup {Len(pending) + 1}
      BY <1>1, <1>2
    <3>2. job[i] = "queued" <=> \E x \in 1..Len(pending) : pending[x] = i
      BY DEF JobInv, Waiting
    <3> QED
      BY <1>2, <1>3, <3>1, <3>2
  <2> QED
    BY <2>1, <2>2 DEF Waiting
<1>7. AddedInOrder(s)
  <2> SUFFICES ASSUME NEW i \in Jobs, NEW k \in Jobs, i < k, s[i] = "new"
               PROVE  s[k] = "new"
    BY DEF AddedInOrder
  <2>1. i # j /\ job[i] = "new" /\ ~(i < j)
    BY <1>1, <1>3
  <2>2. j < k
    BY <1>1, <2>1
  <2>3. job[k] = "new"
    BY <2>1 DEF JobInv, AddedInOrder
  <2> QED
    BY <1>1, <1>3, <2>2, <2>3
<1>8. StartedInOrder(s)
  <2> SUFFICES ASSUME NEW i \in Jobs, NEW k \in Jobs, i < k, s[i] = "queued"
               PROVE  s[k] \in {"new", "queued"}
    BY DEF StartedInOrder
  <2>1. CASE i = j
    <3>1. job[k] = "new" /\ k # j
      BY <1>1, <2>1 DEF JobInv, AddedInOrder
    <3> QED
      BY <1>3, <3>1
  <2>2. CASE i # j
    BY <1>3, <2>2 DEF JobInv, StartedInOrder
  <2> QED
    BY <2>1, <2>2
<1> QED
  BY <1>1, <1>2, <1>3, <1>4, <1>6, <1>7, <1>8, DrainKeepsInv DEF JobInv

\* A job that settles gives its slot to drain().
LEMMA FinishKeepsInv ==
    ASSUME JobInv, NEW j \in Jobs, FinishJob(j)
    PROVE  JobInv'
<1> DEFINE s == [job EXCEPT ![j] = "settled"]
<1>1. /\ job[j] = "running" /\ Drain(pending, active - 1, s)
      /\ pending \in Seq(Jobs) /\ job \in [Jobs -> JobStates]
      /\ active = Cardinality(Running(job)) /\ active \in 0..Concurrency
  BY DEF FinishJob, JobInv
<1>2. s \in [Jobs -> JobStates] /\ s[j] = "settled" /\ \A i \in Jobs : i # j => s[i] = job[i]
  BY <1>1 DEF JobStates
<1> HIDE DEF s
<1>3. Running(s) = Running(job) \ {j} /\ j \in Running(job)
  BY <1>1, <1>2 DEF Running
<1>4. active - 1 = Cardinality(Running(s)) /\ active - 1 \in 0..Concurrency
  <2>1. Cardinality(Running(s)) = Cardinality(Running(job)) - 1
    BY <1>3, RunningFinite, FS_RemoveElement
  <2>2. Cardinality(Running(s)) \in Nat /\ Concurrency \in Nat
    BY RunningFinite, JobAssumption
  <2> QED
    BY <1>1, <2>1, <2>2
<1>5. Waiting(pending, s)
  BY <1>1, <1>2 DEF JobInv, Waiting
<1>6. AddedInOrder(s)
  <2> SUFFICES ASSUME NEW i \in Jobs, NEW k \in Jobs, i < k, s[i] = "new"
               PROVE  s[k] = "new"
    BY DEF AddedInOrder
  <2>1. job[i] = "new"
    BY <1>2
  <2>2. job[k] = "new"
    BY <2>1 DEF JobInv, AddedInOrder
  <2> QED
    BY <1>1, <1>2, <2>2
<1>7. StartedInOrder(s)
  <2> SUFFICES ASSUME NEW i \in Jobs, NEW k \in Jobs, i < k, s[i] = "queued"
               PROVE  s[k] \in {"new", "queued"}
    BY DEF StartedInOrder
  <2>1. job[i] = "queued"
    BY <1>2
  <2>2. job[k] \in {"new", "queued"}
    BY <2>1 DEF JobInv, StartedInOrder
  <2> QED
    BY <1>1, <1>2, <2>2
<1> QED
  BY <1>1, <1>2, <1>4, <1>5, <1>6, <1>7, DrainKeepsInv DEF JobInv

\* No job has been added.
LEMMA InitJobs == JobInit => JobInv
<1> SUFFICES ASSUME JobInit PROVE JobInv
  OBVIOUS
<1>1. /\ pending = <<>> /\ active = 0 /\ throwers \in SUBSET Jobs
      /\ job = [j \in Jobs |-> "new"] /\ Len(pending) = 0 /\ Concurrency \in Nat
  BY JobAssumption DEF JobInit
<1>2. Running(job) = {}
  BY <1>1 DEF Running
<1>3. Cardinality(Running(job)) = 0
  BY <1>2, FS_EmptySet
<1>4. pending \in Seq(Jobs) /\ job \in [Jobs -> JobStates]
  BY <1>1 DEF JobStates
<1>5. Waiting(pending, job) /\ AddedInOrder(job) /\ StartedInOrder(job)
  BY <1>1 DEF Waiting, AddedInOrder, StartedInOrder
<1> QED
  BY <1>1, <1>3, <1>4, <1>5 DEF JobInv

\* Slots are in use while jobs wait, the counter that admits jobs is exact,
\* and jobs start in the order of add(), for any concurrency and any choice of
\* tasks that throw inside drain().
THEOREM SlotsFair == JobSpec => []SlotsAreFair
<1>1. JobInv /\ [JobNext]_jobVars => JobInv'
  <2> SUFFICES ASSUME JobInv, [JobNext]_jobVars PROVE JobInv'
    OBVIOUS
  <2>1. CASE UNCHANGED jobVars
    BY <2>1 DEF jobVars, JobInv, Waiting, AddedInOrder, StartedInOrder, Running
  <2> QED
    BY <2>1, AddKeepsInv, FinishKeepsInv DEF JobNext
<1>2. JobInv => SlotsAreFair
  <2> SUFFICES ASSUME JobInv PROVE SlotsAreFair
    OBVIOUS
  <2>1. StartInOrder
    BY DEF JobInv, StartedInOrder, StartInOrder
  <2>2. {pending[i] : i \in DOMAIN pending} = {j \in Jobs : job[j] = "queued"}
    <3>1. DOMAIN pending = 1..Len(pending) /\ \A i \in 1..Len(pending) : pending[i] \in Jobs
      BY DEF JobInv
    <3> QED
      BY <3>1 DEF JobInv, Waiting
  <2> QED
    BY <2>1, <2>2 DEF JobInv, SlotsAreFair, NoIdleSlot
<1> QED
  BY <1>1, <1>2, InitJobs, PTL DEF JobSpec
=============================================================================
