------------------------------ MODULE CronPlan ------------------------------
(***************************************************************************)
(* The planners of packages/cron/src/planner: plan.next(after), the        *)
(* instant at which a trigger fires next.  Instants are natural numbers,   *)
(* one per second of the clock.  A cron expression is the set of instants  *)
(* it matches; calendars and time zones only shape that set.  maxRuns is   *)
(* left infinite, and an rrule plan, which keeps a cursor from one call to *)
(* the next, is not one of these (see Calendar).                           *)
(***************************************************************************)
EXTENDS Integers, FiniteSets

CONSTANT SearchLimit          \* cron.ts, limit: 500_000 steps of a second

ASSUME SearchAssumption == SearchLimit \in Nat \ {0}

NoTime == -1                  \* next() returned undefined
GaveUp == -2                  \* next() threw: no match within the limit

Kinds == {"cron", "every", "at"}

Least(S) == CHOOSE m \in S : \A n \in S : m <= n
Greatest(S) == CHOOSE m \in S : \A n \in S : n <= m

FirstIn(S) == IF S = {} THEN NoTime ELSE Least(S)

\* The search of cron.ts, with i turns left: each tries one instant, until
\* endAt is behind or the limit is reached.
CronSearch(occ, endAt, after) ==
    LET search[i \in 0..SearchLimit] ==
            LET candidate == after + SearchLimit - i + 1
            IN  IF i = 0 THEN GaveUp
                ELSE IF candidate > endAt THEN NoTime
                ELSE IF candidate \in occ THEN candidate
                ELSE search[i - 1]
    IN  search[SearchLimit]

\* The same without a loop.
NextMatch(occ, endAt, after) ==
    LET tried == {m \in occ : after < m /\ m <= after + SearchLimit /\ m <= endAt}
    IN  IF tried # {} THEN Least(tried)
        ELSE IF endAt < after + SearchLimit THEN NoTime
        ELSE GaveUp

\* Mutant: the step after the floor.
EveryPastFloor(anchor, interval, endAt, after) ==
    LET from  == IF after > anchor THEN after ELSE anchor
        steps == (from - anchor) \div interval + 1
        at    == anchor + steps * interval
    IN  IF at > endAt THEN NoTime ELSE at

\* every.ts: Math.ceil leaves an aligned `after` where it is.
NextEvery(anchor, interval, endAt, after) ==
    LET from  == IF after > anchor THEN after ELSE anchor
        steps == (from - anchor + interval - 1) \div interval
        at    == anchor + steps * interval
    IN  IF at > endAt THEN NoTime ELSE at

\* at.ts without startAt: an `after` equal to runAt still yields runAt.
NextAt(runAt, endAt, after) ==
    IF runAt > endAt \/ after > runAt THEN NoTime ELSE runAt

\* The instants of an every plan.
Grid(anchor, interval, endAt) ==
    (0..endAt) \cap {anchor + steps * interval : steps \in 0..endAt}

\* plan.next for a plan given by its kind, the instants it can yield and endAt.
PlanNext(kind, occ, endAt, after) ==
    IF kind = "cron"
    THEN NextMatch(occ, endAt, after)
    ELSE FirstIn({m \in occ : after <= m /\ m <= endAt})

\* The do-while of SchedulerEngine.skipOverdueRuns, from which the scheduler
\* takes the last value: next is called at most maxSkip times from `from`,
\* until it yields an occurrence that is late by no more than the tolerance,
\* or none, or throws.
SkipLoop(kind, occ, endAt, from, now, tolerance, maxSkip) ==
    LET done(m) == m \in {NoTime, GaveUp} \/ now - m <= tolerance
        walk[i \in 1..maxSkip] ==
            IF i = 1 THEN PlanNext(kind, occ, endAt, from)
            ELSE IF done(walk[i - 1]) THEN walk[i - 1]
            ELSE PlanNext(kind, occ, endAt, walk[i - 1])
    IN  walk[maxSkip]

\* The occurrences that the searches of a cron plan come to one after the
\* other: none of them gives up on the way.
Reached(occ, endAt, from) ==
    {m \in occ :
        /\ from < m /\ m <= endAt
        /\ \A x \in occ \cup {from} :
            from <= x /\ x < m => NextMatch(occ, endAt, x) # GaveUp}

\* Mutant of SkipTo: one turn too many.
SkipOnceMore(kind, occ, endAt, from, now, tolerance, maxSkip) ==
    LET way   == Reached(occ, endAt, from)
        seen  == {m \in way : Cardinality({n \in way : n < m}) <= maxSkip}
        fresh == {m \in seen : now - m <= tolerance}
    IN  IF kind \in {"every", "at"} THEN PlanNext(kind, occ, endAt, from)
        ELSE IF fresh # {} THEN Least(fresh)
        ELSE IF Cardinality(way) <= maxSkip
             THEN NextMatch(occ, endAt, Greatest(way \cup {from}))
        ELSE Greatest(seen)

\* The loop's value without the loop.  every and at yield the occurrence they
\* are given back, so their loop stops where it began.
SkipTo(kind, occ, endAt, from, now, tolerance, maxSkip) ==
    LET way   == Reached(occ, endAt, from)
        seen  == {m \in way : Cardinality({n \in way : n < m}) < maxSkip}
        fresh == {m \in seen : now - m <= tolerance}
    IN  IF kind \in {"every", "at"} THEN PlanNext(kind, occ, endAt, from)
        ELSE IF fresh # {} THEN Least(fresh)
        ELSE IF Cardinality(way) < maxSkip
             THEN NextMatch(occ, endAt, Greatest(way \cup {from}))
        ELSE Greatest(seen)
=============================================================================
