--------------------------- MODULE CronSemaphore ---------------------------
(***************************************************************************)
(* The counting semaphore of packages/cron/src/queue/semaphore.ts, which   *)
(* SchedulerEngine.acquireCapacity uses for maxConcurrentRuns and for a    *)
(* job's concurrency.                                                      *)
(*                                                                         *)
(* The code runs on one event loop.  release() hands a permit to the head  *)
(* waiter by resolving its promise, but the waiter counts itself in only   *)
(* when its continuation runs (`this.current += 1` after the await), a     *)
(* microtask later.  `woken` is the queue of those continuations.          *)
(* Whatever runs in between, a synchronous call or an older microtask, may *)
(* call acquire() and sees the permit as free, so that for a while more    *)
(* callers than the limit may hold one.                                    *)
(***************************************************************************)
EXTENDS Naturals, Sequences, FiniteSets

CONSTANTS
    Callers,    \* the runs that acquire and release
    Limit       \* the constructor's limit

ASSUME CallersAssumption == IsFiniteSet(Callers)
\* Both constructions in scheduler.ts are guarded by a limit > 0, so the
\* early returns for limit <= 0 are never reached.
ASSUME LimitAssumption == Limit \in Nat \ {0}

VARIABLES
    current,    \* Semaphore.current
    queue,      \* Semaphore.queue: callers whose promise is not resolved
    woken,      \* resolved waiters whose continuation has not run yet
    pc          \* per caller: "idle", "waiting", "woken" or "held"

vars == <<current, queue, woken, pc>>

Holders == {c \in Callers : pc[c] = "held"}

TypeOK ==
    /\ current \in Nat
    /\ queue \in Seq(Callers)
    /\ woken \in Seq(Callers)
    /\ pc \in [Callers -> {"idle", "waiting", "woken", "held"}]

Init ==
    /\ current = 0
    /\ queue = <<>>
    /\ woken = <<>>
    /\ pc = [c \in Callers |-> "idle"]

----------------------------------------------------------------------------
\* acquire() that finds a free permit.
AcquireNow(c) ==
    /\ pc[c] = "idle"
    /\ current < Limit
    /\ current' = current + 1
    /\ pc' = [pc EXCEPT ![c] = "held"]
    /\ UNCHANGED <<queue, woken>>

\* acquire() that finds none: the promise's resolve is queued.
AcquireWait(c) ==
    /\ pc[c] = "idle"
    /\ current >= Limit
    /\ queue' = Append(queue, c)
    /\ pc' = [pc EXCEPT ![c] = "waiting"]
    /\ UNCHANGED <<current, woken>>

Dec(n) == IF n = 0 THEN 0 ELSE n - 1   \* Math.max(0, n - 1)

\* Mutant: release() without a look at the queue.
ReleaseBlindly(c) ==
    /\ pc[c] = "held"
    /\ current' = Dec(current)
    /\ pc' = [pc EXCEPT ![c] = "idle"]
    /\ UNCHANGED <<queue, woken>>

\* release() with nobody queued.
ReleaseIdle(c) ==
    /\ pc[c] = "held"
    /\ queue = <<>>
    /\ current' = Dec(current)
    /\ pc' = [pc EXCEPT ![c] = "idle"]
    /\ UNCHANGED <<queue, woken>>

\* Mutant: the youngest waiter is woken.
ReleaseYoungest(c) ==
    LET last == queue[Len(queue)]
    IN  /\ pc[c] = "held"
        /\ queue # <<>>
        /\ current' = Dec(current)
        /\ queue' = SubSeq(queue, 1, Len(queue) - 1)
        /\ woken' = Append(woken, last)
        /\ pc' = [pc EXCEPT ![c] = "idle", ![last] = "woken"]

\* release() that resolves the head waiter's promise: the count drops now,
\* the waiter's own increment is a continuation that runs later.
ReleaseWake(c) ==
    /\ pc[c] = "held"
    /\ queue # <<>>
    /\ current' = Dec(current)
    /\ queue' = Tail(queue)
    /\ woken' = Append(woken, Head(queue))
    /\ pc' = [pc EXCEPT ![c] = "idle", ![Head(queue)] = "woken"]

\* Mutant: the waiter is not counted in.
ResumeUncounted ==
    /\ woken # <<>>
    /\ woken' = Tail(woken)
    /\ pc' = [pc EXCEPT ![Head(woken)] = "held"]
    /\ UNCHANGED <<current, queue>>

\* The continuation of acquire() after its await.
Resume ==
    /\ woken # <<>>
    /\ current' = current + 1
    /\ woken' = Tail(woken)
    /\ pc' = [pc EXCEPT ![Head(woken)] = "held"]
    /\ UNCHANGED queue

Acquire(c) == AcquireNow(c) \/ AcquireWait(c)
Release(c) == ReleaseIdle(c) \/ ReleaseWake(c)

Next ==
    \/ \E c \in Callers : Acquire(c) \/ Release(c)
    \/ Resume

Spec == Init /\ [][Next]_vars

\* The event loop runs every queued continuation, and a run that holds a
\* permit releases it in executeRun's finally block.
Fairness ==
    /\ WF_vars(Resume)
    /\ \A c \in Callers : WF_vars(Release(c))

FairSpec == Spec /\ Fairness

----------------------------------------------------------------------------
(* Properties *)

\* The counter is the number of callers that hold a permit: no release is
\* lost in the clamp of Math.max and no wake-up is counted twice.
CountIsHolders ==
    current = Cardinality(Holders)

\* No caller sleeps while a permit is free: with somebody queued, the
\* permits counted in and those on their way to woken waiters use up the
\* limit.  A release that forgot to wake would break this.
NoLostWakeup ==
    queue # <<>> => current + Len(woken) >= Limit

\* Both: the counter can be trusted, and nobody waits beside a free permit.
PermitsAreCounted == CountIsHolders /\ NoLostWakeup

\* A caller that queues gets its permit: bargers can overtake it, but every
\* release still resolves the head of the queue.
WaiterServed ==
    \A c \in Callers : pc[c] = "waiting" ~> pc[c] = "held"
============================================================================
