---------------------------- MODULE AsyncMutex ----------------------------
(***************************************************************************)
(* Mutex of shareds/async/src/concurrency/mutex.ts.  release() hands the   *)
(* lock to the oldest waiter without unlocking it.  A client's turn is     *)
(* runExclusive(): acquire, the callback, one release in a finally, also   *)
(* when the callback throws.                                               *)
(***************************************************************************)
EXTENDS Integers, Sequences, FiniteSets

CONSTANT Lockers    \* who acquires

VARIABLES
    locked,     \* Mutex.locked
    q,          \* Mutex.q: who waits, oldest first
    owners      \* those whose promise is resolved and who have not released

mutexVars == <<locked, q, owners>>

MutexInit ==
    /\ locked = FALSE
    /\ q = <<>>
    /\ owners = {}

----------------------------------------------------------------------------
\* acquire() of a free lock.
Lock(c) ==
    /\ c \notin owners
    /\ \A i \in DOMAIN q : q[i] # c
    /\ ~locked
    /\ locked' = TRUE
    /\ owners' = owners \cup {c}
    /\ UNCHANGED q

\* acquire() of a taken lock.
QueueUp(c) ==
    /\ c \notin owners
    /\ \A i \in DOMAIN q : q[i] # c
    /\ locked
    /\ q' = Append(q, c)
    /\ UNCHANGED <<locked, owners>>

\* Mutant: the waiter that came last is served first.
HandOverYoungest(c) ==
    /\ c \in owners
    /\ q # <<>>
    /\ owners' = (owners \ {c}) \cup {q[Len(q)]}
    /\ q' = SubSeq(q, 1, Len(q) - 1)
    /\ UNCHANGED locked

\* release() with a waiter: the lock stays taken and changes hands.
HandOver(c) ==
    /\ c \in owners
    /\ q # <<>>
    /\ owners' = (owners \ {c}) \cup {Head(q)}
    /\ q' = Tail(q)
    /\ UNCHANGED locked

\* release() with nobody waiting.
Unlock(c) ==
    /\ c \in owners
    /\ q = <<>>
    /\ owners' = owners \ {c}
    /\ locked' = FALSE
    /\ UNCHANGED q

MutexNext == \E c \in Lockers : Lock(c) \/ QueueUp(c) \/ HandOver(c) \/ Unlock(c)

MutexSpec == MutexInit /\ [][MutexNext]_mutexVars

----------------------------------------------------------------------------
(* Properties *)

\* The hand-over protocol implements a semaphore of one permit, with the
\* semaphore's order of service, and serves every waiter as it does.
OneSemaphore ==
    INSTANCE AsyncSemaphore WITH
        Clients <- Lockers, MaxPermits <- 1, Needs <- {1}, MaxRaised <- 0,
        permits <- IF locked THEN 0 ELSE 1,
        requests <- [i \in DOMAIN q |-> [who |-> q[i], need |-> 1]],
        held <- [c \in Lockers |-> IF c \in owners THEN 1 ELSE 0],
        raised <- 0

MutexIsSemaphore == OneSemaphore!SemSpec

============================================================================
