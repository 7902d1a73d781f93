-------------------------- MODULE AsyncSemaphore --------------------------
(***************************************************************************)
(* Semaphore and FairSemaphore of shareds/async/src/concurrency/           *)
(* semaphore.ts: a counter of permits and one queue, in order of arrival,  *)
(* of requests for n permits each.                                         *)
(*                                                                         *)
(* Both classes grant inside the call that makes room, so that every call  *)
(* is one step: a request holds its permits from the moment its promise is *)
(* resolved, whenever its continuation runs.  A client stands for one      *)
(* request at a time; withPermit() is AcquirePermits, then ReleasePermits. *)
(* The handle's `done` flag makes its second call a no-op, left out here.  *)
(***************************************************************************)
EXTENDS Integers, Sequences, FiniteSets, FiniteSetsExt

CONSTANTS
    Clients,    \* who acquires
    MaxPermits, \* the constructor's max
    Needs,      \* the n of acquire(n); acquire(0) and release(0) throw
    MaxRaised   \* bound: permits that direct calls of release(n) may add

ASSUME SemaphoreAssumption ==
    /\ MaxPermits \in Nat \ {0}
    /\ Needs \subseteq Nat \ {0}
    /\ MaxRaised \in Nat

VARIABLES
    permits,    \* Semaphore.permits
    requests,   \* Semaphore.queue, oldest first: [who, need]
    held,       \* per client: the permits its handle will give back
    raised      \* permits added by release(n) beyond those acquired

semVars == <<permits, requests, held, raised>>

SemInit ==
    /\ permits = MaxPermits
    /\ requests = <<>>
    /\ held = [c \in Clients |-> 0]
    /\ raised = 0

Queued == {requests[i].who : i \in DOMAIN requests}

----------------------------------------------------------------------------
\* Per k, the permits that the first k requests of q ask for.
Asked(q) ==
    LET sum[k \in 0..Len(q)] == IF k = 0 THEN 0 ELSE sum[k - 1] + q[k].need
    IN  sum

\* Mutant: the loop stops one request early.
GrantedAtMostOne(q, p) == IF q # <<>> /\ q[1].need <= p THEN 1 ELSE 0

\* How many requests of q the loop of processQueue() grants out of p permits.
Granted(q, p) == Max({k \in 0..Len(q) : Asked(q)[k] <= p})

\* Mutant: the whole queue is searched for a request that fits.
ProcessAnyThatFits(q, p, h) ==
    LET fits == {i \in DOMAIN q : q[i].need <= p}
    IN  IF fits = {}
        THEN permits' = p /\ requests' = q /\ held' = h
        ELSE LET i == Min({j \in fits : \A l \in fits : q[j].need <= q[l].need})
             IN  /\ permits' = p - q[i].need
                 /\ requests' = SubSeq(q, 1, i - 1) \o SubSeq(q, i + 1, Len(q))
                 /\ held' = [h EXCEPT ![q[i].who] = q[i].need]

\* processQueue() on the queue q, with p permits and the holdings h.
ProcessQueue(q, p, h) ==
    LET k == Granted(q, p)
    IN  /\ permits' = p - Asked(q)[k]
        /\ requests' = SubSeq(q, k + 1, Len(q))
        /\ held' = [c \in Clients |->
                        IF \E i \in 1..k : q[i].who = c
                        THEN q[CHOOSE i \in 1..k : q[i].who = c].need
                        ELSE h[c]]

Request(c, n) == [who |-> c, need |-> n]

\* Mutant: the fast path does not look at the queue.
AcquireBarging(c, n) ==
    /\ held[c] = 0
    /\ c \notin Queued
    /\ IF permits >= n
       THEN /\ permits' = permits - n
            /\ held' = [held EXCEPT ![c] = n]
            /\ UNCHANGED requests
       ELSE ProcessQueue(Append(requests, Request(c, n)), permits, held)
    /\ UNCHANGED raised

\* acquire(n) of Semaphore: a fast path for an empty queue.
AcquirePermits(c, n) ==
    /\ held[c] = 0
    /\ c \notin Queued
    /\ IF requests = <<>> /\ permits >= n
       THEN /\ permits' = permits - n
            /\ held' = [held EXCEPT ![c] = n]
            /\ UNCHANGED requests
       ELSE ProcessQueue(Append(requests, Request(c, n)), permits, held)
    /\ UNCHANGED raised

\* acquire(n) of FairSemaphore: always through the queue.
FairAcquire(c, n) ==
    /\ held[c] = 0
    /\ c \notin Queued
    /\ ProcessQueue(Append(requests, Request(c, n)), permits, held)
    /\ UNCHANGED raised

\* The handle that acquire() resolved with, called for the first time.
ReleasePermits(c) ==
    /\ held[c] > 0
    /\ ProcessQueue(requests, permits + held[c], [held EXCEPT ![c] = 0])
    /\ UNCHANGED raised

\* release(n), public on Semaphore, called by one who acquired nothing.
RaisePermits(n) ==
    /\ raised + n <= MaxRaised
    /\ raised' = raised + n
    /\ ProcessQueue(requests, permits + n, held)

SemNext ==
    \/ \E c \in Clients, n \in Needs : AcquirePermits(c, n)
    \/ \E c \in Clients : ReleasePermits(c)
    \/ \E n \in Needs : RaisePermits(n)

SemSpec == SemInit /\ [][SemNext]_semVars

----------------------------------------------------------------------------
(* Properties *)

\* No lost wakeup: the request at the head waits only for want of permits.
HeadIsBlocked == requests # <<>> => permits < Head(requests).need

\* When a request is granted, so is every one that was queued before it.
GrantsInOrder ==
    [][\A c \in Clients :
          held[c] = 0 /\ held'[c] > 0 =>
              \A i \in DOMAIN requests :
                  (\A j \in 1..i : requests[j].who # c) => held'[requests[i].who] > 0]_semVars

\* Semaphore's fast path does what FairSemaphore's trip through the queue does.
FastPathIsFair ==
    [][\A c \in Clients, n \in Needs :
          AcquirePermits(c, n) <=> FairAcquire(c, n)]_semVars

\* First come, first served: a request is granted after those before it,
\* however small it is, and at once when the permits are there; so that the two
\* classes are one machine.
NoOvertaking == []HeadIsBlocked /\ GrantsInOrder /\ FastPathIsFair

============================================================================
