----------------------------- MODULE CronStore -----------------------------
(***************************************************************************)
(* packages/cron/src/store/memory.ts: the trigger and run tables, and what *)
(* each Store method does to them.  Several schedulers may share a store;  *)
(* its methods are atomic.  priority and the plan of a trigger are fixed   *)
(* by its options; revision and lastRunAt are written and never read, and  *)
(* are left out.                                                           *)
(***************************************************************************)
EXTENDS Integers, FiniteSets

CONSTANTS
    Owners,      \* the scheduler ids
    NoOwner,     \* the absent leaseOwner
    Triggers,    \* trigger ids, numbered in localeCompare order
    Jobs,        \* job names
    Priority,    \* a trigger's priority option, lower first
    MaxRuns,     \* bound: run ids generated for a trigger
    ListLimit    \* listDueTriggers' limit

ASSUME StoreAssumption ==
    /\ NoOwner \notin Owners
    /\ Triggers \subseteq Nat
    /\ IsFiniteSet(Triggers)
    /\ Priority \in [Triggers -> Int]
    /\ MaxRuns \in Nat \ {0}
    /\ ListLimit \in Nat

VARIABLES
    now,         \* clock.now()
    trig,        \* the trigger table
    runs,        \* the run table
    jobs         \* the job table: no record, active or paused

storeVars == <<trig, runs, jobs>>

RunIds == Triggers \X (1..MaxRuns)

NoTrigger == [next |-> -1]
NoRun == [status |-> "none"]

\* rid is metadata.nextRunId, until is leasedUntil.
TriggerRecord ==
    [next : Nat, rid : 1..MaxRuns, fail : Nat, paused : BOOLEAN,
     owner : Owners \cup {NoOwner}, until : Nat]

Statuses == {"running", "completed", "failed", "stalled"}

JobStates == {"none", "active", "paused"}

RunRecord ==
    [status : Statuses, attempt : Nat \ {0}, sched : Nat, beat : Nat]

StoreTypeOK ==
    /\ now \in Nat
    /\ trig \in [Triggers -> TriggerRecord \cup {NoTrigger}]
    /\ runs \in [RunIds -> RunRecord \cup {NoRun}]
    /\ jobs \in [Jobs -> JobStates]

----------------------------------------------------------------------------
Exists(t) == trig[t] # NoTrigger

\* Mutant: a lease never lapses.
LeasedForGood(r, at) == r.owner # NoOwner

Leased(r, at) == r.owner # NoOwner /\ r.until > at

UpsertTrigger(t, r) == trig' = [trig EXCEPT ![t] = r]

DeleteTrigger(t) == trig' = [trig EXCEPT ![t] = NoTrigger]

\* claimTrigger's test: an owner may claim again what it already leases.
Claimable(t, o) ==
    /\ Exists(t)
    /\ ~trig[t].paused
    /\ Leased(trig[t], now) => trig[t].owner = o

\* Mutant: a claim without a term.
ClaimForNow(t, o, lease) ==
    trig' = [trig EXCEPT ![t] = [@ EXCEPT !.owner = o, !.until = now]]

ClaimTrigger(t, o, lease) ==
    trig' = [trig EXCEPT ![t] = [@ EXCEPT !.owner = o, !.until = now + lease]]

ReleaseTrigger(t, o) ==
    trig' = IF Exists(t) /\ trig[t].owner = o
            THEN [trig EXCEPT ![t] = [@ EXCEPT !.owner = NoOwner, !.until = 0]]
            ELSE trig

\* Mutant: leased triggers are listed too.
AvailableLeased(at) ==
    {t \in Triggers : Exists(t) /\ ~trig[t].paused /\ trig[t].next <= at}

\* listDueTriggers: the filter, the order and the slice, as snapshots.
Available(at) ==
    {t \in Triggers : /\ Exists(t)
                      /\ ~trig[t].paused
                      /\ trig[t].next <= at
                      /\ ~Leased(trig[t], at)}

Snapshots(S) == {[t |-> t, snap |-> trig[t]] : t \in S}

\* priority, then nextRunAt, then id.
Before(a, b) ==
    \/ Priority[a.t] < Priority[b.t]
    \/ /\ Priority[a.t] = Priority[b.t]
       /\ \/ a.snap.next < b.snap.next
          \/ a.snap.next = b.snap.next /\ a.t < b.t

ListDue(at) ==
    LET due == Snapshots(Available(at))
    IN  {d \in due : Cardinality({e \in due : Before(e, d)}) < ListLimit}

RecordRunStart(id, attempt, sched) ==
    runs' = [runs EXCEPT ![id] = [status |-> "running", attempt |-> attempt,
                                  sched |-> sched, beat |-> now]]

RecordRunEnd(id, status) ==
    runs' = IF runs[id] = NoRun THEN runs
            ELSE [runs EXCEPT ![id].status = status]

TouchRun(id) ==
    runs' = IF runs[id] = NoRun THEN runs
            ELSE [runs EXCEPT ![id].beat = now]


\* findStalledRuns, as the ids and what handleStalledRun reads of the runs.
StalledRuns(timeout) ==
    {[id |-> id, sched |-> runs[id].sched, attempt |-> runs[id].attempt] :
        id \in {i \in RunIds : /\ runs[i] # NoRun
                               /\ runs[i].status = "running"
                               /\ runs[i].beat < now - timeout}}

SetJobPaused(j, b) ==
    jobs' = IF jobs[j] = "none" THEN jobs
            ELSE [jobs EXCEPT ![j] = IF b THEN "paused" ELSE "active"]

RemoveJob(j) == jobs' = [jobs EXCEPT ![j] = "none"]
=============================================================================
