--------------------------- MODULE CronScheduler ---------------------------
(***************************************************************************)
(* SchedulerEngine of packages/cron/src/scheduler.ts: several engines      *)
(* (processes, or schedulers of one process) over one store.               *)
(*                                                                         *)
(* An action is the code between two awaits, ending with the store call    *)
(* that is awaited next.  A drain is one call of drainDueTriggers, or      *)
(* executeNow's call of processTrigger; a fiber is one call of executeRun; *)
(* each engine has one stalled monitor.  `Remote` says whether store calls *)
(* take time.  With the in-memory store, or an embedded one, they do not:  *)
(* awaits cost microtasks, and timers fire only when no continuation is    *)
(* left (Quiet).                                                           *)
(***************************************************************************)
EXTENDS CronPlan, CronStore, Sequences

CONSTANTS
    Fibers, Drains,  \* bound: executeRun and drain calls in flight
    JobOf,           \* a trigger's job
    Kind, Occ, EndAt,   \* a trigger's plan: its kind, its occurrences, endAt
    Policy,          \* misfirePolicy; all but "skip" run the late occurrence
    MaxAttempts,     \* a job's retries.maxAttempts, 1 without a policy
    RetryDelay,      \* delay of the retry strategy
    TimeoutMs,       \* a job's timeoutMs, 0 for none
    LeaseMs, Tolerance, StalledAfter, MaxSkip,   \* as in the code
    Limit,           \* permits of "global" and of each job, 0 for none
    Remote,          \* store calls take time
    Ops,             \* the client calls and failures that may happen
    MaxOps,          \* bound: how many of them
    MaxTime          \* bound: the clock

ASSUME SchedulerAssumption ==
    /\ "global" \notin Jobs
    /\ JobOf \in [Triggers -> Jobs]
    /\ Kind \in [Triggers -> Kinds]
    /\ Occ \in [Triggers -> SUBSET Nat]
    /\ \A t \in Triggers : IsFiniteSet(Occ[t])
    /\ EndAt \in [Triggers -> Nat]
    /\ MaxAttempts \in [Jobs -> Nat \ {0}]
    /\ Limit \in [Jobs \cup {"global"} -> Nat]
    /\ {RetryDelay, TimeoutMs, LeaseMs, Tolerance, StalledAfter, MaxTime}
            \subseteq Nat
    /\ MaxSkip \in Nat \ {0}
    /\ Remote \in BOOLEAN
    /\ MaxOps \in Nat

VARIABLES
    ids,      \* run ids generated so far, per trigger
    eng,      \* the engines' fields
    sem,      \* the engines' semaphores: permits taken and who waits
    drains,
    fibers,
    mon,      \* the engines' stalled monitors
    edit,     \* a trigger handle's call between its get and its write
    strays,   \* handlers that go on after their run has timed out
    ops       \* client calls and failures so far

vars == <<now, trig, runs, jobs, ids, eng, sem, drains, fibers, mon,
          edit, strays, ops>>

Keys == Jobs \cup {"global"}
Idle == [pc |-> "idle"]

\* loopScheduled is armed; handled is handledRuns; cap is runCapacity, as the
\* semaphores an entry releases, {} without one; wait is what a graceful
\* shutdown still waits for.
Engine ==
    [up : BOOLEAN, stopped : BOOLEAN, paused : BOOLEAN, armed : BOOLEAN,
     jobs : SUBSET Jobs, handled : SUBSET RunIds, cap : [RunIds -> SUBSET Keys],
     wait : SUBSET Fibers]

\* bootstrap: the job table is hydrated from the store.
NoCap == [i \in RunIds |-> {}]
Started ==
    [up |-> TRUE, stopped |-> FALSE, paused |-> FALSE, armed |-> TRUE,
     jobs |-> {j \in Jobs : jobs[j] # "none"}, handled |-> {}, cap |-> NoCap,
     wait |-> {}]

Snapshot == [t : Triggers, snap : TriggerRecord]

\* poll tells drainDueTriggers from executeNow, at is the `now` of both.
DrainRecord ==
    [pc : {"claim"}, o : Owners, at : Nat, due : SUBSET Snapshot,
     poll : BOOLEAN]
    \cup [pc : {"decide", "release"}, o : Owners, at : Nat,
          due : SUBSET Snapshot, poll : BOOLEAN, cur : Snapshot]

\* since is when the handler was called, kept for timeoutMs only.
FiberRecord ==
    [pc : {"acquire", "waiting", "woken", "running", "ended", "release"},
     o : Owners, t : Triggers, snap : TriggerRecord, sched : Nat,
     held : SUBSET Keys, since : Nat, ok : BOOLEAN]

RunSnapshot == [id : RunIds, sched : Nat, attempt : Nat \ {0}]

MonitorRecord ==
    [pc : {"next"}, todo : SUBSET RunSnapshot]
    \cup [pc : {"end"}, todo : SUBSET RunSnapshot,
          run : RunSnapshot, snap : TriggerRecord \cup {NoTrigger}]
    \cup [pc : {"settle", "release"}, todo : SUBSET RunSnapshot,
          run : RunSnapshot, snap : TriggerRecord]

EditRecord ==
    [op : {"pause", "resume", "cancel"}, t : Triggers, snap : TriggerRecord]

\* A handler outside its run: all it can still do is to touch() it.
StrayRecord == [o : Owners, id : RunIds]

TypeOK ==
    /\ StoreTypeOK
    /\ ids \in [Triggers -> 0..MaxRuns]
    /\ eng \in [Owners -> Engine]
    /\ sem \in [Owners -> [Keys -> [cur : Nat, queue : Seq(Fibers)]]]
    /\ drains \in [Drains -> DrainRecord \cup {Idle}]
    /\ fibers \in [Fibers -> FiberRecord \cup {Idle}]
    /\ mon \in [Owners -> MonitorRecord \cup {Idle}]
    /\ edit \in EditRecord \cup {Idle}
    /\ strays \subseteq StrayRecord
    /\ ops \in 0..MaxOps

Init ==
    /\ now = 0
    /\ trig = [t \in Triggers |-> NoTrigger]
    /\ runs = [i \in RunIds |-> NoRun]
    /\ jobs = [j \in Jobs |-> "active"]
    /\ ids = [t \in Triggers |-> 0]
    /\ eng = [o \in Owners |-> Started]
    /\ sem = [o \in Owners |-> [k \in Keys |-> [cur |-> 0, queue |-> <<>>]]]
    /\ drains = [d \in Drains |-> Idle]
    /\ fibers = [f \in Fibers |-> Idle]
    /\ mon = [o \in Owners |-> Idle]
    /\ edit = Idle
    /\ strays = {}
    /\ ops = 0

----------------------------------------------------------------------------
(* Timers, continuations and capacity *)

\* No continuation is left to run: everything in flight waits for a timer,
\* a handler or a permit.
Quiet ==
    /\ \A d \in Drains : drains[d] = Idle
    /\ \A f \in Fibers : fibers[f].pc \in {"idle", "waiting", "running"}
    /\ \A o \in Owners : mon[o] = Idle
    /\ edit = Idle

TimerMayFire == Remote \/ Quiet

\* armTimer.
Arm(e) == IF e.stopped \/ e.paused THEN e ELSE [e EXCEPT !.armed = TRUE]

\* generateRunId, as the next number.
NewId(t) == ids[t] + 1
GenerateRunId(t) == ids[t] < MaxRuns /\ ids' = [ids EXCEPT ![t] = NewId(t)]

JobKnown(o, t) == JobOf[t] \in eng[o].jobs

\* The semaphore acquireCapacity turns to next: the global one, then the
\* job's, unless the job has been unregistered meanwhile.
NextPermit(r) ==
    IF Limit["global"] > 0 /\ "global" \notin r.held THEN "global"
    ELSE JobOf[r.t]
MustAcquire(r) ==
    LET k == NextPermit(r)
    IN  /\ Limit[k] > 0
        /\ k \notin r.held
        /\ k = "global" \/ JobKnown(r.o, r.t)

\* Fiber f, whose record is to be r, asks for its next permit if it needs
\* one: it takes it, or queues.
Acquire(f, r) ==
    LET k == NextPermit(r)
    IN  \/ /\ ~MustAcquire(r)
           /\ fibers' = [fibers EXCEPT ![f] = r]
           /\ UNCHANGED sem
        \/ /\ MustAcquire(r)
           /\ sem[r.o][k].cur < Limit[k]
           /\ sem' = [sem EXCEPT ![r.o][k].cur = @ + 1]
           /\ fibers' = [fibers EXCEPT ![f] = [r EXCEPT !.held = @ \cup {k}]]
        \/ /\ MustAcquire(r)
           /\ sem[r.o][k].cur >= Limit[k]
           /\ sem' = [sem EXCEPT ![r.o][k].queue = Append(@, f)]
           /\ fibers' = [fibers EXCEPT ![f] = [r EXCEPT !.pc = "waiting"]]

\* releaseRunCapacity gives back what the run's entry in runCapacity holds;
\* a second call for the same run finds no entry.
Freed(o, id) == eng[o].cap[id]
Queued(o, k) == sem[o][k].queue # <<>>
Woken(o, id) == {Head(sem[o][k].queue) : k \in {x \in Freed(o, id) : Queued(o, x)}}
\* Mutant: the waiter that is woken stays queued.
SemFreedUnqueued(o, id) ==
    [sem EXCEPT ![o] = [k \in Keys |->
        IF k \notin Freed(o, id) THEN sem[o][k]
        ELSE [sem[o][k] EXCEPT !.cur = IF @ = 0 THEN 0 ELSE @ - 1]]]
SemFreed(o, id) ==
    [sem EXCEPT ![o] = [k \in Keys |->
        IF k \notin Freed(o, id) THEN sem[o][k]
        ELSE [cur |-> IF sem[o][k].cur = 0 THEN 0 ELSE sem[o][k].cur - 1,
              queue |-> IF Queued(o, k) THEN Tail(sem[o][k].queue) ELSE <<>>]]]
\* Mutant: the waiter is taken off the queue and never woken.
FibersAsleep(o, id) == fibers
FibersWoken(o, id) ==
    [f \in Fibers |-> IF f \in Woken(o, id)
                      THEN [fibers[f] EXCEPT !.pc = "woken"]
                      ELSE fibers[f]]

Attempt(snap) == snap.fail + 1

\* plan.next of a trigger.
NextRun(t, after) == PlanNext(Kind[t], Occ[t], EndAt[t], after)

RetryLeft(j, attempt) == attempt < MaxAttempts[j]

\* Mutant of Settle: a retry keeps its run's id.
SettleSameRun(t, snap, retry, n) ==
    /\ UpsertTrigger(t, [snap EXCEPT
            !.next = IF retry THEN now + RetryDelay ELSE n,
            !.fail = IF retry THEN @ + 1 ELSE 0])
    /\ UNCHANGED ids

\* The end of a run or of a stalled one: the snapshot of the trigger goes
\* back to the store with the retry's time or the plan's next one, or the
\* trigger is deleted.  A plan that gives up throws out of all this.
Settle(t, snap, retry, n) ==
    \/ /\ retry
       /\ GenerateRunId(t)
       /\ UpsertTrigger(t, [snap EXCEPT
            !.next = now + RetryDelay, !.rid = NewId(t), !.fail = @ + 1])
    \/ /\ ~retry /\ n \in Nat
       /\ GenerateRunId(t)
       /\ UpsertTrigger(t, [snap EXCEPT
            !.next = n, !.rid = NewId(t), !.fail = 0])
    \/ /\ ~retry /\ n = NoTime
       /\ DeleteTrigger(t)
       /\ UNCHANGED ids

----------------------------------------------------------------------------
(* Polling: tick, drainDueTriggers, processTrigger *)

Claiming(o, at, due, poll) ==
    [pc |-> "claim", o |-> o, at |-> at, due |-> due, poll |-> poll]

\* tick, up to the answer of listDueTriggers.  With nothing due it arms the
\* timer again and nothing has changed.
Tick(o) ==
    /\ eng[o].up /\ eng[o].armed /\ ~eng[o].stopped
    /\ TimerMayFire
    /\ \A t \in Triggers : ids[t] < MaxRuns
    /\ eng' = [eng EXCEPT ![o].armed = FALSE]
    /\ \/ eng[o].paused /\ UNCHANGED drains
       \/ /\ ~eng[o].paused
          /\ ListDue(now) # {}
          /\ \E d \in Drains :
                /\ drains[d] = Idle
                /\ drains' = [drains EXCEPT
                                ![d] = Claiming(o, now, ListDue(now), TRUE)]
    /\ UNCHANGED <<now, storeVars, ids, sem, fibers, mon, edit, strays, ops>>

\* The drain is done with its trigger; after the last one tick re-arms.
Go(d, due) ==
    LET r == drains[d]
    IN  IF due = {}
        THEN /\ drains' = [drains EXCEPT ![d] = Idle]
             /\ eng' = IF r.poll THEN [eng EXCEPT ![r.o] = Arm(@)] ELSE eng
        ELSE /\ drains' = [drains EXCEPT
                            ![d] = Claiming(r.o, r.at, due, r.poll)]
             /\ UNCHANGED eng

\* The loop's stopped test, and processTrigger up to its claim.
DrainClaim(d) ==
    LET r == drains[d]
    IN  /\ r.pc = "claim"
        /\ \E s \in r.due :
            /\ \A x \in r.due : ~Before(x, s)
            /\ \/ /\ r.poll /\ eng[r.o].stopped
                  /\ Go(d, {})
                  /\ UNCHANGED trig
               \/ /\ ~(r.poll /\ eng[r.o].stopped)
                  /\ Claimable(s.t, r.o)
                  /\ ClaimTrigger(s.t, r.o, LeaseMs)
                  /\ drains' = [drains EXCEPT ![d] =
                        [pc |-> "decide", o |-> r.o, at |-> r.at,
                         due |-> r.due \ {s}, poll |-> r.poll, cur |-> s]]
                  /\ UNCHANGED eng
               \/ /\ ~(r.poll /\ eng[r.o].stopped)
                  /\ ~Claimable(s.t, r.o)
                  /\ Go(d, r.due \ {s})
                  /\ UNCHANGED trig
        /\ UNCHANGED <<now, runs, jobs, ids, sem, fibers, mon, edit, strays, ops>>

Deciding(d) == drains[d].pc = "decide"
Misfired(r) == r.at - r.cur.snap.next > Tolerance
Skipped(r) == Misfired(r) /\ Policy[r.cur.t] = "skip"
SkippedTo(r) ==
    SkipTo(Kind[r.cur.t], Occ[r.cur.t], EndAt[r.cur.t], r.cur.snap.next, r.at,
           Tolerance, MaxSkip)

\* The job is gone: the lease is given back.
DrainJobMissing(d) ==
    LET r == drains[d]
    IN  /\ Deciding(d)
        /\ ~JobKnown(r.o, r.cur.t)
        /\ ReleaseTrigger(r.cur.t, r.o)
        /\ Go(d, r.due)
        /\ UNCHANGED <<now, runs, jobs, ids, sem, fibers, mon, edit, strays, ops>>

\* skipOverdueRuns: the snapshot goes back with a later occurrence, or the
\* trigger goes.
DrainSkip(d) ==
    LET r == drains[d]
        t == r.cur.t
        m == SkippedTo(r)
    IN  /\ Deciding(d)
        /\ JobKnown(r.o, t)
        /\ Skipped(r)
        /\ \/ m = NoTime /\ DeleteTrigger(t) /\ UNCHANGED ids
           \/ /\ m \in Nat
              /\ GenerateRunId(t)
              /\ UpsertTrigger(t, [r.cur.snap EXCEPT
                    !.next = m, !.rid = NewId(t), !.fail = 0])
        /\ drains' = [drains EXCEPT ![d].pc = "release"]
        /\ UNCHANGED <<now, runs, jobs, eng, sem, fibers, mon, edit, strays, ops>>

\* plan.next throws in skipOverdueRuns: tick, or executeNow, rejects.  The
\* trigger stays leased, the rest of the list is dropped, and tick does not
\* come to armTimer.  Nothing handles that rejection of tick: unless the host
\* does, Node ends the process, as in Crash.
DrainGivesUp(d) ==
    LET r == drains[d]
    IN  /\ Deciding(d)
        /\ JobKnown(r.o, r.cur.t)
        /\ Skipped(r)
        /\ SkippedTo(r) = GaveUp
        /\ drains' = [drains EXCEPT ![d] = Idle]
        /\ UNCHANGED <<now, storeVars, ids, eng, sem, fibers, mon, edit,
                       strays, ops>>

\* executeRun is called, up to its first await; the drain does not wait.
DrainDispatch(d) ==
    LET r == drains[d]
    IN  /\ Deciding(d)
        /\ JobKnown(r.o, r.cur.t)
        /\ ~Skipped(r)
        /\ \E f \in Fibers :
            /\ fibers[f] = Idle
            /\ Acquire(f, [pc |-> "acquire", o |-> r.o, t |-> r.cur.t,
                           snap |-> r.cur.snap, sched |-> r.cur.snap.next,
                           held |-> {}, since |-> 0, ok |-> FALSE])
        /\ Go(d, r.due)
        /\ UNCHANGED <<now, storeVars, ids, mon, edit, strays, ops>>

\* processTrigger's release after a skip.
DrainRelease(d) ==
    LET r == drains[d]
    IN  /\ r.pc = "release"
        /\ ReleaseTrigger(r.cur.t, r.o)
        /\ Go(d, r.due)
        /\ UNCHANGED <<now, runs, jobs, ids, sem, fibers, mon, edit, strays, ops>>

----------------------------------------------------------------------------
(* executeRun *)

RunId(f) == <<fibers[f].t, fibers[f].snap.rid>>

\* acquireCapacity goes on to the job's semaphore.
AcquireMore(f) ==
    /\ fibers[f].pc = "acquire"
    /\ MustAcquire(fibers[f])
    /\ Acquire(f, fibers[f])
    /\ UNCHANGED <<now, storeVars, ids, eng, drains, mon, edit, strays, ops>>

\* A woken waiter counts itself in.
Resume(f) ==
    LET r == fibers[f]
    IN  /\ r.pc = "woken"
        /\ sem' = [sem EXCEPT ![r.o][NextPermit(r)].cur = @ + 1]
        /\ fibers' = [fibers EXCEPT ![f].pc = "acquire",
                                     ![f].held = @ \cup {NextPermit(r)}]
        /\ UNCHANGED <<now, storeVars, ids, eng, drains, mon, edit, strays, ops>>

\* All permits taken: the run's release is filed and the run recorded.
StartRun(f) ==
    LET r == fibers[f]
    IN  /\ r.pc = "acquire"
        /\ ~MustAcquire(r)
        /\ eng' = [eng EXCEPT ![r.o].cap[RunId(f)] = r.held]
        /\ RecordRunStart(RunId(f), Attempt(r.snap), r.sched)
        /\ fibers' = [fibers EXCEPT ![f].pc = "running",
                            ![f].since = IF TimeoutMs > 0 THEN now ELSE 0]
        /\ UNCHANGED <<now, trig, jobs, ids, sem, drains, mon, edit, strays, ops>>

Running(f) == fibers[f].pc = "running"

\* The runs whose handlers execute, strays included.
Executing == {RunId(f) : f \in {g \in Fibers : Running(g)}} \cup {s.id : s \in strays}

\* A handler calls touch().
Touch(id) ==
    /\ "touch" \in Ops
    /\ id \in Executing
    /\ TouchRun(id)
    /\ UNCHANGED <<now, trig, jobs, ids, eng, sem, drains, fibers, mon, edit,
                   strays, ops>>

\* The runner's promise settles and the run's end is recorded.
Settled(f, ok) ==
    /\ Running(f)
    /\ RecordRunEnd(RunId(f), IF ok THEN "completed" ELSE "failed")
    /\ fibers' = [fibers EXCEPT ![f].pc = "ended", ![f].since = 0,
                                 ![f].ok = ok]
    /\ UNCHANGED <<now, trig, jobs, ids, eng, sem, drains, mon, edit>>

\* The handler returns or throws.
Finish(f, ok) == Settled(f, ok) /\ UNCHANGED <<strays, ops>>

Happens(op) == op \in Ops /\ ops < MaxOps /\ ops' = ops + 1

\* Mutant: the timeout never fires.
TimeoutNever(f) == FALSE

\* The time a running job's timeoutMs leaves it is over.
TimeoutDue(f) ==
    /\ TimeoutMs > 0
    /\ Running(f)
    /\ now >= fibers[f].since + TimeoutMs

\* The runner's timeout rejects the run and aborts the handler's signal.  A
\* handler that heeds the signal ends; any other goes on beside the retry.
TimesOut(f) ==
    /\ TimerMayFire
    /\ TimeoutDue(f)
    /\ Settled(f, FALSE)
    /\ \/ UNCHANGED <<strays, ops>>
       \/ /\ Happens("stray")
          /\ strays' = strays \cup {[o |-> fibers[f].o, id |-> RunId(f)]}

\* What it returns or throws then is dropped.
StrayEnds(s) ==
    /\ s \in strays
    /\ strays' = strays \ {s}
    /\ UNCHANGED <<now, storeVars, ids, eng, sem, drains, fibers, mon, edit,
                   ops>>

Retries(f) ==
    /\ ~fibers[f].ok
    /\ RetryLeft(JobOf[fibers[f].t], Attempt(fibers[f].snap))

Handled(f) == RunId(f) \in eng[fibers[f].o].handled

\* The finally block and, when the stalled monitor has dealt with the run,
\* the release of the trigger.
WrapHandled(f) ==
    LET r == fibers[f]
    IN  /\ r.pc = "ended"
        /\ Handled(f)
        /\ sem' = SemFreed(r.o, RunId(f))
        /\ fibers' = [FibersWoken(r.o, RunId(f)) EXCEPT ![f] = Idle]
        /\ eng' = [eng EXCEPT ![r.o].cap[RunId(f)] = {},
                              ![r.o].handled = @ \ {RunId(f)},
                              ![r.o].wait = @ \ {f}]
        /\ ReleaseTrigger(r.t, r.o)
        /\ UNCHANGED <<now, runs, jobs, ids, drains, mon, edit, strays, ops>>

\* The finally block, then the write of the snapshot taken before the claim.
Wrap(f) ==
    LET r == fibers[f]
    IN  /\ r.pc = "ended"
        /\ ~Handled(f)
        /\ sem' = SemFreed(r.o, RunId(f))
        /\ fibers' = [FibersWoken(r.o, RunId(f)) EXCEPT ![f].pc = "release"]
        /\ eng' = [eng EXCEPT ![r.o].cap[RunId(f)] = {}]
        /\ Settle(r.t, r.snap, Retries(f), NextRun(r.t, r.sched))
        /\ UNCHANGED <<now, runs, jobs, drains, mon, edit, strays, ops>>

\* plan.next throws after the finally block: executeRun rejects, and the
\* trigger keeps its record and its lease.  Nothing handles the rejection.
WrapGivesUp(f) ==
    LET r == fibers[f]
    IN  /\ r.pc = "ended"
        /\ ~Handled(f) /\ ~Retries(f)
        /\ NextRun(r.t, r.sched) = GaveUp
        /\ sem' = SemFreed(r.o, RunId(f))
        /\ fibers' = [FibersWoken(r.o, RunId(f)) EXCEPT ![f] = Idle]
        /\ eng' = [eng EXCEPT ![r.o].cap[RunId(f)] = {}, ![r.o].wait = @ \ {f}]
        /\ UNCHANGED <<now, storeVars, ids, drains, mon, edit, strays, ops>>

\* The release after the write, and the end of executeRun.
ReleaseLease(f) ==
    LET r == fibers[f]
    IN  /\ r.pc = "release"
        /\ ReleaseTrigger(r.t, r.o)
        /\ fibers' = [fibers EXCEPT ![f] = Idle]
        /\ eng' = [eng EXCEPT ![r.o].wait = @ \ {f}]
        /\ UNCHANGED <<now, runs, jobs, ids, sem, drains, mon, edit, strays, ops>>

----------------------------------------------------------------------------
(* checkStalledRuns and handleStalledRun *)

Monitoring(todo) == IF todo = {} THEN Idle ELSE [pc |-> "next", todo |-> todo]

MonScan(o) ==
    /\ eng[o].up /\ ~eng[o].stopped
    /\ TimerMayFire
    /\ mon[o] = Idle
    /\ StalledRuns(StalledAfter) # {}
    /\ mon' = [mon EXCEPT ![o] = Monitoring(StalledRuns(StalledAfter))]
    /\ UNCHANGED <<now, storeVars, ids, eng, sem, drains, fibers, edit, strays,
                   ops>>

\* The next run of the scan, up to the answer of getTrigger.
MonGet(o) ==
    /\ mon[o].pc = "next"
    /\ \E run \in mon[o].todo :
        mon' = [mon EXCEPT ![o] =
            IF run.id \in eng[o].handled THEN Monitoring(@.todo \ {run})
            ELSE [pc |-> "end", todo |-> @.todo \ {run}, run |-> run,
                  snap |-> trig[run.id[1]]]]
    /\ UNCHANGED <<now, storeVars, ids, eng, sem, drains, fibers, edit, strays,
                   ops>>

\* Mutant: the entry in runCapacity stays.
GiveUpUnfiled(o, id) ==
    /\ sem' = SemFreed(o, id)
    /\ fibers' = FibersWoken(o, id)
    /\ eng' = [eng EXCEPT ![o].handled = @ \cup {id}]

\* noteHandledRun and releaseRunCapacity.
GiveUpRun(o, id) ==
    /\ sem' = SemFreed(o, id)
    /\ fibers' = FibersWoken(o, id)
    /\ eng' = [eng EXCEPT ![o].cap[id] = {}, ![o].handled = @ \cup {id}]

\* The trigger or the job is gone: nothing is recorded.
MonForget(o) ==
    LET m == mon[o]
        t == m.run.id[1]
    IN  /\ m.pc = "end"
        /\ \/ m.snap = NoTrigger /\ UNCHANGED trig
           \/ /\ m.snap # NoTrigger
              /\ ~JobKnown(o, t)
              /\ ReleaseTrigger(t, o)
        /\ GiveUpRun(o, m.run.id)
        /\ mon' = [mon EXCEPT ![o] = Monitoring(m.todo)]
        /\ UNCHANGED <<now, runs, jobs, ids, drains, edit, strays, ops>>

MonRecordEnd(o) ==
    LET m == mon[o]
    IN  /\ m.pc = "end"
        /\ m.snap # NoTrigger
        /\ JobKnown(o, m.run.id[1])
        /\ RecordRunEnd(m.run.id, "stalled")
        /\ mon' = [mon EXCEPT ![o].pc = "settle"]
        /\ UNCHANGED <<now, trig, jobs, ids, eng, sem, drains, fibers, edit,
                       strays, ops>>

\* The capacity is freed and the snapshot of getTrigger goes back.
MonSettle(o) ==
    LET m == mon[o]
        t == m.run.id[1]
    IN  /\ m.pc = "settle"
        /\ GiveUpRun(o, m.run.id)
        /\ Settle(t, m.snap, RetryLeft(JobOf[t], m.run.attempt),
                  NextRun(t, m.run.sched))
        /\ mon' = [mon EXCEPT ![o].pc = "release"]
        /\ UNCHANGED <<now, runs, jobs, drains, edit, strays, ops>>

\* plan.next throws: the trigger keeps its record and the rest of the scan is
\* dropped.  The monitor's timer catches this and logs it.
MonGivesUp(o) ==
    LET m == mon[o]
        t == m.run.id[1]
    IN  /\ m.pc = "settle"
        /\ ~RetryLeft(JobOf[t], m.run.attempt)
        /\ NextRun(t, m.run.sched) = GaveUp
        /\ GiveUpRun(o, m.run.id)
        /\ mon' = [mon EXCEPT ![o] = Idle]
        /\ UNCHANGED <<now, storeVars, ids, drains, edit, strays, ops>>

MonRelease(o) ==
    /\ mon[o].pc = "release"
    /\ ReleaseTrigger(mon[o].run.id[1], o)
    /\ mon' = [mon EXCEPT ![o] = Monitoring(@.todo)]
    /\ UNCHANGED <<now, runs, jobs, ids, eng, sem, drains, fibers, edit,
                   strays, ops>>

----------------------------------------------------------------------------
(* The API, failures and the clock *)

NewTrigger(next, rid) ==
    [next |-> next, rid |-> rid, fail |-> 0, paused |-> FALSE,
     owner |-> NoOwner, until |-> 0]

\* schedule, which throws without a first occurrence.  An idempotencyKey used
\* again writes over its trigger.
Schedule(o, t) ==
    LET m == NextRun(t, now)
    IN  /\ eng[o].up
        /\ IF ids[t] = 0 THEN UNCHANGED ops ELSE Happens("reschedule")
        /\ JobKnown(o, t)
        /\ m \in Nat
        /\ GenerateRunId(t)
        /\ UpsertTrigger(t, NewTrigger(m, NewId(t)))
        /\ eng' = [eng EXCEPT ![o] = Arm(@)]
        /\ UNCHANGED <<now, runs, jobs, sem, drains, fibers, mon, edit, strays>>

\* executeNow, up to its own processTrigger: it neither arms the timer nor
\* looks at paused and stopped.
ExecuteNow(o, t) ==
    LET m == NextRun(t, now)
    IN  /\ eng[o].up
        /\ Kind[t] = "at"
        /\ Happens("executeNow")
        /\ ids[t] = 0
        /\ JobKnown(o, t)
        /\ m \in Nat
        /\ GenerateRunId(t)
        /\ UpsertTrigger(t, NewTrigger(m, NewId(t)))
        /\ \E d \in Drains :
            /\ drains[d] = Idle
            /\ drains' = [drains EXCEPT ![d] = Claiming(o, now,
                    {[t |-> t, snap |-> NewTrigger(m, NewId(t))]}, FALSE)]
        /\ UNCHANGED <<now, runs, jobs, eng, sem, fibers, mon, edit, strays>>

PauseAll(o) ==
    /\ eng[o].up /\ ~eng[o].paused
    /\ Happens("pauseAll")
    /\ eng' = [eng EXCEPT ![o].paused = TRUE]
    /\ UNCHANGED <<now, storeVars, ids, sem, drains, fibers, mon, edit, strays>>

\* Mutant: resumeAll leaves the timer alone.
ResumeAllUnarmed(o) ==
    /\ eng[o].up /\ eng[o].paused
    /\ eng' = [eng EXCEPT ![o].paused = FALSE]
    /\ UNCHANGED <<now, storeVars, ids, sem, drains, fibers, mon, edit, strays,
                   ops>>

ResumeAll(o) ==
    /\ eng[o].up /\ eng[o].paused
    /\ eng' = [eng EXCEPT ![o] = Arm([@ EXCEPT !.paused = FALSE])]
    /\ UNCHANGED <<now, storeVars, ids, sem, drains, fibers, mon, edit, strays,
                   ops>>

ActiveFibers(o) == {f \in Fibers : fibers[f] # Idle /\ fibers[f].o = o}

\* A graceful shutdown, which waits for the runs active at the call (or for
\* graceMs, which is not modelled).
Shutdown(o) ==
    /\ eng[o].up /\ ~eng[o].stopped
    /\ Happens("shutdown")
    /\ eng' = [eng EXCEPT ![o].stopped = TRUE, ![o].wait = ActiveFibers(o)]
    /\ UNCHANGED <<now, storeVars, ids, sem, drains, fibers, mon, edit, strays>>

UnregisterJob(o, j) ==
    /\ eng[o].up /\ j \in eng[o].jobs
    /\ Happens("unregister")
    /\ eng' = [eng EXCEPT ![o].jobs = @ \ {j}]
    /\ RemoveJob(j)
    /\ UNCHANGED <<now, trig, runs, ids, sem, drains, fibers, mon, edit, strays>>

\* A job handle's pause and resume.
PauseJob(j, b) ==
    /\ jobs[j] = IF b THEN "active" ELSE "paused"
    /\ Happens("pauseJob")
    /\ SetJobPaused(j, b)
    /\ UNCHANGED <<now, trig, runs, ids, eng, sem, drains, fibers, mon, edit,
                   strays>>

\* A trigger handle's pause, resume or cancel, up to getTrigger's answer.
EditGet(op, t) ==
    /\ edit = Idle
    /\ Exists(t)
    /\ Happens(op)
    /\ edit' = [op |-> op, t |-> t, snap |-> trig[t]]
    /\ UNCHANGED <<now, storeVars, ids, eng, sem, drains, fibers, mon, strays>>

EditPut ==
    /\ edit # Idle
    /\ IF edit.op = "cancel" THEN DeleteTrigger(edit.t)
       ELSE UpsertTrigger(edit.t,
                [edit.snap EXCEPT !.paused = (edit.op = "pause")])
    /\ edit' = Idle
    /\ UNCHANGED <<now, runs, jobs, ids, eng, sem, drains, fibers, mon, ops,
                   strays>>

\* The process dies; the store it shares with others stays.
Crash(o) ==
    /\ eng[o].up
    /\ Happens("crash")
    /\ eng' = [eng EXCEPT ![o].up = FALSE, ![o].armed = FALSE,
                          ![o].handled = {}, ![o].cap = NoCap,
                          ![o].wait = {}]
    /\ sem' = [sem EXCEPT ![o] = [k \in Keys |-> [cur |-> 0, queue |-> <<>>]]]
    /\ drains' = [d \in Drains |->
            IF drains[d] # Idle /\ drains[d].o = o THEN Idle ELSE drains[d]]
    /\ fibers' = [f \in Fibers |->
            IF f \in ActiveFibers(o) THEN Idle ELSE fibers[f]]
    /\ mon' = [mon EXCEPT ![o] = Idle]
    /\ strays' = {s \in strays : s.o # o}
    /\ UNCHANGED <<now, storeVars, ids, edit>>

\* bootstrap of a new process with the same id.
Restart(o) ==
    /\ ~eng[o].up
    /\ eng' = [eng EXCEPT ![o] = Started]
    /\ UNCHANGED <<now, storeVars, ids, sem, drains, fibers, mon, edit, strays,
                   ops>>

Advance ==
    /\ now < MaxTime
    /\ TimerMayFire
    /\ \A f \in Fibers : ~TimeoutDue(f)
    /\ now' = now + 1
    /\ UNCHANGED <<storeVars, ids, eng, sem, drains, fibers, mon, edit, strays,
                   ops>>

DrainStep(d) ==
    \/ DrainClaim(d) \/ DrainJobMissing(d) \/ DrainSkip(d)
    \/ DrainGivesUp(d) \/ DrainDispatch(d) \/ DrainRelease(d)

\* The continuations of executeRun; Finish is the handler's, TimesOut the
\* runner's.
FiberStep(f) ==
    \/ AcquireMore(f) \/ Resume(f) \/ StartRun(f)
    \/ WrapHandled(f) \/ Wrap(f) \/ WrapGivesUp(f) \/ ReleaseLease(f)

MonStep(o) ==
    \/ MonGet(o) \/ MonForget(o) \/ MonRecordEnd(o)
    \/ MonSettle(o) \/ MonGivesUp(o) \/ MonRelease(o)

Call ==
    \/ \E o \in Owners :
        \/ PauseAll(o) \/ ResumeAll(o) \/ Shutdown(o)
        \/ \E t \in Triggers : Schedule(o, t) \/ ExecuteNow(o, t)
        \/ \E j \in Jobs : UnregisterJob(o, j)
    \/ \E j \in Jobs, b \in BOOLEAN : PauseJob(j, b)
    \/ \E op \in {"pause", "resume", "cancel"}, t \in Triggers :
        EditGet(op, t)
    \/ EditPut

Next ==
    \/ \E o \in Owners :
        Tick(o) \/ MonScan(o) \/ MonStep(o) \/ Crash(o) \/ Restart(o)
    \/ \E d \in Drains : DrainStep(d)
    \/ \E f \in Fibers :
        FiberStep(f) \/ TimesOut(f) \/ \E ok \in BOOLEAN : Finish(f, ok)
    \/ \E id \in Executing : Touch(id)
    \/ \E s \in strays : StrayEnds(s)
    \/ Call
    \/ Advance

Spec == Init /\ [][Next]_vars

\* Timers fire, awaits return, and a crashed process is started again.
EngineFairness ==
    /\ \A o \in Owners :
        /\ WF_vars(Tick(o))
        /\ WF_vars(MonScan(o))
        /\ WF_vars(MonStep(o))
        /\ WF_vars(ResumeAll(o))
        /\ WF_vars(Restart(o))
    /\ \A d \in Drains : WF_vars(DrainStep(d))
    /\ \A f \in Fibers : WF_vars(FiberStep(f)) /\ WF_vars(TimesOut(f))
    /\ WF_vars(EditPut)
    /\ WF_vars(Advance)

\* A run's handler returns or throws; a stray need not.
HandlerFairness ==
    \A f \in Fibers : WF_vars(\E ok \in BOOLEAN : Finish(f, ok))

\* Handlers may hang for ever.
HangingSpec == Spec /\ EngineFairness

FairSpec == Spec /\ EngineFairness /\ HandlerFairness

----------------------------------------------------------------------------
(* Properties *)

\* The plan gives up after run i.
Unplanned(i) == runs[i] # NoRun /\ NextRun(i[1], runs[i].sched) = GaveUp

\* No two runs of a trigger are open at once.
OneRunEach ==
    \A f, g \in Fibers :
        Running(f) /\ Running(g) /\ fibers[f].t = fibers[g].t => f = g

\* No run is executed again beside a handler of its own.  A run whose plan has
\* given up is left where it was, to be listed again.
NotBesideItself ==
    \A f \in Fibers, s \in strays :
        Running(f) /\ RunId(f) = s.id => Unplanned(s.id)

\* A trigger's run is executed by one engine at a time (README.md, "prevents
\* double execution across processes").  A handler whose signal was aborted
\* and that goes on all the same is a stray: it may execute beside the
\* trigger's later runs.
NoOverlap == OneRunEach /\ NotBesideItself

\* From its dispatch to the write that ends it, a run is the one its trigger
\* names, and its engine holds the trigger's lease.
RunHoldsLease ==
    \A f \in Fibers :
        LET r == fibers[f]
        IN  r.pc \notin {"idle", "release"} =>
                /\ Exists(r.t)
                /\ trig[r.t].rid = r.snap.rid
                /\ trig[r.t].owner = r.o
                /\ trig[r.t].until > now

\* A run's end is recorded once: no run is started again, and no outcome is
\* overwritten by another, unless its plan gave up.
RunSettlesOnce ==
    [][\A i \in RunIds :
        runs[i] # NoRun /\ runs[i].status # "running" /\ ~Unplanned(i)
            => runs'[i] # NoRun /\ runs'[i].status = runs[i].status]_vars

\* No attempt at an occurrence is more than n beyond retries.maxAttempts.
AttemptsWithin(n) ==
    \A i \in RunIds :
        runs[i] # NoRun => runs[i].attempt <= MaxAttempts[JobOf[i[1]]] + n


\* The permits a fiber has taken and not given back: those acquired so far,
\* and from its start on all of them, while its release is on file.
Holds(f, k) ==
    LET r == fibers[f]
    IN  /\ r.pc # "release"
        /\ k \in r.held
        /\ r.pc \in {"running", "ended"} => k \in eng[r.o].cap[RunId(f)]

\* Each semaphore counts the runs that hold one of its permits.
PermitsCounted ==
    \A o \in Owners, k \in Keys :
        sem[o][k].cur =
            Cardinality({f \in ActiveFibers(o) : Holds(f, k)})

\* No two executions in an engine go by the same run id.
RunsDiffer ==
    \A f, g \in {h \in Fibers : fibers[h].pc \in {"running", "ended"}} :
        fibers[f].o = fibers[g].o /\ RunId(f) = RunId(g) => f = g

\* No permit is lost or given back twice, through wake-ups, runs given up that
\* end late, and unregistered jobs: as long as no run id is executed twice at
\* once, for releases are filed by run id.
PermitsConserved == []RunsDiffer => []PermitsCounted

\* A semaphore's queue holds runs that wait for its permit, each once, so that
\* a release never wakes a run that does not wait for it, or wakes it twice.
QueuesHoldWaiters ==
    \A o \in Owners, k \in Keys :
        LET q == sem[o][k].queue
        IN  /\ \A i \in 1..Len(q) :
                /\ fibers[q[i]].pc = "waiting"
                /\ fibers[q[i]].o = o
                /\ NextPermit(fibers[q[i]]) = k
            /\ \A i, j \in 1..Len(q) : q[i] = q[j] => i = j

\* An engine that is neither paused nor stopped has a timer, or a drain that
\* sets one.
Polls(o) ==
    eng[o].up /\ ~eng[o].stopped /\ ~eng[o].paused
        => \/ eng[o].armed
           \/ \E d \in Drains :
                drains[d] # Idle /\ drains[d].o = o /\ drains[d].poll

\* No order of drains, pauseAll and resumeAll ends an engine's polling: only a
\* plan does that gives up while the overdue runs of its trigger are skipped.
LoopAlive ==
    /\ \A o \in Owners : Polls(o)
    /\ [][\A o \in Owners :
            Polls(o) => \/ Polls(o)'
                        \/ \E d \in Drains : DrainGivesUp(d) /\ drains[d].o = o]_vars

\* An occurrence of a cron plan that has been run or skipped is not planned
\* again: the trigger's new run is for a later time.  (every and at answer the
\* instant they are asked about, if it is one of theirs.)
NextMovesOn ==
    [][\A t \in Triggers :
        Kind[t] = "cron" /\ Exists(t) /\ trig'[t] # NoTrigger =>
            IF trig'[t].rid = trig[t].rid THEN trig'[t].next = trig[t].next
            ELSE trig'[t].next > trig[t].next]_vars

\* Both: neither a run nor an occurrence is taken up twice.
NothingTwice == RunSettlesOnce /\ NextMovesOn

\* The plan of an overdue trigger gives up, after its run or in the skip.
OutOfReach(t) ==
    \/ NextRun(t, trig[t].next) = GaveUp
    \/ /\ Policy[t] = "skip"
       /\ SkipTo(Kind[t], Occ[t], EndAt[t], trig[t].next, now, Tolerance,
                 MaxSkip) = GaveUp

\* Once the failures and calls are over, and with the clock's bound far
\* enough away for a lease to lapse and a run to time out, what is due is run
\* or skipped: no crash leaves a trigger leased, or its run unsettled, for
\* ever.  A plan that gives up does: its trigger is due again whenever its
\* lease lapses, or has ended the polling.
Calm == ops = MaxOps /\ now + LeaseMs + TimeoutMs + 1 <= MaxTime
DueIsServed ==
    \A t \in Triggers :
        Calm /\ Exists(t) /\ trig[t].next <= now
            ~> \/ ~Exists(t) \/ trig[t].next > now
               \/ \E u \in Triggers : Exists(u) /\ OutOfReach(u)


\* A stopped engine winds down, if its handlers end: the runs in flight and
\* those a last drain still dispatches end, also the ones that wait for a
\* permit, and no run follows them.  (A run id executed twice at once loses a
\* permit, and who waits for it waits for ever.)
StoppedWindsDown ==
    HandlerFairness /\ []RunsDiffer =>
        \A o \in Owners : eng[o].stopped ~> [](ActiveFibers(o) = {})

----------------------------------------------------------------------------
(* What the documentation says and the code does not do *)

\* README.md: handle.pause() pauses a trigger, until it is resumed.
PauseSticks ==
    [][\A t \in Triggers :
        Exists(t) /\ trig[t].paused
            => trig'[t] = NoTrigger \/ trig'[t].paused
               \/ (edit # Idle /\ edit.op = "resume")]_vars
=============================================================================
