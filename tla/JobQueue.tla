----------------------------- MODULE JobQueue -----------------------------
(***************************************************************************)
(* JobQueue of shareds/async/src/concurrency/job-queue.ts, which ThreadPool *)
(* runs its work through.  Jobs are numbered in the order of add().        *)
(*                                                                         *)
(* A task that throws before its first await settles inside drain(): its   *)
(* finally lowers `active` and calls drain() again, all within the call of *)
(* add() or of the finishing job that started it.  Such a task therefore   *)
(* takes no slot that outlives the step.                                   *)
(***************************************************************************)
EXTENDS Integers, Sequences, FiniteSets, FiniteSetsExt

CONSTANTS
    Concurrency,    \* the constructor's concurrency
    MaxJobs         \* bound: jobs added

ASSUME JobAssumption == Concurrency \in Nat /\ MaxJobs \in Nat

VARIABLES
    pending,    \* JobQueue.q: jobs not started
    active,     \* JobQueue.active
    job,        \* per job: "new", "queued", "running" or "settled"
    throwers    \* the jobs whose task throws before its first await

jobVars == <<pending, active, job, throwers>>

Jobs == 1..MaxJobs

JobInit ==
    /\ pending = <<>>
    /\ active = 0
    /\ job = [j \in Jobs |-> "new"]
    /\ throwers \in SUBSET Jobs

Running(state) == {j \in Jobs : state[j] = "running"}

----------------------------------------------------------------------------
\* How many jobs of p drain() shifts with a jobs active: it goes on as long as
\* the jobs it shifted before that did not settle at once leave a slot.
Started(p, a) ==
    Max({k \in 0..Len(p) :
            k > 0 => a + Cardinality({i \in 1..(k - 1) : p[i] \notin throwers})
                        < Concurrency})

\* Mutant: a task that throws at once keeps its slot.
DrainKeepingSlots(p, a, s) ==
    LET k == Started(p, a)
        shifted == {p[i] : i \in 1..k}
    IN  /\ pending' = SubSeq(p, k + 1, Len(p))
        /\ active' = a + Cardinality(shifted)
        /\ job' = [j \in Jobs |->
                      IF j \notin shifted THEN s[j]
                      ELSE IF j \in throwers THEN "settled" ELSE "running"]
        /\ UNCHANGED throwers

\* drain() on the queue p, with a jobs active and the job states s.
Drain(p, a, s) ==
    LET k == Started(p, a)
        shifted == {p[i] : i \in 1..k}
    IN  /\ pending' = SubSeq(p, k + 1, Len(p))
        /\ active' = a + Cardinality(shifted \ throwers)
        /\ job' = [j \in Jobs |->
                      IF j \notin shifted THEN s[j]
                      ELSE IF j \in throwers THEN "settled" ELSE "running"]
        /\ UNCHANGED throwers

\* Mutant: new jobs go to the front.
AddInFront(j) ==
    /\ job[j] = "new"
    /\ \A i \in 1..(j - 1) : job[i] # "new"
    /\ Drain(<<j>> \o pending, active, [job EXCEPT ![j] = "queued"])

\* add(task): push, then drain.
AddJob(j) ==
    /\ job[j] = "new"
    /\ \A i \in 1..(j - 1) : job[i] # "new"
    /\ Drain(Append(pending, j), active, [job EXCEPT ![j] = "queued"])

\* A running task fulfils or rejects: resolve or reject, then the finally.
FinishJob(j) ==
    /\ job[j] = "running"
    /\ Drain(pending, active - 1, [job EXCEPT ![j] = "settled"])

JobNext == \E j \in Jobs : AddJob(j) \/ FinishJob(j)

JobSpec == JobInit /\ [][JobNext]_jobVars

----------------------------------------------------------------------------
(* Properties *)

\* The counter that admits jobs is the number of running tasks, also when
\* tasks settle while drain() is on the stack; no slot is idle while a job
\* waits, and what waits is exactly what is queued.
NoIdleSlot ==
    /\ active = Cardinality(Running(job))
    /\ pending # <<>> => active = Concurrency
    /\ {pending[i] : i \in DOMAIN pending} = {j \in Jobs : job[j] = "queued"}

\* Jobs start in the order in which they were added.
StartInOrder ==
    \A i, j \in Jobs : i < j /\ job[i] = "queued" => job[j] \in {"new", "queued"}

\* Both: the slots are in use as long as jobs wait, and given out in order,
\* also by the drain() that a task which throws at once runs within another.
SlotsAreFair == NoIdleSlot /\ StartInOrder

============================================================================
