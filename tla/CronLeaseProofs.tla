-------------------------- MODULE CronLeaseProofs --------------------------
(***************************************************************************)
(* Leases exclude, for any engines of one process over an in-memory store. *)
(*                                                                         *)
(* At any time at most one part of the program is busy with a trigger: a   *)
(* drain that lists or handles it, one run of it, or monitors that look at *)
(* its stalled runs.  A poll cannot list a trigger that is busy, since it  *)
(* begins when no continuation is left, and the runs that are left then,   *)
(* which wait or execute, have their triggers leased.  That is the whole   *)
(* of the argument, and each of its premises is needed:                    *)
(*   - Undisturbed: store calls take no time, and no client writes a copy  *)
(*     of the record over a running trigger (handle.pause, handle.resume,  *)
(*     schedule with a used idempotencyKey);                               *)
(*   - LeasesLast: no lease lapses under a run;                            *)
(*   - MonitorSpares: the monitor finds no stalled run of a trigger that   *)
(*     has a run.                                                          *)
(* The last two hold by themselves (TInv) in a configuration that is       *)
(* Unhurried: its runs time out before a lease lapses and before the       *)
(* monitor gives a run up, and no run waits for a permit.  A timeout ends  *)
(* the run, not its handler: what is exclusive are the runs, and their     *)
(* handlers only if they heed the signal (HandlersExclude).                *)
(*                                                                         *)
(* On top of that, without crashes and without plans that give up: a run   *)
(* is started and ended once, and not beside a handler of its own that has *)
(* outlived it (OInv), and a cron trigger's next run is for a later time   *)
(* (DInv).                                                                 *)
(***************************************************************************)
EXTENDS CronSchedulerProofs

Undisturbed == ~Remote /\ Ops \cap {"pause", "resume", "reschedule"} = {}

LeasesLast ==
    \A f \in Fibers :
        fibers[f].pc \in {"waiting", "running"} /\ Exists(fibers[f].t)
            => trig[fibers[f].t].until > now

MonitorSpares ==
    \A f \in Fibers, s \in StalledRuns(StalledAfter) :
        fibers[f].pc \in {"waiting", "running"} => s.id[1] # fibers[f].t

----------------------------------------------------------------------------
(* The inductive invariant *)

\* Who is busy with trigger t.
Lists(d, t) == drains[d].pc # "idle" /\ \E s \in drains[d].due : s.t = t
Handles(d, t) == drains[d].pc \in {"decide", "release"} /\ drains[d].cur.t = t
Runs(f, t) == fibers[f].pc # "idle" /\ fibers[f].t = t
Minds(o, t) ==
    \/ mon[o].pc # "idle" /\ \E s \in mon[o].todo : s.id[1] = t
    \/ mon[o].pc \notin {"idle", "next"} /\ mon[o].run.id[1] = t

Drained(t) == \E d \in Drains : Lists(d, t) \/ Handles(d, t)

\* A drain has a trigger once.
Tidy(d, t) ==
    Lists(d, t) =>
        /\ ~Handles(d, t)
        /\ \A x, y \in drains[d].due : x.t = t /\ y.t = t => x = y

Single(t) ==
    /\ \A d \in Drains : Tidy(d, t)
    /\ \A d, e \in Drains :
          (Lists(d, t) \/ Handles(d, t)) /\ (Lists(e, t) \/ Handles(e, t)) => d = e
    /\ \A f, g \in Fibers : Runs(f, t) /\ Runs(g, t) => f = g
    /\ \A f \in Fibers : Runs(f, t) => ~Drained(t)
    /\ \A o \in Owners : Minds(o, t) => ~Drained(t) /\ \A f \in Fibers : ~Runs(f, t)

\* Nobody is busy with a trigger that has not been scheduled yet.
Known(t) ==
    ids[t] = 0 =>
        /\ ~Exists(t) /\ ~Drained(t)
        /\ \A f \in Fibers : ~Runs(f, t)
        /\ \A o \in Owners : ~Minds(o, t)
        /\ \A n \in 1..MaxRuns : runs[<<t, n>>] = NoRun

\* Engine o has claimed the record that snap was taken of; only a cancel takes
\* it away.
Owns(o, t, snap) ==
    /\ Exists(t) => trig[t].rid = snap.rid /\ trig[t].owner = o
    /\ "cancel" \notin Ops => Exists(t)

Leasing(t) == LeaseMs > 0 /\ Exists(t) => trig[t].until > now

Live(f) == fibers[f].pc \notin {"idle", "release"}

\* What is listed is the record; what is decided on or runs is leased.
ListsRecords(d) ==
    drains[d].pc # "idle" =>
        \A s \in drains[d].due : Exists(s.t) => trig[s.t] = s.snap

DecidesOwn(d) ==
    drains[d].pc = "decide" =>
        /\ Owns(drains[d].o, drains[d].cur.t, drains[d].cur.snap)
        /\ Leasing(drains[d].cur.t)

RunsOwn(f) ==
    Live(f) =>
        /\ Owns(fibers[f].o, fibers[f].t, fibers[f].snap)
        /\ fibers[f].pc \notin {"waiting", "running"} => Leasing(fibers[f].t)

EditsCancel == edit # Idle => edit.op = "cancel" /\ "cancel" \in Ops

LInv ==
    /\ \A t \in Triggers : Single(t) /\ Known(t)
    /\ \A d \in Drains : ListsRecords(d) /\ DecidesOwn(d)
    /\ \A f \in Fibers : RunsOwn(f)
    /\ EditsCancel

----------------------------------------------------------------------------
(* Steps that begin nothing *)

\* A drain goes on with what it has, or is done with it.
DrainGoesOn(d) ==
    drains'[d].pc # "idle" =>
        /\ drains[d].pc # "idle"
        /\ drains'[d].o = drains[d].o
        /\ drains'[d].due \subseteq drains[d].due
        /\ drains'[d].pc = "decide" => drains[d].pc = "decide"
        /\ drains'[d].pc = "release" => drains[d].pc \in {"decide", "release"}
        /\ drains'[d].pc # "claim" => drains'[d].cur = drains[d].cur

\* A run goes on, or is over.
FiberGoesOn(f) ==
    fibers'[f].pc # "idle" =>
        /\ fibers[f].pc # "idle"
        /\ fibers'[f].t = fibers[f].t /\ fibers'[f].o = fibers[f].o
        /\ fibers'[f].snap = fibers[f].snap
        /\ fibers'[f].pc # "release" => fibers[f].pc # "release"

\* Nobody is left who goes by the record of trigger t, or by the run it names.
Unnamed(t) ==
    /\ \A d \in Drains : drains[d].pc = "decide" => drains[d].cur.t # t
    /\ \A f \in Fibers : Live(f) => fibers[f].t # t
Unattended(t) == Unnamed(t) /\ \A d \in Drains : ~Lists(d, t)

\* The record of trigger t stays, is canceled, or is written for nobody.
RecordGoesOn(t) ==
    \/ trig'[t] = trig[t]
    \/ trig'[t] = NoTrigger /\ "cancel" \in Ops
    \/ ids'[t] # 0 /\ Unattended(t)'

\* What the types say of the parties.
LEMMA DrainPcs ==
    ASSUME NEW r \in DrainRecord \cup {Idle}
    PROVE  /\ r.pc \in {"idle", "claim", "decide", "release"}
           /\ r.pc # "idle" => \A s \in r.due : s.t \in Triggers
           /\ r.pc \in {"decide", "release"} => r.cur.t \in Triggers
BY DEF DrainRecord, Snapshot, Idle

\* Who goes on with a trigger, or is done with it, remains the only one.
LEMMA SingleGoesOn ==
    ASSUME IInv', NEW t \in Triggers, Single(t),
           \A d \in Drains : DrainGoesOn(d),
           \A f \in Fibers : FiberGoesOn(f),
           \A o \in Owners : Minds(o, t)' => Minds(o, t)
    PROVE  /\ Single(t)'
           /\ \A d \in Drains : (Lists(d, t)' => Lists(d, t)) /\ (Handles(d, t)' => Handles(d, t))
           /\ \A f \in Fibers : Runs(f, t)' => Runs(f, t)
<1>1. ASSUME NEW d \in Drains
      PROVE  (Lists(d, t)' => Lists(d, t)) /\ (Handles(d, t)' => Handles(d, t))
  <2>1. drains'[d] \in DrainRecord \cup {Idle}
    BY DEF IInv, TypeOK
  <2> QED
    BY <2>1, DrainPcs DEF DrainGoesOn, Lists, Handles
<1>2. ASSUME NEW f \in Fibers
      PROVE  Runs(f, t)' => Runs(f, t)
  BY DEF FiberGoesOn, Runs
<1>3. ASSUME NEW d \in Drains
      PROVE  Tidy(d, t)'
  <2> SUFFICES ASSUME Lists(d, t)'
               PROVE  /\ ~Handles(d, t)'
                      /\ \A x, y \in drains'[d].due : x.t = t /\ y.t = t => x = y
    BY DEF Tidy
  <2>1. Lists(d, t) /\ ~Handles(d, t)
    BY <1>1 DEF Single, Tidy
  <2>2. drains'[d].due \subseteq drains[d].due
    BY DEF Lists, DrainGoesOn
  <2> QED
    BY <1>1, <2>1, <2>2 DEF Single, Tidy
<1>4. Drained(t)' => Drained(t)
  BY <1>1 DEF Drained
<1> QED
  BY <1>1, <1>2, <1>3, <1>4 DEF Single

\* A step in which everybody goes on with what they have keeps the invariant.
LEMMA GoesOn ==
    ASSUME IInv, IInv', LInv, LeasesLast,
           now' = now,
           \A d \in Drains : DrainGoesOn(d),
           \A f \in Fibers : FiberGoesOn(f),
           \A o \in Owners, t \in Triggers : Minds(o, t)' => Minds(o, t),
           \A t \in Triggers : RecordGoesOn(t),
           \A t \in Triggers : ids'[t] = 0 => ids[t] = 0,
           \A t \in Triggers, n \in 1..MaxRuns :
              runs'[<<t, n>>] # NoRun => runs[<<t, n>>] # NoRun \/ ids'[t] # 0,
           EditsCancel'
    PROVE  LInv'
<1>d. \A d \in Drains :
         /\ drains[d].pc # "idle" => \A s \in drains[d].due : s.t \in Triggers
         /\ drains[d].pc = "decide" => drains[d].cur.t \in Triggers
  <2>1. \A d \in Drains : drains[d] \in DrainRecord \cup {Idle}
    BY DEF IInv, TypeOK
  <2> QED
    BY <2>1, DrainPcs
<1>f. \A f \in Fibers : fibers[f].pc # "idle" => fibers[f].t \in Triggers
  BY FiberFields
<1>p. \A d \in Drains : drains'[d].pc \in {"idle", "claim", "decide", "release"}
  <2>1. \A d \in Drains : drains'[d] \in DrainRecord \cup {Idle}
    BY DEF IInv, TypeOK
  <2> QED
    BY <2>1, DrainPcs
<1>1. ASSUME NEW t \in Triggers
      PROVE  Single(t)' /\ Known(t)'
  <2>1. /\ Single(t)'
        /\ \A d \in Drains : (Lists(d, t)' => Lists(d, t)) /\ (Handles(d, t)' => Handles(d, t))
        /\ \A f \in Fibers : Runs(f, t)' => Runs(f, t)
    BY SingleGoesOn DEF LInv
  <2>2. ASSUME ids'[t] = 0
        PROVE  /\ ~Exists(t)' /\ ~Drained(t)'
               /\ \A f \in Fibers : ~Runs(f, t)'
               /\ \A o \in Owners : ~Minds(o, t)'
               /\ \A n \in 1..MaxRuns : runs'[<<t, n>>] = NoRun
    <3>1. /\ ~Exists(t) /\ ~Drained(t)
          /\ \A f \in Fibers : ~Runs(f, t)
          /\ \A o \in Owners : ~Minds(o, t)
          /\ \A n \in 1..MaxRuns : runs[<<t, n>>] = NoRun
      BY <2>2 DEF LInv, Known
    <3>2. ~Exists(t)'
      BY <2>2, <3>1 DEF RecordGoesOn, Exists
    <3>3. ~Drained(t)'
      BY <2>1, <3>1 DEF Drained
    <3> QED
      BY <2>1, <2>2, <3>1, <3>2, <3>3
  <2> QED
    BY <2>1, <2>2 DEF Known
<1>2. ASSUME NEW d \in Drains
      PROVE  ListsRecords(d)'
  <2> SUFFICES ASSUME drains'[d].pc # "idle", NEW s \in drains'[d].due, Exists(s.t)'
               PROVE  trig'[s.t] = s.snap
    BY DEF ListsRecords
  <2>1. drains[d].pc # "idle" /\ s \in drains[d].due /\ s.t \in Triggers
    BY <1>d DEF DrainGoesOn
  <2>2. Lists(d, s.t)'
    BY DEF Lists
  <2>3. trig'[s.t] = trig[s.t]
    BY <2>1, <2>2 DEF RecordGoesOn, Unattended, Unnamed, Exists
  <2> QED
    BY <2>1, <2>3 DEF LInv, ListsRecords, Exists
<1>3. ASSUME NEW d \in Drains
      PROVE  DecidesOwn(d)'
  <2> DEFINE t == drains[d].cur.t
             snap == drains[d].cur.snap
  <2> SUFFICES ASSUME drains'[d].pc = "decide"
               PROVE  Owns(drains[d].o, t, snap)' /\ Leasing(t)'
    <3>1. drains'[d].pc = "decide" => drains'[d].cur = drains[d].cur /\ drains'[d].o = drains[d].o
      BY DEF DrainGoesOn
    <3> QED
      BY <3>1 DEF DecidesOwn, Owns, Leasing, Exists
  <2>1. /\ drains[d].pc = "decide" /\ t \in Triggers
        /\ drains'[d].o = drains[d].o /\ drains'[d].cur = drains[d].cur
    BY <1>d DEF DrainGoesOn
  <2>2. Owns(drains[d].o, t, snap) /\ Leasing(t)
    BY <2>1 DEF LInv, DecidesOwn
  <2>3. trig'[t] = trig[t] \/ (trig'[t] = NoTrigger /\ "cancel" \in Ops)
    BY <2>1 DEF RecordGoesOn, Unattended, Unnamed
  <2> QED
    BY <2>1, <2>2, <2>3 DEF Owns, Leasing, Exists
<1>4. ASSUME NEW f \in Fibers
      PROVE  RunsOwn(f)'
  <2> DEFINE t == fibers[f].t
             snap == fibers[f].snap
  <2> SUFFICES ASSUME Live(f)'
               PROVE  /\ Owns(fibers[f].o, t, snap)'
                      /\ fibers'[f].pc \notin {"waiting", "running"} => Leasing(t)'
    BY DEF RunsOwn
  <2>1. /\ Live(f) /\ t \in Triggers /\ t' = t /\ snap' = snap
        /\ fibers'[f].o = fibers[f].o
    BY <1>f DEF FiberGoesOn, Live
  <2>2. /\ Owns(fibers[f].o, t, snap)
        /\ fibers[f].pc \notin {"waiting", "running"} => Leasing(t)
    BY <2>1 DEF LInv, RunsOwn
  <2>3. Leasing(t)
    BY <2>2 DEF LeasesLast, Leasing
  <2>4. trig'[t] = trig[t] \/ (trig'[t] = NoTrigger /\ "cancel" \in Ops)
    BY <2>1 DEF RecordGoesOn, Unattended, Unnamed
  <2> QED
    BY <2>1, <2>2, <2>3, <2>4 DEF Owns, Leasing, Exists
<1> QED
  BY <1>1, <1>2, <1>3, <1>4 DEF LInv

----------------------------------------------------------------------------
(* What the steps do to the parties *)

\* The end of a drain's turn.
LEMMA GoGoesOn ==
    ASSUME IInv, NEW d \in Drains, drains[d].pc # "idle",
           NEW due \in SUBSET drains[d].due, Go(d, due)
    PROVE  /\ \A e \in Drains : DrainGoesOn(e)
           /\ drains'[d].pc # "idle" => drains'[d].pc = "claim" /\ drains'[d].due = due
           /\ \A e \in Drains : e # d => drains'[e] = drains[e]
<1> DEFINE c == Claiming(drains[d].o, drains[d].at, due, drains[d].poll)
<1>1. drains' = [drains EXCEPT ![d] = Idle] \/ drains' = [drains EXCEPT ![d] = c]
  BY DEF Go
<1>2. c.pc = "claim" /\ c.due = due /\ c.o = drains[d].o
  BY DEF Claiming
<1>3. drains \in [Drains -> DrainRecord \cup {Idle}]
  BY DEF IInv, TypeOK
<1>4. Idle.pc = "idle"
  BY DEF Idle
<1> HIDE DEF c
<1>5. /\ drains'[d] = Idle \/ drains'[d] = c
      /\ \A e \in Drains : e # d => drains'[e] = drains[e]
  BY <1>1, <1>3
<1> QED
  BY <1>2, <1>4, <1>5 DEF DrainGoesOn

\* Who is left as it was goes on with what it has: the drains,
LEMMA DrainsKept ==
    ASSUME UNCHANGED drains
    PROVE  \A d \in Drains : DrainGoesOn(d)
BY DEF DrainGoesOn

\* the continuations,
LEMMA FibersKept ==
    ASSUME UNCHANGED fibers
    PROVE  \A f \in Fibers : FiberGoesOn(f)
BY DEF FiberGoesOn

\* and the monitors.
LEMMA MonitorsKept ==
    ASSUME UNCHANGED mon
    PROVE  \A o \in Owners, t \in Triggers : Minds(o, t)' => Minds(o, t)
BY DEF Minds

\* A wake-up leaves a run what it is.
LEMMA WokenGoesOn ==
    ASSUME IInv, NEW o \in Owners, NEW id \in RunIds, NEW g \in Fibers,
           fibers'[g] = FibersWoken(o, id)[g]
    PROVE  FiberGoesOn(g)
<1>1. CASE fibers[g].pc # "waiting"
  BY <1>1, FreedEffect DEF FiberGoesOn
<1>2. CASE fibers[g].pc = "waiting"
  <2>1. fibers[g] \in FiberRecord
    BY <1>2, FiberFields
  <2>2. /\ FibersWoken(o, id)[g].t = fibers[g].t
        /\ FibersWoken(o, id)[g].o = fibers[g].o
        /\ FibersWoken(o, id)[g].snap = fibers[g].snap
        /\ FibersWoken(o, id)[g].pc \in {"waiting", "woken"}
    BY <1>2, <2>1 DEF FibersWoken, FiberRecord
  <2> QED
    BY <1>2, <2>2 DEF FiberGoesOn
<1> QED
  BY <1>1, <1>2

\* acquireCapacity leaves a run what it is.
LEMMA AcquireIsRun ==
    ASSUME IInv, NEW f \in Fibers, NEW r \in FiberRecord, r.pc = "acquire",
           Acquire(f, r)
    PROVE  /\ fibers'[f] \in FiberRecord
           /\ fibers'[f].t = r.t /\ fibers'[f].o = r.o /\ fibers'[f].snap = r.snap
           /\ fibers'[f].pc \in {"acquire", "waiting"}
           /\ fibers'[f].since = r.since
           /\ \A g \in Fibers : g # f => fibers'[g] = fibers[g]
<1>1. fibers \in [Fibers -> FiberRecord \cup {Idle}]
  BY DEF IInv, TypeOK
<1> DEFINE h == r.held \cup {NextPermit(r)}
<1>2. h \in SUBSET Keys
  BY KeyTypes DEF FiberRecord
<1>3. /\ fibers' \in {[fibers EXCEPT ![f] = r], [fibers EXCEPT ![f] = [r EXCEPT !.held = h]],
                      [fibers EXCEPT ![f] = [r EXCEPT !.pc = "waiting"]]}
  BY DEF Acquire
<1> HIDE DEF h
<1>4. /\ fibers'[f] \in {r, [r EXCEPT !.held = h], [r EXCEPT !.pc = "waiting"]}
      /\ \A g \in Fibers : g # f => fibers'[g] = fibers[g]
  BY <1>1, <1>3
<1>5. \A x \in {r, [r EXCEPT !.held = h], [r EXCEPT !.pc = "waiting"]} :
         /\ x \in FiberRecord
         /\ x.t = r.t /\ x.o = r.o /\ x.snap = r.snap /\ x.since = r.since
         /\ x.pc \in {"acquire", "waiting"}
  BY <1>2 DEF FiberRecord
<1> QED
  BY <1>4, <1>5

----------------------------------------------------------------------------
(* Runs *)

\* A step of a run that goes on changes neither the record nor its lease.
LEMMA RunGoesOn ==
    ASSUME IInv, IInv', LInv, LeasesLast, NEW f \in Fibers,
           \/ AcquireMore(f) \/ Resume(f) \/ StartRun(f)
           \/ \E ok \in BOOLEAN : Settled(f, ok)
    PROVE  LInv'
<1>1. UNCHANGED <<now, trig, ids, drains, mon, edit>>
  BY DEF AcquireMore, Resume, StartRun, Settled, storeVars
<1>2. /\ fibers[f].pc # "idle" /\ fibers[f] \in FiberRecord
      /\ fibers \in [Fibers -> FiberRecord \cup {Idle}]
      /\ RunId(f) \in RunIds /\ RunId(f)[1] = fibers[f].t /\ fibers[f].t \in Triggers
  BY FiberFields DEF AcquireMore, Resume, StartRun, Settled, Running, IInv, TypeOK
<1>3. \A g \in Fibers : FiberGoesOn(g)
  <2>1. CASE AcquireMore(f)
    BY <2>1, <1>2, AcquireIsRun DEF AcquireMore, FiberGoesOn
  <2>2. CASE Resume(f)
    <3> DEFINE h == fibers[f].held \cup {NextPermit(fibers[f])}
               r == [fibers[f] EXCEPT !.pc = "acquire", !.held = h]
    <3>1. fibers' = [fibers EXCEPT ![f] = r] /\ fibers[f].pc = "woken"
      BY <2>2, <1>2 DEF Resume
    <3>2. r.t = fibers[f].t /\ r.o = fibers[f].o /\ r.snap = fibers[f].snap
      BY <1>2 DEF FiberRecord
    <3> HIDE DEF r
    <3> QED
      BY <1>2, <3>1, <3>2 DEF FiberGoesOn
  <2>3. CASE StartRun(f)
    <3>1. PICK n : fibers' = [fibers EXCEPT ![f] = [fibers[f] EXCEPT !.pc = "running", !.since = n]]
      BY <2>3, <1>2 DEF StartRun
    <3> DEFINE r == [fibers[f] EXCEPT !.pc = "running", !.since = n]
    <3>2. r.t = fibers[f].t /\ r.o = fibers[f].o /\ r.snap = fibers[f].snap
          /\ fibers[f].pc = "acquire"
      BY <2>3, <1>2 DEF FiberRecord, StartRun
    <3> HIDE DEF r
    <3> QED
      BY <1>2, <3>1, <3>2 DEF FiberGoesOn, r
  <2>4. ASSUME NEW ok \in BOOLEAN, Settled(f, ok) PROVE \A g \in Fibers : FiberGoesOn(g)
    <3> DEFINE r == [fibers[f] EXCEPT !.pc = "ended", !.since = 0, !.ok = ok]
    <3>1. fibers' = [fibers EXCEPT ![f] = r] /\ fibers[f].pc = "running"
      BY <2>4, <1>2 DEF Settled, Running
    <3>2. r.t = fibers[f].t /\ r.o = fibers[f].o /\ r.snap = fibers[f].snap
      BY <1>2 DEF FiberRecord
    <3> HIDE DEF r
    <3> QED
      BY <1>2, <3>1, <3>2 DEF FiberGoesOn
  <2> QED
    BY <2>1, <2>2, <2>3, <2>4
<1>4. ids[fibers[f].t] # 0
  BY <1>2 DEF LInv, Known, Runs
<1>5. \A t \in Triggers, n \in 1..MaxRuns :
         runs'[<<t, n>>] # NoRun => runs[<<t, n>>] # NoRun \/ ids'[t] # 0
  <2> SUFFICES ASSUME NEW t \in Triggers, NEW n \in 1..MaxRuns, runs'[<<t, n>>] # NoRun,
                      runs[<<t, n>>] = NoRun
               PROVE  ids'[t] # 0
    OBVIOUS
  <2>r. runs \in [RunIds -> RunRecord \cup {NoRun}] /\ <<t, n>> \in RunIds
    BY DEF IInv, TypeOK, StoreTypeOK, RunIds
  <2>1. runs' = runs \/ \E x : runs' = [runs EXCEPT ![RunId(f)] = x]
    <3>1. CASE AcquireMore(f) \/ Resume(f)
      BY <3>1 DEF AcquireMore, Resume, storeVars
    <3>2. CASE StartRun(f) \/ \E ok \in BOOLEAN : Settled(f, ok)
      BY <3>2 DEF StartRun, Settled, RecordRunStart, RecordRunEnd
    <3> QED
      BY <3>1, <3>2
  <2>2. <<t, n>> = RunId(f)
    BY <2>1, <2>r
  <2>3. t = fibers[f].t
    BY <1>2, <2>2
  <2> QED
    BY <1>1, <1>4, <2>3
<1>6. EditsCancel'
  BY <1>1 DEF LInv, EditsCancel
<1>7. /\ \A t \in Triggers : RecordGoesOn(t)
      /\ \A t \in Triggers : ids'[t] = 0 => ids[t] = 0
      /\ \A d \in Drains : DrainGoesOn(d)
      /\ \A o \in Owners, t \in Triggers : Minds(o, t)' => Minds(o, t)
  BY <1>1, DrainsKept, MonitorsKept DEF RecordGoesOn
<1>8. now' = now
  BY <1>1
<1> QED
  BY <1>3, <1>5, <1>6, <1>7, <1>8, GoesOn

\* A handler's touch() moves a heartbeat, and nothing else.
LEMMA TouchEffects ==
    ASSUME IInv, NEW id, Touch(id)
    PROVE  /\ UNCHANGED <<now, trig, jobs, ids, eng, sem, drains, fibers, mon, edit, strays>>
           /\ \A i \in RunIds :
                /\ runs'[i] = NoRun <=> runs[i] = NoRun
                /\ runs[i] # NoRun =>
                      /\ runs'[i].status = runs[i].status
                      /\ runs'[i].beat \in {runs[i].beat, now}
<1>1. runs \in [RunIds -> RunRecord \cup {NoRun}]
  BY DEF IInv, TypeOK, StoreTypeOK
<1>2. CASE runs' = runs
  BY <1>2 DEF Touch
<1>3. CASE runs[id] # NoRun /\ runs' = [runs EXCEPT ![id].beat = now] /\ id \in RunIds
  <2> DEFINE x == [runs[id] EXCEPT !.beat = now]
  <2>1. runs' = [runs EXCEPT ![id] = x]
    BY <1>1, <1>3
  <2>2. runs[id] \in RunRecord
    BY <1>1, <1>3
  <2>3. x.status = runs[id].status /\ x.beat = now /\ x # NoRun
    BY <2>2 DEF RunRecord, NoRun
  <2> HIDE DEF x
  <2>4. runs'[id] = x /\ \A i \in RunIds : i # id => runs'[i] = runs[i]
    BY <1>1, <1>3, <2>1
  <2> QED
    BY <1>3, <2>3, <2>4 DEF Touch
<1>4. CASE runs' = [runs EXCEPT ![id].beat = now] /\ id \notin RunIds
  <2>1. \A i \in RunIds : runs'[i] = runs[i]
    BY <1>1, <1>4
  <2> QED
    BY <2>1 DEF Touch
<1> QED
  BY <1>2, <1>3, <1>4 DEF Touch, TouchRun

\* A handler's touch() starts no run and ends none.
LEMMA TouchKeeps ==
    ASSUME IInv, IInv', LInv, LeasesLast, NEW id, Touch(id)
    PROVE  LInv'
<1>1. UNCHANGED <<now, trig, ids, drains, fibers, mon, edit>>
  BY TouchEffects
<1>2. \A i \in RunIds : runs'[i] # NoRun => runs[i] # NoRun
  BY TouchEffects
<1>3. \A t \in Triggers, n \in 1..MaxRuns :
         runs'[<<t, n>>] # NoRun => runs[<<t, n>>] # NoRun \/ ids'[t] # 0
  BY <1>2 DEF RunIds
<1>4. (\A t \in Triggers : RecordGoesOn(t)) /\ EditsCancel'
  BY <1>1 DEF RecordGoesOn, LInv, EditsCancel
<1> QED
  BY <1>1, <1>3, <1>4, DrainsKept, FibersKept, MonitorsKept, GoesOn

\* A run that is over leaves its trigger to nobody.
LEMMA RunLeavesAlone ==
    ASSUME LInv, NEW f \in Fibers, NEW u \in Triggers, Runs(f, u), ~Live(f)',
           \A g \in Fibers : FiberGoesOn(g), UNCHANGED drains
    PROVE  Unattended(u)'
<1>1. ~Drained(u) /\ \A g \in Fibers : Runs(g, u) => g = f
  BY DEF LInv, Single
<1>2. \A d \in Drains : ~Lists(d, u)' /\ (drains'[d].pc = "decide" => drains'[d].cur.t # u)
  BY <1>1 DEF Drained, Lists, Handles
<1>3. \A g \in Fibers : Live(g)' => fibers'[g].t # u
  BY <1>1 DEF FiberGoesOn, Live, Runs
<1> QED
  BY <1>2, <1>3 DEF Unattended, Unnamed

\* What a run that is over did with its trigger's record was for nobody else.
LEMMA RunLeaves ==
    ASSUME IInv, IInv', LInv, LeasesLast, NEW f \in Fibers, NEW u \in Triggers,
           fibers[f].pc # "idle", fibers[f].t = u, ~Live(f)',
           \A g \in Fibers : FiberGoesOn(g),
           UNCHANGED <<now, runs, drains, mon, edit>>,
           \A t \in Triggers : t # u => trig'[t] = trig[t] /\ ids'[t] = ids[t],
           ids'[u] \in {ids[u], ids[u] + 1}
    PROVE  LInv'
<1>1. Runs(f, u) /\ ids[u] # 0 /\ ids[u] \in Nat
  BY DEF LInv, Known, Runs, IInv, TypeOK
<1>2. ids'[u] # 0
  BY <1>1
<1>4. Unattended(u)'
  BY <1>1, RunLeavesAlone
<1>5. \A t \in Triggers : RecordGoesOn(t)
  BY <1>2, <1>4 DEF RecordGoesOn
<1>6. EditsCancel'
  BY DEF LInv, EditsCancel
<1>7. \A t \in Triggers : ids'[t] = 0 => ids[t] = 0
  BY <1>2
<1> QED
  BY <1>5, <1>6, <1>7, DrainsKept, MonitorsKept, GoesOn

\* What a step writes of one trigger leaves the others alone.
LEMMA WritesOne ==
    ASSUME IInv, NEW u \in Triggers, NEW o,
           \/ ReleaseTrigger(u, o) /\ UNCHANGED ids
           \/ DeleteTrigger(u) /\ UNCHANGED ids
           \/ \E r : GenerateRunId(u) /\ UpsertTrigger(u, r)
    PROVE  /\ \A t \in Triggers : t # u => trig'[t] = trig[t] /\ ids'[t] = ids[t]
           /\ ids'[u] \in {ids[u], ids[u] + 1}
<1>1. /\ ids \in [Triggers -> 0..MaxRuns]
      /\ trig \in [Triggers -> TriggerRecord \cup {NoTrigger}]
  BY DEF IInv, TypeOK, StoreTypeOK
<1>2. trig' = trig \/ \E r : trig' = [trig EXCEPT ![u] = r]
  BY DEF ReleaseTrigger, DeleteTrigger, UpsertTrigger
<1>3. ids' = ids \/ ids' = [ids EXCEPT ![u] = ids[u] + 1]
  BY DEF GenerateRunId, NewId
<1> QED
  BY <1>1, <1>2, <1>3

\* The write that ends a run, as WritesOne takes it.
LEMMA SettleWrites ==
    ASSUME NEW t, NEW r, NEW retry, NEW n, Settle(t, r, retry, n)
    PROVE  \/ DeleteTrigger(t) /\ UNCHANGED ids
           \/ \E x : GenerateRunId(t) /\ UpsertTrigger(t, x)
BY DEF Settle

\* The end of a run's step: the run is over, those it woke go on.
LEMMA RunEndsWork ==
    ASSUME IInv, NEW f \in Fibers,
           WrapHandled(f) \/ Wrap(f) \/ WrapGivesUp(f) \/ ReleaseLease(f)
    PROVE  /\ ~Live(f)'
           /\ \A g \in Fibers : FiberGoesOn(g)
<1>a. /\ fibers[f].pc \in {"ended", "release"} /\ fibers[f] \in FiberRecord
      /\ fibers[f].o \in Owners /\ RunId(f) \in RunIds
      /\ fibers \in [Fibers -> FiberRecord \cup {Idle}]
  BY FiberFields DEF WrapHandled, Wrap, WrapGivesUp, ReleaseLease, IInv, TypeOK
<1>1. CASE WrapHandled(f) \/ Wrap(f) \/ WrapGivesUp(f)
  <2> DEFINE W == FibersWoken(fibers[f].o, RunId(f))
  <2>1. W[f] = fibers[f] /\ W \in [Fibers -> FiberRecord \cup {Idle}]
    <3>1. fibers[f].pc = "ended"
      BY <1>1 DEF WrapHandled, Wrap, WrapGivesUp
    <3> QED
      BY <1>a, <3>1, FreedEffect
  <2>2. fibers' = [W EXCEPT ![f] = Idle] \/ fibers' = [W EXCEPT ![f].pc = "release"]
    BY <1>1 DEF WrapHandled, Wrap, WrapGivesUp
  <2>3. \A g \in Fibers : g # f => FiberGoesOn(g)
    <3>1. \A g \in Fibers : g # f => fibers'[g] = W[g]
      BY <2>1, <2>2
    <3> QED
      BY <1>a, <3>1, WokenGoesOn
  <2>4. fibers'[f] = Idle \/ fibers'[f] = [fibers[f] EXCEPT !.pc = "release"]
    BY <2>1, <2>2
  <2>5. fibers'[f].pc = "idle" \/ fibers'[f].pc = "release"
    BY <1>a, <2>4 DEF Idle, FiberRecord
  <2>6. FiberGoesOn(f)
    <3> DEFINE r == [fibers[f] EXCEPT !.pc = "release"]
    <3>1. r.t = fibers[f].t /\ r.o = fibers[f].o /\ r.snap = fibers[f].snap
          /\ r.pc = "release"
      BY <1>a DEF FiberRecord
    <3>2. fibers'[f] = Idle \/ fibers'[f] = r
      BY <2>4
    <3> HIDE DEF r
    <3> QED
      BY <1>a, <3>1, <3>2 DEF FiberGoesOn, Idle
  <2> QED
    BY <2>3, <2>5, <2>6 DEF Live
<1>2. CASE ReleaseLease(f)
  <2>1. fibers'[f] = Idle /\ \A g \in Fibers : g # f => fibers'[g] = fibers[g]
    BY <1>a, <1>2 DEF ReleaseLease
  <2> QED
    BY <2>1 DEF FiberGoesOn, Live, Idle
<1> QED
  BY <1>1, <1>2

\* The step that ends a run, and what its engine does behind it.
LEMMA RunEnds ==
    ASSUME IInv, IInv', LInv, LeasesLast, NEW f \in Fibers,
           WrapHandled(f) \/ Wrap(f) \/ WrapGivesUp(f) \/ ReleaseLease(f)
    PROVE  LInv'
<1> DEFINE u == fibers[f].t
<1>1. /\ fibers[f].pc \in {"ended", "release"} /\ fibers[f] \in FiberRecord
      /\ u \in Triggers /\ fibers[f].o \in Owners /\ RunId(f) \in RunIds
      /\ fibers \in [Fibers -> FiberRecord \cup {Idle}]
  BY FiberFields DEF WrapHandled, Wrap, WrapGivesUp, ReleaseLease, IInv, TypeOK
<1>2. UNCHANGED <<now, runs, drains, mon, edit>>
  BY DEF WrapHandled, Wrap, WrapGivesUp, ReleaseLease, storeVars
<1>3. /\ \A t \in Triggers : t # u => trig'[t] = trig[t] /\ ids'[t] = ids[t]
      /\ ids'[u] \in {ids[u], ids[u] + 1}
  <2>1. CASE WrapHandled(f) \/ ReleaseLease(f)
    BY <1>1, <2>1, WritesOne DEF WrapHandled, ReleaseLease
  <2>2. CASE Wrap(f)
    <3>1. \/ DeleteTrigger(u) /\ UNCHANGED ids
          \/ \E x : GenerateRunId(u) /\ UpsertTrigger(u, x)
      BY <2>2, SettleWrites DEF Wrap
    <3> QED
      BY <1>1, <3>1, WritesOne
  <2>3. CASE WrapGivesUp(f)
    BY <1>1, <2>3 DEF WrapGivesUp, storeVars
  <2> QED
    BY <2>1, <2>2, <2>3
<1>4. ~Live(f)' /\ \A g \in Fibers : FiberGoesOn(g)
  BY RunEndsWork
<1>5. fibers[f].pc # "idle"
  BY <1>1
<1> HIDE DEF u
<1> QED
  BY <1>1, <1>2, <1>3, <1>4, <1>5, RunLeaves DEF u

----------------------------------------------------------------------------
(* Drains *)

\* A drain that is done with its trigger leaves it to nobody.
LEMMA DrainLeavesAlone ==
    ASSUME LInv, NEW d \in Drains, NEW u \in Triggers, Handles(d, u),
           drains'[d].pc # "decide", \A e \in Drains : DrainGoesOn(e), UNCHANGED fibers
    PROVE  Unattended(u)'
<1>1. /\ \A e \in Drains : Lists(e, u) \/ Handles(e, u) => e = d
      /\ ~Lists(d, u)
      /\ \A f \in Fibers : ~Runs(f, u)
  BY DEF LInv, Single, Tidy, Drained
<1>2. \A e \in Drains : ~Lists(e, u)'
  BY <1>1 DEF DrainGoesOn, Lists
<1>3. \A e \in Drains : drains'[e].pc = "decide" => drains'[e].cur.t # u
  BY <1>1 DEF DrainGoesOn, Handles
<1>4. \A f \in Fibers : Live(f)' => fibers'[f].t # u
  BY <1>1 DEF Live, Runs
<1> QED
  BY <1>2, <1>3, <1>4 DEF Unattended, Unnamed

\* A drain that is done with its trigger wrote the record for nobody else.
LEMMA DrainLeaves ==
    ASSUME IInv, IInv', LInv, LeasesLast, NEW d \in Drains, NEW u \in Triggers,
           Handles(d, u), drains'[d].pc # "decide",
           \A e \in Drains : DrainGoesOn(e),
           UNCHANGED <<now, runs, fibers, mon, edit>>,
           \A t \in Triggers : t # u => trig'[t] = trig[t] /\ ids'[t] = ids[t],
           ids'[u] \in {ids[u], ids[u] + 1}
    PROVE  LInv'
<1>1. Drained(u) /\ ids[u] # 0 /\ ids[u] \in Nat
  BY DEF LInv, Known, Drained, IInv, TypeOK
<1>2. ids'[u] # 0
  BY <1>1
<1>4. Unattended(u)'
  BY DrainLeavesAlone
<1>5. \A t \in Triggers : RecordGoesOn(t)
  BY <1>2, <1>4 DEF RecordGoesOn
<1>6. EditsCancel'
  BY DEF LInv, EditsCancel
<1>7. \A t \in Triggers : ids'[t] = 0 => ids[t] = 0
  BY <1>2
<1> QED
  BY <1>5, <1>6, <1>7, FibersKept, MonitorsKept, GoesOn

\* The end of a drain's turn without a run.
LEMMA DrainGivesBackWork ==
    ASSUME IInv, NEW d \in Drains,
           DrainJobMissing(d) \/ DrainSkip(d) \/ DrainGivesUp(d) \/ DrainRelease(d)
    PROVE  (\A e \in Drains : DrainGoesOn(e)) /\ drains'[d].pc # "decide"
<1>a. /\ drains[d].pc \in {"decide", "release"} /\ drains[d] \in DrainRecord
      /\ drains \in [Drains -> DrainRecord \cup {Idle}]
  BY DrainFields DEF DrainJobMissing, DrainSkip, DrainGivesUp, DrainRelease, Deciding,
                     IInv, TypeOK
<1>1. CASE DrainJobMissing(d) \/ DrainRelease(d)
  <2>1. Go(d, drains[d].due)
    BY <1>1 DEF DrainJobMissing, DrainRelease
  <2> QED
    BY <1>a, <2>1, GoGoesOn
<1>2. CASE DrainSkip(d)
  <2> DEFINE r == [drains[d] EXCEPT !.pc = "release"]
  <2>1. /\ r.pc = "release" /\ r.o = drains[d].o /\ r.due = drains[d].due
        /\ r.cur = drains[d].cur
    BY <1>a DEF DrainRecord
  <2>2. drains' = [drains EXCEPT ![d] = r]
    BY <1>2 DEF DrainSkip
  <2> HIDE DEF r
  <2>3. drains'[d] = r /\ \A e \in Drains : e # d => drains'[e] = drains[e]
    BY <1>a, <2>2
  <2> QED
    BY <1>a, <2>1, <2>3 DEF DrainGoesOn
<1>3. CASE DrainGivesUp(d)
  <2>1. drains'[d] = Idle /\ \A e \in Drains : e # d => drains'[e] = drains[e]
    BY <1>a, <1>3 DEF DrainGivesUp
  <2> QED
    BY <2>1 DEF DrainGoesOn, Idle
<1> QED
  BY <1>1, <1>2, <1>3

\* The job is gone, or the occurrence is skipped, or the release after that.
LEMMA DrainGivesBack ==
    ASSUME IInv, IInv', LInv, LeasesLast, NEW d \in Drains,
           DrainJobMissing(d) \/ DrainSkip(d) \/ DrainGivesUp(d) \/ DrainRelease(d)
    PROVE  LInv'
<1> DEFINE u == drains[d].cur.t
<1>1. /\ drains[d].pc \in {"decide", "release"} /\ u \in Triggers
      /\ Handles(d, u) /\ drains[d] \in DrainRecord
      /\ drains \in [Drains -> DrainRecord \cup {Idle}]
  BY DrainFields DEF DrainJobMissing, DrainSkip, DrainGivesUp, DrainRelease, Deciding, Handles,
                     IInv, TypeOK
<1>2. /\ \A t \in Triggers : t # u => trig'[t] = trig[t] /\ ids'[t] = ids[t]
      /\ ids'[u] \in {ids[u], ids[u] + 1}
  <2>1. CASE DrainGivesUp(d)
    BY <1>1, <2>1 DEF DrainGivesUp, storeVars
  <2>2. CASE DrainJobMissing(d) \/ DrainSkip(d) \/ DrainRelease(d)
    BY <1>1, <2>2, WritesOne DEF DrainJobMissing, DrainSkip, DrainRelease
  <2> QED
    BY <2>1, <2>2
<1>3. (\A e \in Drains : DrainGoesOn(e)) /\ drains'[d].pc # "decide"
  BY DrainGivesBackWork
<1>4. UNCHANGED <<now, runs, fibers, mon, edit>>
  BY DEF DrainJobMissing, DrainSkip, DrainGivesUp, DrainRelease, storeVars
<1> HIDE DEF u
<1> QED
  BY <1>1, <1>2, <1>3, <1>4, DrainLeaves

\* The next trigger cannot be claimed, or the loop stops.
LEMMA DrainPassesOver ==
    ASSUME IInv, IInv', LInv, LeasesLast, NEW d \in Drains,
           UNCHANGED <<now, trig, ids, runs, fibers, mon, edit>>,
           drains[d].pc # "idle",
           NEW due \in SUBSET drains[d].due, Go(d, due)
    PROVE  LInv'
<1>1. \A t \in Triggers : RecordGoesOn(t)
  BY DEF RecordGoesOn
<1>2. EditsCancel'
  BY DEF LInv, EditsCancel
<1>3. \A e \in Drains : DrainGoesOn(e)
  BY GoGoesOn
<1> QED
  BY <1>1, <1>2, <1>3, FibersKept, MonitorsKept, GoesOn

\* Whoever was busy with a trigger goes on, and nobody else begins.
LEMMA SingleKept ==
    ASSUME NEW t \in Triggers, Single(t), Known(t),
           UNCHANGED <<ids, runs>>,
           \A d \in Drains : Tidy(d, t)',
           \A d \in Drains : (Lists(d, t) \/ Handles(d, t))' => Lists(d, t) \/ Handles(d, t),
           \A f \in Fibers : Runs(f, t)' => Runs(f, t),
           \A o \in Owners : Minds(o, t)' => Minds(o, t),
           trig'[t] = trig[t] \/ Exists(t)
    PROVE  Single(t)' /\ Known(t)'
<1>1. Drained(t)' => Drained(t)
  BY DEF Drained
<1>2. Single(t)'
  BY <1>1 DEF Single
<1>3. Known(t)'
  BY <1>1 DEF Known, Exists
<1> QED
  BY <1>2, <1>3

\* A listed trigger is claimed: the drain goes from listing it to deciding.
LEMMA DrainClaims ==
    ASSUME IInv, IInv', LInv, NEW d \in Drains, NEW s \in drains[d].due,
           drains[d].pc = "claim", Claimable(s.t, drains[d].o),
           ClaimTrigger(s.t, drains[d].o, LeaseMs),
           drains' = [drains EXCEPT ![d] =
                [pc |-> "decide", o |-> drains[d].o, at |-> drains[d].at,
                 due |-> drains[d].due \ {s}, poll |-> drains[d].poll, cur |-> s]],
           UNCHANGED <<now, ids, runs, fibers, mon, edit>>
    PROVE  LInv'
<1> DEFINE u == s.t
           r == [pc |-> "decide", o |-> drains[d].o, at |-> drains[d].at,
                 due |-> drains[d].due \ {s}, poll |-> drains[d].poll, cur |-> s]
           w == [trig[u] EXCEPT !.owner = drains[d].o, !.until = now + LeaseMs]
<1>1. /\ drains \in [Drains -> DrainRecord \cup {Idle}]
      /\ trig \in [Triggers -> TriggerRecord \cup {NoTrigger}] /\ now \in Nat
      /\ LeaseMs \in Nat
  BY SchedulerAssumption DEF IInv, TypeOK, StoreTypeOK
<1>2. u \in Triggers
  BY DrainFields DEF Snapshot
<1>3. /\ drains'[d] = r /\ r.pc = "decide" /\ r.o = drains[d].o
      /\ r.due = drains[d].due \ {s} /\ r.cur = s
      /\ \A e \in Drains : e # d => drains'[e] = drains[e]
  BY <1>1
<1>4. Exists(u) /\ trig[u] \in TriggerRecord /\ trig[u] = s.snap
  <2>1. Exists(u) /\ trig[u] # NoTrigger
    BY DEF Claimable, Exists
  <2>2. trig[u] = s.snap
    BY <2>1 DEF LInv, ListsRecords
  <2> QED
    BY <1>1, <1>2, <2>1, <2>2
<1>5. /\ trig'[u] = w
      /\ \A t \in Triggers : t # u => trig'[t] = trig[t]
  BY <1>1, <1>2 DEF ClaimTrigger
<1>6. w.rid = s.snap.rid /\ w.owner = drains[d].o /\ w.until = now + LeaseMs
  BY <1>4 DEF TriggerRecord
<1>7. w # NoTrigger
  BY <1>6, <1>4 DEF NoTrigger, TriggerRecord
<1> HIDE DEF r, w, u
<1>8. /\ Lists(d, u)
      /\ \A e \in Drains : Lists(e, u) \/ Handles(e, u) => e = d
      /\ ~Handles(d, u)
      /\ \A x \in drains[d].due : x.t = u => x = s
      /\ \A f \in Fibers : ~Runs(f, u)
      /\ \A o \in Owners : ~Minds(o, u)
  <2>1. Lists(d, u)
    BY DEF Lists, u
  <2>2. Single(u)
    BY <1>2 DEF LInv
  <2> QED
    BY <2>1, <2>2 DEF Single, Tidy, Drained, u
<1>9. ASSUME NEW t \in Triggers
      PROVE  Single(t)' /\ Known(t)'
  <2>1. \A e \in Drains : e # d =>
            /\ Lists(e, t)' <=> Lists(e, t)
            /\ Handles(e, t)' <=> Handles(e, t)
            /\ Tidy(e, t)'
    BY <1>3, <1>9 DEF Lists, Handles, Tidy, LInv, Single
  <2>2. /\ Handles(d, t)' => t = u
        /\ Lists(d, t)' => Lists(d, t)
        /\ ~Lists(d, u)'
    BY <1>3, <1>8 DEF Handles, Lists, u
  <2>3. Tidy(d, t)'
    BY <1>3, <1>9, <2>2 DEF Tidy, LInv, Single
  <2>4. \A e \in Drains : (Lists(e, t) \/ Handles(e, t))' => Lists(e, t) \/ Handles(e, t)
    BY <1>8, <2>1, <2>2
  <2>5. /\ \A f \in Fibers : Runs(f, t)' => Runs(f, t)
        /\ \A o \in Owners : Minds(o, t)' => Minds(o, t)
    BY DEF Runs, Minds
  <2>6. trig'[t] = trig[t] \/ Exists(t)
    BY <1>4, <1>5
  <2>7. Single(t) /\ Known(t)
    BY DEF LInv
  <2>8. \A e \in Drains : Tidy(e, t)'
    BY <2>1, <2>3
  <2> QED
    BY <2>4, <2>5, <2>6, <2>7, <2>8, SingleKept
<1>10. ASSUME NEW e \in Drains
       PROVE  ListsRecords(e)'
  <2> SUFFICES ASSUME drains'[e].pc # "idle", NEW x \in drains'[e].due, Exists(x.t)'
               PROVE  trig'[x.t] = x.snap
    BY DEF ListsRecords
  <2>1. drains[e].pc # "idle" /\ x \in drains[e].due /\ x.t \in Triggers
    <3>1. drains[e].pc # "idle" /\ x \in drains[e].due
      BY <1>3
    <3> QED
      BY <3>1, DrainFields DEF Snapshot
  <2>2. x.t # u
    <3>1. CASE e = d
      BY <3>1, <1>3, <1>8, <2>1
    <3>2. CASE e # d
      BY <3>2, <1>8, <2>1 DEF Lists
    <3> QED
      BY <3>1, <3>2
  <2>3. trig'[x.t] = trig[x.t]
    BY <1>5, <2>1, <2>2
  <2> QED
    BY <2>1, <2>3 DEF LInv, ListsRecords, Exists
<1>11. ASSUME NEW e \in Drains
       PROVE  DecidesOwn(e)'
  <2>1. CASE e = d
    <3>1. drains'[e].cur.t = u /\ drains'[e].cur.snap = s.snap /\ drains'[e].o = drains[d].o
      BY <2>1, <1>3 DEF u
    <3>2. LeaseMs > 0 => trig'[u].until > now
      BY <1>1, <1>5, <1>6
    <3> QED
      BY <1>5, <1>6, <1>7, <3>1, <3>2 DEF DecidesOwn, Owns, Leasing, Exists
  <2>2. CASE e # d /\ drains[e].pc = "decide"
    <3>1. drains'[e] = drains[e] /\ drains[e].cur.t \in Triggers
      BY <2>2, <1>3, DrainFields
    <3>2. drains[e].cur.t # u
      BY <2>2, <1>8 DEF Handles
    <3>3. trig'[drains[e].cur.t] = trig[drains[e].cur.t]
      BY <1>5, <3>1, <3>2
    <3>4. DecidesOwn(e)
      BY DEF LInv
    <3> QED
      BY <2>2, <3>1, <3>3, <3>4 DEF DecidesOwn, Owns, Leasing, Exists
  <2>3. CASE e # d /\ drains[e].pc # "decide"
    BY <2>3, <1>3 DEF DecidesOwn
  <2> QED
    BY <2>1, <2>2, <2>3
<1>12. ASSUME NEW f \in Fibers
       PROVE  RunsOwn(f)'
  <2> SUFFICES ASSUME Live(f)
               PROVE  RunsOwn(f)'
    BY DEF RunsOwn, Live
  <2>1. fibers[f].t \in Triggers /\ fibers[f].t # u
    BY <1>8, FiberFields DEF Live, Runs
  <2>2. trig'[fibers[f].t] = trig[fibers[f].t] /\ RunsOwn(f)
    BY <1>5, <2>1 DEF LInv
  <2> QED
    BY <2>2 DEF RunsOwn, Live, Owns, Leasing, Exists
<1>13. EditsCancel'
  BY DEF LInv, EditsCancel
<1> QED
  BY <1>9, <1>10, <1>11, <1>12, <1>13 DEF LInv

\* A drain that claims the trigger owns the record and leases it.
LEMMA DrainClaimKeeps ==
    ASSUME IInv, IInv', LInv, LeasesLast, NEW d \in Drains, DrainClaim(d)
    PROVE  LInv'
<1>1. drains[d].pc = "claim" /\ drains[d].pc # "idle"
      /\ UNCHANGED <<now, ids, runs, fibers, mon, edit>>
  BY DEF DrainClaim
<1>2. PICK s \in drains[d].due :
         \/ Go(d, {}) /\ UNCHANGED trig
         \/ /\ Claimable(s.t, drains[d].o)
            /\ ClaimTrigger(s.t, drains[d].o, LeaseMs)
            /\ drains' = [drains EXCEPT ![d] =
                [pc |-> "decide", o |-> drains[d].o, at |-> drains[d].at,
                 due |-> drains[d].due \ {s}, poll |-> drains[d].poll, cur |-> s]]
         \/ Go(d, drains[d].due \ {s}) /\ UNCHANGED trig
  BY DEF DrainClaim
<1>3. CASE Go(d, {}) /\ UNCHANGED trig
  BY <1>1, <1>3, DrainPassesOver
<1>4. CASE Go(d, drains[d].due \ {s}) /\ UNCHANGED trig
  BY <1>1, <1>4, DrainPassesOver
<1> QED
  BY <1>1, <1>2, <1>3, <1>4, DrainClaims

\* The drain's trigger becomes a run's.
LEMMA DrainDispatchKeeps ==
    ASSUME IInv, IInv', LInv, NEW d \in Drains, DrainDispatch(d)
    PROVE  LInv'
<1> DEFINE u == drains[d].cur.t
           r == [pc |-> "acquire", o |-> drains[d].o, t |-> drains[d].cur.t,
                 snap |-> drains[d].cur.snap, sched |-> drains[d].cur.snap.next,
                 held |-> {}, since |-> 0, ok |-> FALSE]
<1>1. /\ drains[d].pc = "decide" /\ drains[d].pc # "idle" /\ u \in Triggers
      /\ Handles(d, u) /\ UNCHANGED <<now, trig, runs, ids, mon, edit>>
      /\ Go(d, drains[d].due)
  BY DrainFields DEF DrainDispatch, Deciding, Handles, storeVars
<1>2. PICK f \in Fibers : fibers[f] = Idle /\ Acquire(f, r)
  BY DEF DrainDispatch
<1>3. /\ r \in FiberRecord /\ r.pc = "acquire"
      /\ r.t = u /\ r.o = drains[d].o /\ r.snap = drains[d].cur.snap
  BY <1>1, DrainFields DEF FiberRecord, TriggerRecord
<1> HIDE DEF r
<1>4. /\ fibers'[f].t = u /\ fibers'[f].o = drains[d].o
      /\ fibers'[f].snap = drains[d].cur.snap
      /\ fibers'[f].pc \in {"acquire", "waiting"}
      /\ \A g \in Fibers : g # f => fibers'[g] = fibers[g]
  BY <1>2, <1>3, AcquireIsRun
<1>5. /\ \A e \in Drains : DrainGoesOn(e)
      /\ drains'[d].pc # "idle" => drains'[d].pc = "claim" /\ drains'[d].due = drains[d].due
      /\ \A e \in Drains : e # d => drains'[e] = drains[e]
  BY <1>1, GoGoesOn
<1> HIDE DEF u
<1>6. /\ \A e \in Drains : Lists(e, u) \/ Handles(e, u) => e = d
      /\ ~Lists(d, u)
      /\ \A g \in Fibers : ~Runs(g, u)
      /\ \A o \in Owners : ~Minds(o, u)
  <2>1. Single(u) /\ Drained(u)
    BY <1>1 DEF LInv, Drained
  <2> QED
    BY <1>1, <2>1 DEF Single, Tidy
<1>7. ASSUME NEW e \in Drains, NEW t \in Triggers
      PROVE  /\ Lists(e, t)' => Lists(e, t)
             /\ Handles(e, t)' => Handles(e, t) /\ e # d
  <2>1. CASE e = d
    BY <1>1, <1>5, <2>1 DEF Lists, Handles
  <2>2. CASE e # d
    BY <1>5, <2>2 DEF Lists, Handles
  <2> QED
    BY <2>1, <2>2
<1>8. ASSUME NEW t \in Triggers, NEW e \in Drains
      PROVE  Tidy(e, t)'
  <2>1. Tidy(e, t)
    BY DEF LInv, Single
  <2> QED
    BY <1>5, <1>7, <2>1 DEF Tidy, Lists
<1>9. ASSUME NEW t \in Triggers
      PROVE  Single(t)' /\ Known(t)'
  <2>1. Single(t) /\ Known(t)
    BY DEF LInv
  <2>2. CASE t # u
    <3>1. \A g \in Fibers : Runs(g, t)' => Runs(g, t)
      BY <1>4, <2>2 DEF Runs
    <3>2. \A o \in Owners : Minds(o, t)' => Minds(o, t)
      BY <1>1 DEF Minds
    <3> QED
      BY <1>1, <1>7, <1>8, <2>1, <3>1, <3>2, SingleKept
  <2>3. CASE t = u
    <3>1. \A e \in Drains : ~Lists(e, t)' /\ ~Handles(e, t)'
      BY <1>6, <1>7, <2>3
    <3>2. \A g \in Fibers : Runs(g, t)' => g = f
      BY <1>4, <1>6, <2>3 DEF Runs
    <3>3. \A o \in Owners : ~Minds(o, t)'
      BY <1>1, <1>6, <2>3 DEF Minds
    <3>4. ids[t] # 0
      BY <1>1, <2>1, <2>3 DEF Known, Drained
    <3>5. ids'[t] # 0
      BY <1>1, <3>4
    <3> QED
      BY <1>8, <3>1, <3>2, <3>3, <3>5 DEF Single, Known, Drained
  <2> QED
    BY <2>2, <2>3
<1>10. ASSUME NEW e \in Drains
       PROVE  ListsRecords(e)' /\ DecidesOwn(e)'
  <2>1. ListsRecords(e) /\ DecidesOwn(e)
    BY DEF LInv
  <2>2. ListsRecords(e)'
    BY <1>1, <1>5, <2>1 DEF ListsRecords, DrainGoesOn, Exists
  <2>3. DecidesOwn(e)'
    BY <1>1, <1>5, <2>1 DEF DecidesOwn, DrainGoesOn, Owns, Leasing, Exists
  <2> QED
    BY <2>2, <2>3
<1>11. ASSUME NEW g \in Fibers
       PROVE  RunsOwn(g)'
  <2>1. CASE g = f
    <3>1. DecidesOwn(d)
      BY DEF LInv
    <3> QED
      BY <1>1, <1>4, <2>1, <3>1 DEF DecidesOwn, RunsOwn, Owns, Leasing, Exists, u
  <2>2. CASE g # f
    <3>1. RunsOwn(g)
      BY DEF LInv
    <3> QED
      BY <1>1, <1>4, <2>2, <3>1 DEF RunsOwn, Owns, Leasing, Exists, Live
  <2> QED
    BY <2>1, <2>2
<1>12. EditsCancel'
  BY <1>1 DEF LInv, EditsCancel
<1> QED
  BY <1>9, <1>10, <1>11, <1>12 DEF LInv

\* A drain begins with triggers nobody is busy with.
LEMMA DrainBegins ==
    ASSUME IInv, IInv', LInv, LeasesLast, NEW d \in Drains, drains[d] = Idle,
           NEW o \in Owners, NEW at, NEW poll, NEW due \in SUBSET Snapshot,
           drains' = [drains EXCEPT ![d] = Claiming(o, at, due, poll)],
           \A x, y \in due : x.t = y.t => x = y,
           \A s \in due :
              /\ ~Drained(s.t)
              /\ \A f \in Fibers : ~Runs(f, s.t)
              /\ \A p \in Owners : ~Minds(p, s.t)
              /\ ids'[s.t] # 0
              /\ Exists(s.t)' => trig'[s.t] = s.snap,
           \A t \in Triggers :
              \/ trig'[t] = trig[t] /\ (ids'[t] = 0 => ids[t] = 0)
              \/ \E s \in due : s.t = t,
           UNCHANGED <<now, runs, fibers, mon, edit>>
    PROVE  LInv'
<1> DEFINE r == Claiming(o, at, due, poll)
<1>1. /\ r.pc = "claim" /\ r.due = due
      /\ drains'[d] = r
      /\ \A e \in Drains : e # d => drains'[e] = drains[e]
      /\ drains[d].pc = "idle"
  BY DEF Claiming, IInv, TypeOK, Idle
<1> HIDE DEF r
<1>t. \A s \in due : s.t \in Triggers
  BY DEF Snapshot
<1>2. ASSUME NEW t \in Triggers
      PROVE  Single(t)' /\ Known(t)'
  <2>1. Single(t) /\ Known(t)
    BY DEF LInv
  <2>2. \A e \in Drains : e # d =>
            (Lists(e, t)' => Lists(e, t)) /\ (Handles(e, t)' => Handles(e, t))
    BY <1>1 DEF Lists, Handles
  <2>3. /\ ~Handles(d, t)'
        /\ Lists(d, t)' => \E s \in due : s.t = t
    BY <1>1 DEF Handles, Lists
  <2>4. ASSUME NEW e \in Drains PROVE Tidy(e, t)'
    <3>1. CASE e = d
      BY <1>1, <2>3, <3>1 DEF Tidy
    <3>2. CASE e # d
      BY <1>1, <2>1, <2>2, <3>2 DEF Tidy, Single
    <3> QED
      BY <3>1, <3>2
  <2>5. (\A f \in Fibers : Runs(f, t)' => Runs(f, t)) /\ \A p \in Owners : Minds(p, t)' => Minds(p, t)
    BY DEF Runs, Minds
  <2>6. CASE \E s \in due : s.t = t
    <3>1. /\ ~Drained(t)
          /\ \A f \in Fibers : ~Runs(f, t)
          /\ \A p \in Owners : ~Minds(p, t)
          /\ ids'[t] # 0
      BY <2>6
    <3>2. \A e \in Drains : Lists(e, t)' \/ Handles(e, t)' => e = d
      BY <2>2, <3>1 DEF Drained
    <3> QED
      BY <2>4, <2>5, <3>1, <3>2 DEF Single, Known
  <2>7. CASE ~\E s \in due : s.t = t
    <3>1. \A e \in Drains : (Lists(e, t) \/ Handles(e, t))' => Lists(e, t) \/ Handles(e, t)
      BY <2>2, <2>3, <2>7
    <3>2. Drained(t)' => Drained(t)
      BY <3>1 DEF Drained
    <3>3. Single(t)'
      BY <2>1, <2>4, <2>5, <3>1, <3>2 DEF Single
    <3>4. trig'[t] = trig[t] /\ (ids'[t] = 0 => ids[t] = 0)
      BY <2>7
    <3>5. Known(t)'
      BY <2>1, <2>5, <3>2, <3>4 DEF Known, Exists
    <3> QED
      BY <3>3, <3>5
  <2> QED
    BY <2>6, <2>7
<1>3. ASSUME NEW e \in Drains
      PROVE  ListsRecords(e)' /\ DecidesOwn(e)'
  <2>1. CASE e = d
    BY <1>1, <2>1 DEF ListsRecords, DecidesOwn
  <2>2. CASE e # d
    <3>1. drains'[e] = drains[e] /\ ListsRecords(e) /\ DecidesOwn(e)
      BY <1>1, <2>2 DEF LInv
    <3>2. ASSUME drains[e].pc # "idle", NEW s \in drains[e].due
          PROVE  trig'[s.t] = trig[s.t]
      <4>1. Lists(e, s.t) /\ s.t \in Triggers
        BY <3>2, DrainFields DEF Lists, Snapshot
      <4> QED
        BY <4>1 DEF Drained
    <3>3. ASSUME drains[e].pc = "decide"
          PROVE  trig'[drains[e].cur.t] = trig[drains[e].cur.t]
      <4>1. Handles(e, drains[e].cur.t) /\ drains[e].cur.t \in Triggers
        BY <3>3, DrainFields DEF Handles
      <4> QED
        BY <4>1 DEF Drained
    <3>4. ListsRecords(e)'
      BY <3>1, <3>2 DEF ListsRecords, Exists
    <3>5. DecidesOwn(e)'
      BY <3>1, <3>3 DEF DecidesOwn, Owns, Leasing, Exists
    <3> QED
      BY <3>4, <3>5
  <2> QED
    BY <2>1, <2>2
<1>4. ASSUME NEW f \in Fibers
      PROVE  RunsOwn(f)'
  <2> SUFFICES ASSUME Live(f)
               PROVE  RunsOwn(f)'
    BY DEF RunsOwn, Live
  <2>1. Runs(f, fibers[f].t) /\ fibers[f].t \in Triggers /\ RunsOwn(f)
    BY FiberFields DEF LInv, Live, Runs
  <2>2. trig'[fibers[f].t] = trig[fibers[f].t]
    BY <2>1
  <2> QED
    BY <2>1, <2>2 DEF RunsOwn, Live, Owns, Leasing, Exists
<1>5. EditsCancel'
  BY DEF LInv, EditsCancel
<1> QED
  BY <1>2, <1>3, <1>4, <1>5 DEF LInv

----------------------------------------------------------------------------
(* Steps that begin a drain or a trigger *)

\* A poll starts when no continuation is left; the runs that are left then
\* have their triggers leased, and a leased trigger is not listed.
LEMMA TickKeeps ==
    ASSUME IInv, IInv', LInv, LeasesLast, Undisturbed, NEW o \in Owners, Tick(o)
    PROVE  LInv'
<1>1. Quiet /\ UNCHANGED <<now, trig, runs, ids, fibers, mon, edit>>
  BY DEF Tick, Undisturbed, TimerMayFire, storeVars
<1>2. CASE UNCHANGED drains
  <2>1. \A t \in Triggers : RecordGoesOn(t)
    BY <1>1 DEF RecordGoesOn
  <2>2. EditsCancel'
    BY <1>1 DEF LInv, EditsCancel
  <2>3. /\ \A d \in Drains : DrainGoesOn(d)
        /\ \A f \in Fibers : FiberGoesOn(f)
        /\ \A p \in Owners, t \in Triggers : Minds(p, t)' => Minds(p, t)
    BY <1>1, <1>2, DrainsKept, FibersKept, MonitorsKept
  <2> QED
    BY <1>1, <2>1, <2>2, <2>3, GoesOn
<1>3. CASE \E d \in Drains :
             /\ drains[d] = Idle
             /\ drains' = [drains EXCEPT ![d] = Claiming(o, now, ListDue(now), TRUE)]
  <2>1. PICK d \in Drains :
             /\ drains[d] = Idle
             /\ drains' = [drains EXCEPT ![d] = Claiming(o, now, ListDue(now), TRUE)]
    BY <1>3
  <2>2. ListDue(now) \in SUBSET Snapshot
    BY ListDueType DEF IInv, TypeOK
  <2>3. \A s \in ListDue(now) : s.t \in Available(now) /\ s.snap = trig[s.t]
                                /\ s = [t |-> s.t, snap |-> trig[s.t]]
    BY DEF ListDue, Snapshots
  <2>4. ASSUME NEW s \in ListDue(now)
        PROVE  /\ ~Drained(s.t)
               /\ \A f \in Fibers : ~Runs(f, s.t)
               /\ \A p \in Owners : ~Minds(p, s.t)
               /\ ids'[s.t] # 0
               /\ Exists(s.t)' => trig'[s.t] = s.snap
    <3> DEFINE u == s.t
    <3>1. u \in Triggers /\ Exists(u) /\ ~Leased(trig[u], now) /\ trig[u] = s.snap
      BY <2>3, <2>4 DEF Available
    <3> HIDE DEF u
    <3>2. ~Drained(u)
      BY <1>1 DEF Quiet, Drained, Lists, Handles, Idle
    <3>3. ASSUME NEW f \in Fibers, Runs(f, u) PROVE FALSE
      <4>1. fibers[f].pc \in {"waiting", "running"} /\ fibers[f].t = u
        BY <1>1, <3>3 DEF Quiet, Runs
      <4>2. trig[u].until > now
        BY <3>1, <4>1 DEF LeasesLast
      <4>3. RunsOwn(f) /\ Live(f)
        BY <4>1 DEF LInv, Live
      <4>4. trig[u].owner = fibers[f].o /\ fibers[f].o \in Owners
        BY <3>1, <4>1, <4>3, FiberFields DEF RunsOwn, Owns
      <4> QED
        BY <3>1, <4>2, <4>4, StoreAssumption DEF Leased
    <3>4. \A p \in Owners : ~Minds(p, u)
      BY <1>1 DEF Quiet, Minds, Idle
    <3>5. ids[u] # 0
      BY <3>1 DEF LInv, Known
    <3> QED
      BY <1>1, <3>1, <3>2, <3>3, <3>4, <3>5 DEF u
  <2>5. \A t \in Triggers : trig'[t] = trig[t] /\ (ids'[t] = 0 => ids[t] = 0)
    BY <1>1
  <2>6. \A x, y \in ListDue(now) : x.t = y.t => x = y
    BY <2>3
  <2> QED
    BY <1>1, <2>1, <2>2, <2>4, <2>5, <2>6, DrainBegins
<1> QED
  BY <1>2, <1>3 DEF Tick

\* executeNow's trigger is new.
LEMMA ExecuteNowKeeps ==
    ASSUME IInv, IInv', LInv, LeasesLast, NEW o \in Owners, NEW t \in Triggers,
           ExecuteNow(o, t)
    PROVE  LInv'
<1> DEFINE m == NextRun(t, now)
           r == NewTrigger(m, NewId(t))
           s == [t |-> t, snap |-> r]
<1>1. PICK d \in Drains :
            /\ drains[d] = Idle
            /\ drains' = [drains EXCEPT ![d] = Claiming(o, now, {s}, FALSE)]
  BY DEF ExecuteNow
<1>2. /\ trig' = [trig EXCEPT ![t] = r] /\ ids' = [ids EXCEPT ![t] = ids[t] + 1]
      /\ ids[t] = 0 /\ UNCHANGED <<now, runs, fibers, mon, edit>>
  BY DEF ExecuteNow, GenerateRunId, NewId, UpsertTrigger
<1>3. /\ trig \in [Triggers -> TriggerRecord \cup {NoTrigger}]
      /\ trig' \in [Triggers -> TriggerRecord \cup {NoTrigger}]
      /\ ids \in [Triggers -> 0..MaxRuns]
  BY DEF IInv, TypeOK, StoreTypeOK
<1>4. m \in Nat
  BY DEF ExecuteNow
<1>n. m \in Nat /\ NewId(t) \in 1..MaxRuns
  BY <1>3, <1>4, NewIdType DEF ExecuteNow
<1> HIDE DEF r, m
<1>5. /\ trig'[t] = r /\ ids'[t] = 1
      /\ \A x \in Triggers : x # t => trig'[x] = trig[x] /\ ids'[x] = ids[x]
  BY <1>2, <1>3
<1>6. r \in TriggerRecord
  BY <1>n, NewTriggerType DEF r
<1>7. {s} \in SUBSET Snapshot /\ s.t = t /\ s.snap = r
  BY <1>6 DEF Snapshot
<1>8. /\ ~Drained(t)
      /\ \A f \in Fibers : ~Runs(f, t)
      /\ \A p \in Owners : ~Minds(p, t)
  BY <1>2 DEF LInv, Known
<1> HIDE DEF s
<1>9. /\ \A x, y \in {s} : x.t = y.t => x = y
      /\ \A x \in {s} :
              /\ ~Drained(x.t)
              /\ \A f \in Fibers : ~Runs(f, x.t)
              /\ \A p \in Owners : ~Minds(p, x.t)
              /\ ids'[x.t] # 0
              /\ Exists(x.t)' => trig'[x.t] = x.snap
  BY <1>5, <1>7, <1>8
<1>10. \A x \in Triggers :
              \/ trig'[x] = trig[x] /\ (ids'[x] = 0 => ids[x] = 0)
              \/ \E y \in {s} : y.t = x
  BY <1>5, <1>7
<1> QED
  BY <1>1, <1>2, <1>7, <1>9, <1>10, DrainBegins

\* schedule's trigger is new.
LEMMA ScheduleKeeps ==
    ASSUME IInv, IInv', LInv, LeasesLast, Undisturbed,
           NEW o \in Owners, NEW t \in Triggers, Schedule(o, t)
    PROVE  LInv'
<1>1. UNCHANGED <<now, runs, drains, fibers, mon, edit>>
  BY DEF Schedule
<1>2. ids[t] = 0
  <2>1. ids[t] = 0 \/ "reschedule" \in Ops
    BY DEF Schedule, Happens
  <2> QED
    BY <2>1 DEF Undisturbed
<1>3. /\ \A x \in Triggers : x # t => trig'[x] = trig[x] /\ ids'[x] = ids[x]
      /\ ids'[t] = 1
  <2>1. \E r : GenerateRunId(t) /\ UpsertTrigger(t, r)
    BY DEF Schedule
  <2>2. \A x \in Triggers : x # t => trig'[x] = trig[x] /\ ids'[x] = ids[x]
    BY <2>1, WritesOne
  <2>3. ids'[t] = 1
    BY <1>2 DEF Schedule, GenerateRunId, NewId, IInv, TypeOK
  <2> QED
    BY <2>2, <2>3
<1>4. Unattended(t)'
  <2>1. ~Drained(t) /\ \A f \in Fibers : ~Runs(f, t)
    BY <1>2 DEF LInv, Known
  <2>2. \A d \in Drains : ~Lists(d, t)' /\ (drains'[d].pc = "decide" => drains'[d].cur.t # t)
    BY <1>1, <2>1 DEF Drained, Lists, Handles
  <2>3. \A f \in Fibers : Live(f)' => fibers'[f].t # t
    BY <1>1, <2>1 DEF Live, Runs
  <2> QED
    BY <2>2, <2>3 DEF Unattended, Unnamed
<1>5. \A x \in Triggers : RecordGoesOn(x)
  BY <1>3, <1>4 DEF RecordGoesOn
<1>6. EditsCancel'
  BY <1>1 DEF LInv, EditsCancel
<1>7. \A x \in Triggers : ids'[x] = 0 => ids[x] = 0
  BY <1>3
<1>8. /\ \A d \in Drains : DrainGoesOn(d)
      /\ \A f \in Fibers : FiberGoesOn(f)
      /\ \A p \in Owners, x \in Triggers : Minds(p, x)' => Minds(p, x)
  BY <1>1, DrainsKept, FibersKept, MonitorsKept
<1> QED
  BY <1>1, <1>5, <1>6, <1>7, <1>8, GoesOn

----------------------------------------------------------------------------
(* The stalled monitor *)

\* A scan starts when no continuation is left, and spares the triggers that
\* have a run.
LEMMA MonScanKeeps ==
    ASSUME IInv, IInv', LInv, MonitorSpares, Undisturbed, NEW o \in Owners, MonScan(o)
    PROVE  LInv'
<1>1. /\ Quiet /\ UNCHANGED <<now, trig, runs, ids, drains, fibers, edit>>
      /\ mon' = [mon EXCEPT ![o] = Monitoring(StalledRuns(StalledAfter))]
  BY DEF MonScan, Undisturbed, TimerMayFire, storeVars
<1>2. /\ mon'[o] = Monitoring(StalledRuns(StalledAfter))
      /\ \A p \in Owners : p # o => mon'[p] = mon[p]
  BY <1>1 DEF IInv, TypeOK
<1>3. ASSUME NEW t \in Triggers, Minds(o, t)'
      PROVE  /\ ~Drained(t) /\ ids[t] # 0
             /\ \A f \in Fibers : ~Runs(f, t)
  <2>1. PICK s \in StalledRuns(StalledAfter) : s.id[1] = t
    BY <1>2, <1>3 DEF Minds, Monitoring, Idle
  <2>2. ~Drained(t)
    BY <1>1 DEF Quiet, Drained, Lists, Handles, Idle
  <2>3. \A f \in Fibers : ~Runs(f, t)
    BY <1>1, <2>1 DEF Quiet, Runs, MonitorSpares
  <2>4. s.id \in RunIds /\ runs[s.id] # NoRun
    BY DEF StalledRuns
  <2>5. PICK n \in 1..MaxRuns : s.id = <<t, n>>
    BY <2>1, <2>4 DEF RunIds
  <2>6. ids[t] # 0
    BY <2>4, <2>5 DEF LInv, Known
  <2> QED
    BY <2>2, <2>3, <2>6
<1>4. ASSUME NEW t \in Triggers
      PROVE  Single(t)' /\ Known(t)'
  <2>1. Single(t) /\ Known(t)
    BY DEF LInv
  <2>2. /\ Drained(t)' <=> Drained(t)
        /\ \A f \in Fibers : Runs(f, t)' <=> Runs(f, t)
        /\ \A d \in Drains : /\ Tidy(d, t)' <=> Tidy(d, t)
                             /\ Lists(d, t)' <=> Lists(d, t)
                             /\ Handles(d, t)' <=> Handles(d, t)
    BY <1>1 DEF Drained, Runs, Tidy, Lists, Handles
  <2>3. \A p \in Owners : Minds(p, t)' =>
            ~Drained(t) /\ ids[t] # 0 /\ \A f \in Fibers : ~Runs(f, t)
    <3>1. ASSUME NEW p \in Owners, p # o, Minds(p, t)'
          PROVE  Minds(p, t)
      BY <1>2, <3>1 DEF Minds
    <3> QED
      BY <1>3, <2>1, <3>1 DEF Single, Known
  <2>4. Single(t)'
    BY <2>1, <2>2, <2>3 DEF Single
  <2>5. Known(t)'
    BY <1>1, <2>1, <2>2, <2>3 DEF Known, Exists
  <2> QED
    BY <2>4, <2>5
<1>5. ASSUME NEW d \in Drains
      PROVE  ListsRecords(d)' /\ DecidesOwn(d)'
  BY <1>1 DEF LInv, ListsRecords, DecidesOwn, Owns, Leasing, Exists
<1>6. ASSUME NEW f \in Fibers
      PROVE  RunsOwn(f)'
  BY <1>1 DEF LInv, RunsOwn, Owns, Leasing, Exists, Live
<1>7. EditsCancel'
  BY <1>1 DEF LInv, EditsCancel
<1> QED
  BY <1>4, <1>5, <1>6, <1>7 DEF LInv

\* What a monitor goes on with.
LEMMA MonGoesOn ==
    ASSUME IInv, NEW o \in Owners, MonStep(o)
    PROVE  \A p \in Owners, t \in Triggers : Minds(p, t)' => Minds(p, t)
<1>m. mon \in [Owners -> MonitorRecord \cup {Idle}]
  BY DEF IInv, TypeOK
<1>1. \A p \in Owners : p # o => mon'[p] = mon[p]
  BY <1>m DEF MonStep, MonGet, MonForget, MonRecordEnd, MonSettle, MonGivesUp,
              MonRelease
<1>2. ASSUME NEW t \in Triggers, Minds(o, t)'
      PROVE  Minds(o, t)
  <2>1. CASE MonGet(o)
    <3>1. PICK run \in mon[o].todo : mon' = [mon EXCEPT ![o] =
            IF run.id \in eng[o].handled THEN Monitoring(@.todo \ {run})
            ELSE [pc |-> "end", todo |-> @.todo \ {run}, run |-> run,
                  snap |-> trig[run.id[1]]]]
      BY <2>1 DEF MonGet
    <3>4. mon'[o] = IF run.id \in eng[o].handled THEN Monitoring(mon[o].todo \ {run})
                    ELSE [pc |-> "end", todo |-> mon[o].todo \ {run}, run |-> run,
                          snap |-> trig[run.id[1]]]
      BY <1>m, <3>1
    <3>2. CASE mon'[o] = Monitoring(mon[o].todo \ {run})
      <4>1. mon[o].pc # "idle"
        BY <2>1 DEF MonGet
      <4>2. mon'[o].pc = "next" => mon'[o].todo = mon[o].todo \ {run}
        BY <3>2 DEF Monitoring, Idle
      <4>3. mon'[o].pc \in {"idle", "next"}
        BY <3>2 DEF Monitoring, Idle
      <4>4. \E s \in mon'[o].todo : s.id[1] = t
        BY <1>2, <4>3 DEF Minds
      <4> QED
        BY <1>2, <4>1, <4>2, <4>3, <4>4 DEF Minds
    <3>3. CASE mon'[o] = [pc |-> "end", todo |-> mon[o].todo \ {run}, run |-> run,
                          snap |-> trig[run.id[1]]]
      <4>1. mon[o].pc # "idle"
        BY <2>1 DEF MonGet
      <4>2. mon'[o].todo = mon[o].todo \ {run} /\ mon'[o].run = run
        BY <3>3
      <4>3. \E s \in mon[o].todo : s.id[1] = t
        BY <1>2, <4>2 DEF Minds
      <4> QED
        BY <4>1, <4>3 DEF Minds
    <3> QED
      BY <3>2, <3>3, <3>4
  <2>2. CASE MonForget(o) \/ MonRelease(o)
    <3>1. mon'[o] = Monitoring(mon[o].todo) /\ mon[o].pc \in {"end", "release"}
      BY <1>m, <2>2 DEF MonForget, MonRelease
    <3> QED
      BY <1>2, <3>1 DEF Minds, Monitoring, Idle
  <2>3. CASE MonRecordEnd(o) \/ MonSettle(o)
    <3>1. /\ mon[o].pc \in {"end", "settle"}
          /\ \E x \in {"settle", "release"} : mon'[o] = [mon[o] EXCEPT !.pc = x]
      BY <1>m, <2>3 DEF MonRecordEnd, MonSettle
    <3>2. mon[o] \in MonitorRecord
      BY <1>m, <3>1 DEF Idle
    <3>3. /\ mon[o].pc \notin {"idle", "next"}
          /\ mon'[o].todo = mon[o].todo /\ mon'[o].run = mon[o].run
      BY <3>1, <3>2 DEF MonitorRecord
    <3> QED
      BY <1>2, <3>3 DEF Minds
  <2>4. CASE MonGivesUp(o)
    <3>1. mon'[o] = Idle
      BY <1>m, <2>4 DEF MonGivesUp
    <3> QED
      BY <1>2, <3>1 DEF Minds, Idle
  <2> QED
    BY <2>1, <2>2, <2>3, <2>4 DEF MonStep
<1> QED
  BY <1>1, <1>2 DEF Minds

\* The wake-ups of a monitor's step.
LEMMA MonStepWakes ==
    ASSUME IInv, NEW o \in Owners, MonStep(o)
    PROVE  \A g \in Fibers : FiberGoesOn(g)
<1>1. CASE MonForget(o) \/ MonSettle(o) \/ MonGivesUp(o)
  <2>1. fibers' = FibersWoken(o, mon[o].run.id) /\ mon[o].run.id \in RunIds
    BY <1>1, MonFields DEF MonForget, MonSettle, MonGivesUp, GiveUpRun
  <2> QED
    BY <2>1, WokenGoesOn
<1>2. CASE MonGet(o) \/ MonRecordEnd(o) \/ MonRelease(o)
  BY <1>2, FibersKept DEF MonGet, MonRecordEnd, MonRelease
<1> QED
  BY <1>1, <1>2 DEF MonStep

\* A monitor is alone with the trigger of the run it looks at.
LEMMA MonIsAlone ==
    ASSUME LInv, NEW o \in Owners, NEW u \in Triggers, Minds(o, u),
           \A g \in Fibers : FiberGoesOn(g), UNCHANGED drains
    PROVE  Unattended(u)'
<1>1. ~Drained(u) /\ \A f \in Fibers : ~Runs(f, u)
  BY DEF LInv, Single
<1>2. \A d \in Drains : ~Lists(d, u)' /\ (drains'[d].pc = "decide" => drains'[d].cur.t # u)
  BY <1>1 DEF Drained, Lists, Handles
<1>3. \A f \in Fibers : Live(f)' => fibers'[f].t # u
  BY <1>1 DEF FiberGoesOn, Live, Runs
<1> QED
  BY <1>2, <1>3 DEF Unattended, Unnamed

\* Nobody else is busy with the trigger of the run a monitor looks at.
LEMMA MonStepKeeps ==
    ASSUME IInv, IInv', LInv, LeasesLast, NEW o \in Owners, MonStep(o)
    PROVE  LInv'
<1> DEFINE u == mon[o].run.id[1]
<1>1. /\ UNCHANGED <<now, drains, edit>>
      /\ \A p \in Owners, t \in Triggers : Minds(p, t)' => Minds(p, t)
  BY MonGoesOn DEF MonStep, MonGet, MonForget, MonRecordEnd, MonSettle, MonGivesUp,
                        MonRelease
<1>2. EditsCancel'
  BY <1>1 DEF LInv, EditsCancel
<1>3. CASE MonGet(o)
  <2>1. UNCHANGED <<trig, runs, ids, fibers>>
    BY <1>3 DEF MonGet, storeVars
  <2>2. \A t \in Triggers : RecordGoesOn(t)
    BY <2>1 DEF RecordGoesOn
  <2> QED
    BY <1>1, <1>2, <2>1, <2>2, DrainsKept, FibersKept, GoesOn
<1>4. CASE MonForget(o) \/ MonRecordEnd(o) \/ MonSettle(o) \/ MonGivesUp(o) \/ MonRelease(o)
  <2>1. /\ mon[o].pc \in {"end", "settle", "release"}
        /\ mon[o].run.id \in RunIds /\ u \in Triggers
    BY <1>4, MonFields DEF MonForget, MonRecordEnd, MonSettle, MonGivesUp, MonRelease
  <2>2. \A g \in Fibers : FiberGoesOn(g)
    BY MonStepWakes
  <2>3. /\ \A t \in Triggers : t # u => trig'[t] = trig[t] /\ ids'[t] = ids[t]
        /\ ids'[u] \in {ids[u], ids[u] + 1}
    <3>1. CASE MonForget(o) \/ MonRelease(o)
      <4>1. (UNCHANGED trig \/ ReleaseTrigger(u, o)) /\ UNCHANGED ids
        BY <3>1 DEF MonForget, MonRelease
      <4> QED
        BY <2>1, <4>1, WritesOne
    <3>2. CASE MonRecordEnd(o)
      BY <3>2 DEF MonRecordEnd
    <3>3. CASE MonSettle(o)
      <4>1. \/ DeleteTrigger(u) /\ UNCHANGED ids
            \/ \E x : GenerateRunId(u) /\ UpsertTrigger(u, x)
        BY <3>3, SettleWrites DEF MonSettle
      <4> QED
        BY <2>1, <4>1, WritesOne
    <3>4. CASE MonGivesUp(o)
      BY <2>1, <3>4 DEF MonGivesUp, storeVars
    <3> QED
      BY <1>4, <3>1, <3>2, <3>3, <3>4
  <2>4. \A i \in RunIds : runs'[i] # NoRun => runs[i] # NoRun
    <3>1. CASE MonRecordEnd(o)
      <4> DEFINE i == mon[o].run.id
                 x == [runs[i] EXCEPT !.status = "stalled"]
      <4>1. runs' = runs \/ (runs[i] # NoRun /\ runs' = [runs EXCEPT ![i] = x])
        BY <3>1 DEF MonRecordEnd, RecordRunEnd
      <4> HIDE DEF x
      <4> QED
        BY <4>1 DEF IInv, TypeOK, StoreTypeOK
    <3>2. CASE MonForget(o) \/ MonSettle(o) \/ MonGivesUp(o) \/ MonRelease(o)
      BY <3>2 DEF MonForget, MonSettle, MonGivesUp, MonRelease, storeVars
    <3> QED
      BY <1>4, <3>1, <3>2
  <2>5. Minds(o, u)
    BY <2>1 DEF Minds
  <2> HIDE DEF u
  <2>6. ids[u] # 0
    BY <2>1, <2>5 DEF LInv, Known
  <2>7. \A t \in Triggers : ids'[t] = 0 => ids[t] = 0
    <3>1. ids[u] \in Nat
      BY <2>1 DEF IInv, TypeOK
    <3> QED
      BY <2>3, <2>6, <3>1
  <2>8. \A t \in Triggers : RecordGoesOn(t)
    <3>1. ASSUME NEW t \in Triggers, t = u
          PROVE  Unattended(t)' /\ ids'[t] # 0
      <4>1. Minds(o, t) /\ ids[t] # 0
        BY <2>5, <2>6, <3>1
      <4>2. ids'[t] # 0
        BY <2>7, <4>1, <2>3, <3>1 DEF IInv, TypeOK
      <4> QED
        BY <1>1, <2>2, <4>1, <4>2, MonIsAlone
    <3> QED
      BY <2>3, <3>1 DEF RecordGoesOn
  <2>9. \A t \in Triggers, n \in 1..MaxRuns :
              runs'[<<t, n>>] # NoRun => runs[<<t, n>>] # NoRun \/ ids'[t] # 0
    BY <2>4 DEF RunIds
  <2> QED
    BY <1>1, <1>2, <2>2, <2>7, <2>8, <2>9, DrainsKept, GoesOn
<1> QED
  BY <1>3, <1>4 DEF MonStep

----------------------------------------------------------------------------
(* The API, failures and the clock *)

\* What leaves the triggers, the runs and everybody's work alone.
LEMMA BesidesKeeps ==
    ASSUME IInv, IInv', LInv, LeasesLast,
           UNCHANGED <<now, trig, runs, ids, drains, fibers, mon>>, EditsCancel'
    PROVE  LInv'
<1>1. \A t \in Triggers : RecordGoesOn(t)
  BY DEF RecordGoesOn
<1> QED
  BY <1>1, DrainsKept, FibersKept, MonitorsKept, GoesOn

\* The calls that change an engine's fields, or a job's record, only, and the
\* end of a stray.
LEMMA EngineCallKeeps ==
    ASSUME IInv, IInv', LInv, LeasesLast,
           \/ \E o \in Owners : \/ PauseAll(o) \/ ResumeAll(o) \/ Shutdown(o) \/ Restart(o)
                                \/ \E j \in Jobs : UnregisterJob(o, j)
           \/ \E j \in Jobs, b \in BOOLEAN : PauseJob(j, b)
           \/ \E s \in strays : StrayEnds(s)
           \/ UNCHANGED vars
    PROVE  LInv'
<1>1. UNCHANGED <<now, trig, runs, ids, drains, fibers, mon, edit>>
  BY DEF PauseAll, ResumeAll, Shutdown, Restart, UnregisterJob, PauseJob, StrayEnds,
            storeVars, vars
<1>2. EditsCancel'
  BY <1>1 DEF LInv, EditsCancel
<1> QED
  BY <1>1, <1>2, BesidesKeeps

\* Of a trigger handle's calls, only cancel is left.
LEMMA HandleCallKeeps ==
    ASSUME IInv, IInv', LInv, LeasesLast, Undisturbed,
           \/ \E op \in {"pause", "resume", "cancel"}, t \in Triggers : EditGet(op, t)
           \/ EditPut
    PROVE  LInv'
<1>1. ASSUME NEW op \in {"pause", "resume", "cancel"}, NEW t \in Triggers, EditGet(op, t)
      PROVE  LInv'
  <2>1. op = "cancel" /\ op \in Ops
    BY <1>1 DEF EditGet, Happens, Undisturbed
  <2>2. EditsCancel'
    BY <1>1, <2>1 DEF EditGet, EditsCancel
  <2> QED
    BY <1>1, <2>2, BesidesKeeps DEF EditGet, storeVars
<1>2. CASE EditPut
  <2>1. edit # Idle /\ edit.op = "cancel" /\ "cancel" \in Ops
    BY <1>2 DEF EditPut, LInv, EditsCancel
  <2>2. /\ DeleteTrigger(edit.t) /\ edit' = Idle
        /\ UNCHANGED <<now, runs, ids, drains, fibers, mon>>
    BY <1>2, <2>1 DEF EditPut
  <2>3. \A t \in Triggers : RecordGoesOn(t)
    BY <2>1, <2>2 DEF DeleteTrigger, RecordGoesOn, IInv, TypeOK, StoreTypeOK
  <2>4. EditsCancel'
    BY <2>2 DEF EditsCancel
  <2> QED
    BY <2>2, <2>3, <2>4, DrainsKept, FibersKept, MonitorsKept, GoesOn
<1> QED
  BY <1>1, <1>2

\* The process dies, and all it was busy with is over.
LEMMA CrashKeeps ==
    ASSUME IInv, IInv', LInv, LeasesLast, NEW o \in Owners, Crash(o)
    PROVE  LInv'
<1>1. UNCHANGED <<now, trig, runs, ids, edit>>
  BY DEF Crash, storeVars
<1>2. \A d \in Drains : drains'[d] = Idle \/ drains'[d] = drains[d]
  BY DEF Crash
<1>3. \A f \in Fibers : fibers'[f] = Idle \/ fibers'[f] = fibers[f]
  BY DEF Crash
<1>4. \A p \in Owners : mon'[p] = Idle \/ mon'[p] = mon[p]
  BY DEF Crash, IInv, TypeOK
<1>5. \A d \in Drains : DrainGoesOn(d)
  BY <1>2 DEF DrainGoesOn, Idle
<1>6. \A f \in Fibers : FiberGoesOn(f)
  BY <1>3 DEF FiberGoesOn, Idle
<1>7. \A p \in Owners, t \in Triggers : Minds(p, t)' => Minds(p, t)
  BY <1>4 DEF Minds, Idle
<1>8. \A t \in Triggers : RecordGoesOn(t)
  BY <1>1 DEF RecordGoesOn
<1>9. EditsCancel'
  BY <1>1 DEF LInv, EditsCancel
<1> QED
  BY <1>1, <1>5, <1>6, <1>7, <1>8, <1>9, GoesOn

\* Time passes when no continuation is left.
LEMMA AdvanceKeeps ==
    ASSUME IInv, LInv, Undisturbed, Advance
    PROVE  LInv'
<1>1. /\ Quiet /\ UNCHANGED <<trig, runs, ids, drains, fibers, mon, edit>>
  BY DEF Advance, Undisturbed, TimerMayFire, storeVars
<1>2. ASSUME NEW t \in Triggers
      PROVE  Single(t)' /\ Known(t)'
  <2>1. Single(t) /\ Known(t)
    BY DEF LInv
  <2>2. /\ Drained(t)' <=> Drained(t)
        /\ \A d \in Drains : /\ Lists(d, t)' <=> Lists(d, t)
                             /\ Handles(d, t)' <=> Handles(d, t)
                             /\ Tidy(d, t)' <=> Tidy(d, t)
        /\ \A f \in Fibers : Runs(f, t)' <=> Runs(f, t)
        /\ \A o \in Owners : Minds(o, t)' <=> Minds(o, t)
    BY <1>1 DEF Drained, Lists, Handles, Tidy, Runs, Minds
  <2> QED
    BY <1>1, <2>1, <2>2 DEF Single, Known, Exists
<1>3. ASSUME NEW d \in Drains
      PROVE  ListsRecords(d)' /\ DecidesOwn(d)'
  BY <1>1 DEF Quiet, ListsRecords, DecidesOwn, Idle
<1>4. ASSUME NEW f \in Fibers
      PROVE  RunsOwn(f)'
  <2>1. RunsOwn(f) /\ fibers[f].pc \in {"idle", "waiting", "running"}
    BY <1>1 DEF LInv, Quiet
  <2> QED
    BY <1>1, <2>1 DEF RunsOwn, Live, Owns, Exists
<1>5. EditsCancel'
  BY <1>1 DEF LInv, EditsCancel
<1> QED
  BY <1>2, <1>3, <1>4, <1>5 DEF LInv

----------------------------------------------------------------------------
(* The theorems *)

\* Nobody is busy at first.
LEMMA InitLInv == Init => LInv
<1> SUFFICES ASSUME Init
             PROVE  LInv
  OBVIOUS
<1>1. ASSUME NEW t \in Triggers
      PROVE  Single(t) /\ Known(t)
  <2>1. /\ ~Drained(t) /\ \A d \in Drains : ~Lists(d, t) /\ ~Handles(d, t)
        /\ \A f \in Fibers : ~Runs(f, t)
        /\ \A o \in Owners : ~Minds(o, t)
    BY DEF Init, Idle, Drained, Lists, Handles, Runs, Minds
  <2>2. ~Exists(t) /\ \A n \in 1..MaxRuns : runs[<<t, n>>] = NoRun
    BY DEF Init, Exists, RunIds
  <2> QED
    BY <2>1, <2>2 DEF Single, Known, Tidy
<1>2. /\ \A d \in Drains : ListsRecords(d) /\ DecidesOwn(d)
      /\ \A f \in Fibers : RunsOwn(f)
      /\ EditsCancel
  BY DEF Init, Idle, ListsRecords, DecidesOwn, RunsOwn, Live, EditsCancel
<1> QED
  BY <1>1, <1>2 DEF LInv

\* No action lets two parties be busy with a trigger.
LEMMA StepLInv ==
    ASSUME Undisturbed
    PROVE  IInv /\ LInv /\ LeasesLast /\ MonitorSpares /\ [Next]_vars => LInv'
<1> SUFFICES ASSUME IInv, LInv, LeasesLast, MonitorSpares, [Next]_vars
             PROVE  LInv'
  OBVIOUS
<1>i. IInv'
  BY StepIInv
<1>1. ASSUME NEW o \in Owners, Tick(o) PROVE LInv'
  BY <1>1, <1>i, TickKeeps
<1>2. ASSUME NEW o \in Owners, MonScan(o) PROVE LInv'
  BY <1>2, <1>i, MonScanKeeps
<1>3. ASSUME NEW o \in Owners, MonStep(o) PROVE LInv'
  BY <1>3, <1>i, MonStepKeeps
<1>4. ASSUME NEW o \in Owners, Crash(o) PROVE LInv'
  BY <1>4, <1>i, CrashKeeps
<1>5. ASSUME NEW d \in Drains, DrainStep(d) PROVE LInv'
  BY <1>5, <1>i, DrainClaimKeeps, DrainGivesBack, DrainDispatchKeeps DEF DrainStep
<1>6. ASSUME NEW f \in Fibers,
             FiberStep(f) \/ TimesOut(f) \/ \E ok \in BOOLEAN : Finish(f, ok)
      PROVE  LInv'
  <2>1. FiberStep(f) \/ \E ok \in BOOLEAN : Settled(f, ok)
    BY <1>6 DEF TimesOut, Finish
  <2> QED
    BY <2>1, <1>i, RunGoesOn, RunEnds DEF FiberStep
<1>7. ASSUME NEW o \in Owners, NEW t \in Triggers, Schedule(o, t) \/ ExecuteNow(o, t)
      PROVE  LInv'
  BY <1>7, <1>i, ScheduleKeeps, ExecuteNowKeeps
<1>8. CASE \/ \E o \in Owners : \/ PauseAll(o) \/ ResumeAll(o) \/ Shutdown(o) \/ Restart(o)
                                \/ \E j \in Jobs : UnregisterJob(o, j)
           \/ \E j \in Jobs, b \in BOOLEAN : PauseJob(j, b)
           \/ \E s \in strays : StrayEnds(s)
           \/ UNCHANGED vars
  BY <1>8, <1>i, EngineCallKeeps
<1>9. CASE \/ \E op \in {"pause", "resume", "cancel"}, t \in Triggers : EditGet(op, t)
           \/ EditPut
  BY <1>9, <1>i, HandleCallKeeps
<1>10. CASE Advance
  BY <1>10, AdvanceKeeps
<1>11. ASSUME NEW id \in Executing, Touch(id) PROVE LInv'
  BY <1>11, <1>i, TouchKeeps
<1> QED
  BY <1>1, <1>2, <1>3, <1>4, <1>5, <1>6, <1>7, <1>8, <1>9, <1>10, <1>11 DEF Next, Call

\* One party at a time, so one run at a time.
LEMMA SingleRun == IInv /\ LInv => OneRunEach
<1> SUFFICES ASSUME IInv, LInv, NEW f \in Fibers, NEW g \in Fibers,
                    Running(f), Running(g), fibers[f].t = fibers[g].t
             PROVE  f = g
  BY DEF OneRunEach
<1>1. fibers[f].t \in Triggers /\ Runs(f, fibers[f].t) /\ Runs(g, fibers[f].t)
  BY FiberFields DEF Running, Runs
<1> QED
  BY <1>1 DEF LInv, Single

\* A run that is not over owns its trigger's record and its lease.
LEMMA RunOwnsLease ==
    ASSUME "cancel" \notin Ops, LeaseMs > 0
    PROVE  IInv /\ LInv /\ LeasesLast => RunHoldsLease
<1> SUFFICES ASSUME IInv, LInv, LeasesLast, NEW f \in Fibers, Live(f)
             PROVE  /\ Exists(fibers[f].t)
                    /\ trig[fibers[f].t].rid = fibers[f].snap.rid
                    /\ trig[fibers[f].t].owner = fibers[f].o
                    /\ trig[fibers[f].t].until > now
  BY DEF RunHoldsLease, Live
<1>1. RunsOwn(f)
  BY DEF LInv
<1> QED
  BY <1>1 DEF RunsOwn, Owns, Leasing, LeasesLast

\* README.md's "prevents double execution across processes": as long as no
\* lease lapses under its run, and the monitor gives up no run of a trigger
\* that has one, no two runs of a trigger are open at once, for any engines,
\* jobs, plans, also those that give up, policies, bounds, crashes, restarts
\* and client calls but those that write a copy of the record.
THEOREM RunsAreExclusive ==
    ASSUME Undisturbed
    PROVE  Spec /\ []LeasesLast /\ []MonitorSpares => []OneRunEach
<1>1. Init => IInv /\ LInv
  BY InitIInv, InitLInv
<1>2. IInv /\ LInv /\ LeasesLast /\ MonitorSpares /\ [Next]_vars => IInv' /\ LInv'
  BY StepIInv, StepLInv
<1>3. IInv /\ LInv => OneRunEach
  BY SingleRun
<1> QED
  BY <1>1, <1>2, <1>3, PTL DEF Spec

\* From the claim to the write that ends the run, its engine holds the
\* trigger's lease and the record names the run, unless a client cancels it.
THEOREM RunsAreLeased ==
    ASSUME Undisturbed, "cancel" \notin Ops, LeaseMs > 0
    PROVE  Spec /\ []LeasesLast /\ []MonitorSpares => []RunHoldsLease
<1>1. Init => IInv /\ LInv
  BY InitIInv, InitLInv
<1>2. IInv /\ LInv /\ LeasesLast /\ MonitorSpares /\ [Next]_vars => IInv' /\ LInv'
  BY StepIInv, StepLInv
<1>3. IInv /\ LInv /\ LeasesLast => RunHoldsLease
  BY RunOwnsLease
<1> QED
  BY <1>1, <1>2, <1>3, PTL DEF Spec

\* Runs that exclude each other go by different ids, so that under the same
\* hypotheses no permit is lost or given back twice, whatever the limits.
THEOREM ExclusiveRunsConservePermits ==
    ASSUME Undisturbed
    PROVE  Spec /\ []LeasesLast /\ []MonitorSpares => []PermitsCounted
<1>1. Init => IInv /\ LInv
  BY InitIInv, InitLInv
<1>2. IInv /\ LInv /\ LeasesLast /\ MonitorSpares /\ [Next]_vars => IInv' /\ LInv'
  BY StepIInv, StepLInv
<1>3. IInv /\ LInv => RunsDiffer
  <2> SUFFICES ASSUME IInv, LInv, NEW f \in Fibers, NEW g \in Fibers,
                      fibers[f].pc \in {"running", "ended"},
                      fibers[g].pc \in {"running", "ended"}, RunId(f) = RunId(g)
               PROVE  f = g
    BY DEF RunsDiffer
  <2>1. fibers[f].t \in Triggers /\ fibers[g].t = fibers[f].t
    BY FiberFields DEF RunId
  <2>2. Runs(f, fibers[f].t) /\ Runs(g, fibers[f].t)
    BY <2>1 DEF Runs
  <2> QED
    BY <2>1, <2>2 DEF LInv, Single
<1>4. Spec => ([]RunsDiffer => []PermitsCounted)
  BY PermitsAreConserved DEF PermitsConserved
<1> QED
  BY <1>1, <1>2, <1>3, <1>4, PTL DEF Spec

----------------------------------------------------------------------------
(* When no lease lapses *)

\* Without semaphores, and with a timeout that is shorter than the lease and
\* than the monitor's patience, a run is over before either acts.  A crash
\* leaves a run on record; a drain that skipped its occurrence would leave the
\* monitor two runs to choose from.
Unhurried ==
    /\ \A k \in Keys : Limit[k] = 0
    /\ 0 < TimeoutMs /\ TimeoutMs < LeaseMs /\ TimeoutMs <= StalledAfter
    /\ "crash" \notin Ops \/ \A t \in Triggers : Policy[t] # "skip"

Underway(i) == runs[i] # NoRun /\ runs[i].status = "running"

\* Run i is the only one on record as running of its trigger.
Sole(i) == \A n \in 1..MaxRuns : Underway(<<i[1], n>>) => n = i[2]

JustClaimed(d) ==
    drains[d].pc = "decide" /\ Exists(drains[d].cur.t)
        => trig[drains[d].cur.t].until >= now + LeaseMs

InTime(f) ==
    /\ fibers[f].pc \notin {"waiting", "woken"}
    /\ fibers[f].pc = "acquire" /\ Exists(fibers[f].t)
          => trig[fibers[f].t].until >= now + LeaseMs
    /\ fibers[f].pc = "running" =>
          /\ fibers[f].since <= now /\ now <= fibers[f].since + TimeoutMs
          /\ Exists(fibers[f].t) => trig[fibers[f].t].until >= fibers[f].since + LeaseMs
          /\ Underway(RunId(f)) /\ runs[RunId(f)].beat >= fibers[f].since
    /\ fibers[f].pc = "ended" => ~Underway(RunId(f))

\* A run on record as running is the one its trigger's record and whoever goes
\* by it name; without crashes it is being executed.
Followed(t, n) ==
    Underway(<<t, n>>) =>
        /\ Exists(t) => trig[t].rid = n
        /\ Sole(<<t, n>>)
        /\ \A d \in Drains :
              drains[d].pc = "decide" /\ drains[d].cur.t = t => drains[d].cur.snap.rid = n
        /\ \A f \in Fibers : Live(f) /\ fibers[f].t = t => fibers[f].snap.rid = n
        /\ "crash" \notin Ops =>
              \E f \in Fibers : fibers[f].pc = "running" /\ RunId(f) = <<t, n>>

\* A monitor has the only run of a trigger, and gives the trigger another one
\* when that is over.
MonitorsSole(o) ==
    /\ mon[o].pc # "idle" => \A s \in mon[o].todo : Sole(s.id)
    /\ mon[o].pc = "end" => Sole(mon[o].run.id)
    /\ mon[o].pc = "settle" =>
          \A n \in 1..MaxRuns : ~Underway(<<mon[o].run.id[1], n>>)

TInv ==
    /\ \A d \in Drains : JustClaimed(d)
    /\ \A f \in Fibers : InTime(f)
    /\ \A t \in Triggers, n \in 1..MaxRuns : Followed(t, n)
    /\ \A o \in Owners : MonitorsSole(o)

\* What is compared with the clock is a number.
LEMMA ClocksAreNumbers ==
    ASSUME IInv
    PROVE  /\ now \in Nat /\ LeaseMs \in Nat /\ TimeoutMs \in Nat /\ StalledAfter \in Nat
           /\ \A f \in Fibers : fibers[f].pc # "idle" => fibers[f].since \in Nat
           /\ \A t \in Triggers : Exists(t) => trig[t].until \in Nat
           /\ \A i \in RunIds : runs[i] # NoRun => runs[i].beat \in Nat
<1>1. now \in Nat /\ LeaseMs \in Nat /\ TimeoutMs \in Nat /\ StalledAfter \in Nat
  BY SchedulerAssumption DEF IInv, TypeOK, StoreTypeOK
<1>2. \A f \in Fibers : fibers[f].pc # "idle" => fibers[f].since \in Nat
  BY FiberFields DEF FiberRecord
<1>3. \A t \in Triggers : Exists(t) => trig[t].until \in Nat
  <2>1. \A t \in Triggers : Exists(t) => trig[t] \in TriggerRecord
    BY DEF IInv, TypeOK, StoreTypeOK, Exists
  <2> QED
    BY <2>1 DEF TriggerRecord
<1>4. \A i \in RunIds : runs[i] # NoRun => runs[i].beat \in Nat
  <2>1. \A i \in RunIds : runs[i] # NoRun => runs[i] \in RunRecord
    BY DEF IInv, TypeOK, StoreTypeOK
  <2> QED
    BY <2>1 DEF RunRecord
<1> QED
  BY <1>1, <1>2, <1>3, <1>4

\* In time, leases last and the monitor spares what runs.
LEMMA InTimeSpares ==
    ASSUME IInv, TInv, Unhurried
    PROVE  LeasesLast /\ MonitorSpares
<1>n. /\ now \in Nat /\ LeaseMs \in Nat /\ TimeoutMs \in Nat /\ StalledAfter \in Nat
      /\ \A f \in Fibers : fibers[f].pc # "idle" => fibers[f].since \in Nat
      /\ \A t \in Triggers : Exists(t) => trig[t].until \in Nat
      /\ \A i \in RunIds : runs[i] # NoRun => runs[i].beat \in Nat
  BY ClocksAreNumbers
<1>1. LeasesLast
  <2> SUFFICES ASSUME NEW f \in Fibers, fibers[f].pc \in {"waiting", "running"},
                      Exists(fibers[f].t)
               PROVE  trig[fibers[f].t].until > now
    BY DEF LeasesLast
  <2>1. InTime(f) /\ fibers[f].t \in Triggers /\ fibers[f].pc = "running"
    BY FiberFields DEF TInv, InTime
  <2>2. /\ now <= fibers[f].since + TimeoutMs
        /\ trig[fibers[f].t].until >= fibers[f].since + LeaseMs
    BY <2>1 DEF InTime
  <2>3. /\ fibers[f].since \in Nat /\ trig[fibers[f].t].until \in Nat
        /\ TimeoutMs < LeaseMs
    BY <1>n, <2>1 DEF Unhurried
  <2> QED
    BY <1>n, <2>2, <2>3
<1>2. MonitorSpares
  <2> SUFFICES ASSUME NEW f \in Fibers, NEW s \in StalledRuns(StalledAfter),
                      fibers[f].pc \in {"waiting", "running"}, s.id[1] = fibers[f].t
               PROVE  FALSE
    BY DEF MonitorSpares
  <2>1. InTime(f) /\ fibers[f].pc = "running" /\ Live(f)
    BY DEF TInv, InTime, Live
  <2>2. s.id \in RunIds /\ Underway(s.id) /\ runs[s.id].beat < now - StalledAfter
    BY DEF StalledRuns, Underway
  <2>3. PICK t \in Triggers, n \in 1..MaxRuns : s.id = <<t, n>>
    BY <2>2 DEF RunIds
  <2>4. fibers[f].snap.rid = n
    BY <2>1, <2>2, <2>3 DEF TInv, Followed
  <2>5. RunId(f) = s.id
    BY <2>3, <2>4 DEF RunId
  <2>6. /\ now <= fibers[f].since + TimeoutMs /\ runs[s.id].beat >= fibers[f].since
        /\ runs[s.id] # NoRun
    BY <2>1, <2>5 DEF InTime, Underway
  <2>7. fibers[f].since \in Nat /\ runs[s.id].beat \in Nat /\ TimeoutMs <= StalledAfter
    BY <1>n, <2>1, <2>2, <2>6 DEF Unhurried
  <2> QED
    BY <1>n, <2>2, <2>6, <2>7
<1> QED
  BY <1>1, <1>2

\* No run asks for a permit.
LEMMA NoPermits ==
    ASSUME Unhurried, NEW r, r.t \in Triggers
    PROVE  ~MustAcquire(r)
<1>1. NextPermit(r) \in Keys
  BY SchedulerAssumption DEF NextPermit, Keys
<1> QED
  BY <1>1 DEF MustAcquire, Unhurried

\* So none is woken.
LEMMA NoneWoken ==
    ASSUME IInv, TInv, NEW o \in Owners, NEW id \in RunIds
    PROVE  \A g \in Fibers : FibersWoken(o, id)[g] = fibers[g]
BY FreedEffect DEF TInv, InTime

----------------------------------------------------------------------------
(* Steps that record nothing about a run *)

\* The record of trigger t stays, is deleted, or is written while nobody goes
\* by it, with the run id it had or when no run is on record as running.
RecordFollows(t) ==
    \/ trig'[t] = trig[t]
    \/ trig'[t] = NoTrigger
    \/ /\ Unnamed(t)'
       /\ \/ \A n \in 1..MaxRuns : ~Underway(<<t, n>>)
          \/ Exists(t) /\ trig'[t].rid = trig[t].rid

\* A step that moves no clock, records nothing about runs and starts none keeps
\* the invariant in time if the records it writes are followed.
LEMMA TimeGoesOn ==
    ASSUME IInv, TInv,
           UNCHANGED <<now, runs>>,
           \A d \in Drains : drains'[d].pc = "decide" => drains'[d] = drains[d],
           \A f \in Fibers : fibers'[f] = fibers[f] \/ fibers'[f].pc \in {"idle", "release"},
           "crash" \notin Ops =>
              \A f \in Fibers : fibers[f].pc = "running" => fibers'[f] = fibers[f],
           \A t \in Triggers : RecordFollows(t),
           \A o \in Owners : MonitorsSole(o)'
    PROVE  TInv'
<1>u. \A i : Underway(i)' <=> Underway(i)
  BY DEF Underway
<1>1. ASSUME NEW d \in Drains
      PROVE  JustClaimed(d)'
  <2> SUFFICES ASSUME drains'[d].pc = "decide", trig'[drains'[d].cur.t] # NoTrigger
               PROVE  trig'[drains'[d].cur.t].until >= now + LeaseMs
    BY DEF JustClaimed, Exists
  <2>1. drains'[d] = drains[d] /\ drains[d].cur.t \in Triggers /\ JustClaimed(d)
    BY DrainFields DEF TInv
  <2>2. trig'[drains[d].cur.t] = trig[drains[d].cur.t]
    BY <2>1 DEF RecordFollows, Unattended, Unnamed, Exists
  <2> QED
    BY <2>1, <2>2 DEF JustClaimed, Exists
<1>2. ASSUME NEW f \in Fibers
      PROVE  InTime(f)'
  <2>1. CASE fibers'[f].pc \in {"idle", "release"}
    BY <2>1 DEF InTime
  <2>2. CASE fibers'[f] = fibers[f] /\ fibers[f].pc \notin {"idle", "release"}
    <3>1. fibers[f].t \in Triggers /\ InTime(f) /\ RunId(f)' = RunId(f)
      BY <2>2, FiberFields DEF TInv, RunId
    <3>2. Exists(fibers[f].t)' => trig'[fibers[f].t] = trig[fibers[f].t]
      BY <2>2, <3>1 DEF RecordFollows, Unattended, Unnamed, Exists, Live
    <3> QED
      BY <1>u, <2>2, <3>1, <3>2 DEF InTime, Exists
  <2> QED
    BY <2>1, <2>2
<1>3. ASSUME NEW t \in Triggers, NEW n \in 1..MaxRuns
      PROVE  Followed(t, n)'
  <2> SUFFICES ASSUME Underway(<<t, n>>)'
               PROVE  /\ Exists(t)' => trig'[t].rid = n
                      /\ Sole(<<t, n>>)'
                      /\ \A d \in Drains :
                            drains'[d].pc = "decide" /\ drains'[d].cur.t = t
                                => drains'[d].cur.snap.rid = n
                      /\ \A f \in Fibers : Live(f)' /\ fibers'[f].t = t
                                => fibers'[f].snap.rid = n
                      /\ "crash" \notin Ops => \E f \in Fibers :
                            fibers'[f].pc = "running" /\ RunId(f)' = <<t, n>>
    BY DEF Followed
  <2>1. Underway(<<t, n>>) /\ Followed(t, n)
    BY <1>u DEF TInv
  <2>2. Exists(t)' => trig'[t].rid = n
    BY <2>1 DEF RecordFollows, Followed, Exists
  <2>3. Sole(<<t, n>>)'
    BY <1>u, <2>1 DEF Followed, Sole
  <2>4. \A d \in Drains : drains'[d].pc = "decide" /\ drains'[d].cur.t = t
                                => drains'[d].cur.snap.rid = n
    BY <2>1 DEF Followed
  <2>5. \A f \in Fibers : Live(f)' /\ fibers'[f].t = t => fibers'[f].snap.rid = n
    BY <2>1 DEF Followed, Live
  <2>6. "crash" \notin Ops => \E f \in Fibers :
                            fibers'[f].pc = "running" /\ RunId(f)' = <<t, n>>
    BY <2>1 DEF Followed, RunId
  <2> QED
    BY <2>2, <2>3, <2>4, <2>5, <2>6
<1> QED
  BY <1>1, <1>2, <1>3 DEF TInv

\* Monitors that stand still.
LEMMA MonitorsStay ==
    ASSUME TInv, UNCHANGED <<runs, mon>>
    PROVE  \A o \in Owners : MonitorsSole(o)'
BY DEF TInv, MonitorsSole, Sole, Underway

\* A release keeps the run id.
LEMMA ReleaseFollows ==
    ASSUME IInv, NEW u \in Triggers, NEW o, ReleaseTrigger(u, o), Unnamed(u)'
    PROVE  \A t \in Triggers : RecordFollows(t)
<1>1. trig \in [Triggers -> TriggerRecord \cup {NoTrigger}]
  BY DEF IInv, TypeOK, StoreTypeOK
<1>2. \A t \in Triggers : t # u => trig'[t] = trig[t]
  BY <1>1 DEF ReleaseTrigger
<1>3. trig'[u] = trig[u] \/ (Exists(u) /\ trig'[u].rid = trig[u].rid)
  <2>1. CASE Exists(u) /\ trig[u].owner = o
    <3> DEFINE r == [trig[u] EXCEPT !.owner = NoOwner, !.until = 0]
    <3>1. trig' = [trig EXCEPT ![u] = r]
      BY <2>1 DEF ReleaseTrigger
    <3>2. trig[u] \in TriggerRecord
      BY <1>1, <2>1 DEF Exists
    <3>3. r.rid = trig[u].rid
      BY <3>2 DEF TriggerRecord
    <3> HIDE DEF r
    <3> QED
      BY <1>1, <2>1, <3>1, <3>3
  <2>2. CASE ~(Exists(u) /\ trig[u].owner = o)
    BY <2>2 DEF ReleaseTrigger
  <2> QED
    BY <2>1, <2>2
<1> QED
  BY <1>2, <1>3 DEF RecordFollows

\* A write when no run is on record as running.
LEMMA WriteFollows ==
    ASSUME IInv, NEW u \in Triggers, Unnamed(u)',
           \A n \in 1..MaxRuns : ~Underway(<<u, n>>),
           \A t \in Triggers : t # u => trig'[t] = trig[t]
    PROVE  \A t \in Triggers : RecordFollows(t)
BY DEF RecordFollows

\* The end of a run.
LEMMA RunEndsTime ==
    ASSUME IInv, LInv, TInv, NEW f \in Fibers,
           WrapHandled(f) \/ Wrap(f) \/ WrapGivesUp(f) \/ ReleaseLease(f)
    PROVE  TInv'
<1>1. /\ fibers[f].pc \in {"ended", "release"} /\ fibers[f] \in FiberRecord
      /\ fibers[f].o \in Owners /\ RunId(f) \in RunIds
      /\ fibers \in [Fibers -> FiberRecord \cup {Idle}]
  BY FiberFields DEF WrapHandled, Wrap, WrapGivesUp, ReleaseLease, IInv, TypeOK
<1>2. UNCHANGED <<now, runs, drains, mon>>
  BY DEF WrapHandled, Wrap, WrapGivesUp, ReleaseLease, storeVars
<1>3. ~Live(f)' /\ \A g \in Fibers : FiberGoesOn(g)
  BY RunEndsWork
<1>4. PICK u \in Triggers : u = fibers[f].t
  BY <1>1 DEF FiberRecord
<1>5. Runs(f, u) /\ Unnamed(u)'
  <2>1. Runs(f, u)
    BY <1>1, <1>4 DEF Runs
  <2> QED
    BY <1>2, <1>3, <2>1, RunLeavesAlone DEF Unattended
<1>6. \A g \in Fibers : g # f => fibers'[g] = fibers[g]
  <2>1. CASE WrapHandled(f) \/ Wrap(f) \/ WrapGivesUp(f)
    <3> DEFINE W == FibersWoken(fibers[f].o, RunId(f))
    <3>1. W \in [Fibers -> FiberRecord \cup {Idle}] /\ \A g \in Fibers : W[g] = fibers[g]
      BY <1>1, FreedEffect, NoneWoken
    <3>2. fibers' = [W EXCEPT ![f] = Idle] \/ fibers' = [W EXCEPT ![f].pc = "release"]
      BY <2>1 DEF WrapHandled, Wrap, WrapGivesUp
    <3> HIDE DEF W
    <3> QED
      BY <3>1, <3>2
  <2>2. CASE ReleaseLease(f)
    BY <1>1, <2>2 DEF ReleaseLease
  <2> QED
    BY <2>1, <2>2
<1>7. \A t \in Triggers : RecordFollows(t)
  <2>1. CASE WrapHandled(f) \/ ReleaseLease(f)
    BY <1>4, <1>5, <2>1, ReleaseFollows DEF WrapHandled, ReleaseLease
  <2>2. CASE Wrap(f)
    <3>1. \A t \in Triggers : t # u => trig'[t] = trig[t]
      BY <1>4, <2>2, SettleWrites, WritesOne DEF Wrap
    <3>2. ASSUME NEW n \in 1..MaxRuns, Underway(<<u, n>>) PROVE FALSE
      <4>1. fibers[f].pc = "ended" /\ Live(f)
        BY <2>2 DEF Wrap, Live
      <4>2. fibers[f].snap.rid = n
        BY <1>4, <3>2, <4>1 DEF TInv, Followed
      <4>3. RunId(f) = <<u, n>>
        BY <1>4, <4>2 DEF RunId
      <4> QED
        BY <3>2, <4>1, <4>3 DEF TInv, InTime
    <3> QED
      BY <1>5, <3>1, <3>2, WriteFollows
  <2>3. CASE WrapGivesUp(f)
    BY <2>3 DEF WrapGivesUp, storeVars, RecordFollows
  <2> QED
    BY <2>1, <2>2, <2>3
<1>8. \A o \in Owners : MonitorsSole(o)'
  BY <1>2, MonitorsStay
<1>9. \A g \in Fibers : fibers'[g] = fibers[g] \/ fibers'[g].pc \in {"idle", "release"}
  <2>1. fibers'[f].pc \in {"idle", "release"}
    BY <1>3 DEF Live
  <2> QED
    BY <1>6, <2>1
<1>10. \A g \in Fibers : fibers[g].pc = "running" => fibers'[g] = fibers[g]
  BY <1>1, <1>6
<1> QED
  BY <1>2, <1>7, <1>8, <1>9, <1>10, TimeGoesOn

\* A drain is done with its trigger without a run.
LEMMA DrainGivesBackTime ==
    ASSUME IInv, LInv, TInv, Unhurried, NEW d \in Drains,
           DrainJobMissing(d) \/ DrainSkip(d) \/ DrainGivesUp(d) \/ DrainRelease(d)
    PROVE  TInv'
<1>1. /\ drains[d].pc \in {"decide", "release"}
      /\ drains \in [Drains -> DrainRecord \cup {Idle}]
      /\ UNCHANGED <<now, runs, fibers, mon>>
  BY DEF DrainJobMissing, DrainSkip, DrainGivesUp, DrainRelease, Deciding, storeVars,
         IInv, TypeOK
<1>2. PICK u \in Triggers : u = drains[d].cur.t
  BY <1>1, DrainFields
<1>3. (\A e \in Drains : DrainGoesOn(e)) /\ drains'[d].pc # "decide"
  BY DrainGivesBackWork
<1>4. Handles(d, u) /\ Unnamed(u)'
  <2>1. Handles(d, u)
    BY <1>1, <1>2 DEF Handles
  <2> QED
    BY <1>1, <1>3, <2>1, DrainLeavesAlone DEF Unattended
<1>5. \A e \in Drains : drains'[e].pc = "decide" => drains'[e] = drains[e]
  <2>1. CASE DrainJobMissing(d) \/ DrainRelease(d)
    <3>1. Go(d, drains[d].due) /\ drains[d].pc # "idle"
      BY <1>1, <2>1 DEF DrainJobMissing, DrainRelease
    <3>2. \A e \in Drains : e # d => drains'[e] = drains[e]
      BY <3>1, GoGoesOn
    <3> QED
      BY <1>3, <3>2
  <2>2. CASE DrainSkip(d) \/ DrainGivesUp(d)
    <3>1. \A e \in Drains : e # d => drains'[e] = drains[e]
      BY <1>1, <2>2 DEF DrainSkip, DrainGivesUp
    <3> QED
      BY <1>3, <3>1
  <2> QED
    BY <2>1, <2>2
<1>6. \A t \in Triggers : RecordFollows(t)
  <2>1. CASE DrainJobMissing(d) \/ DrainRelease(d)
    BY <1>2, <1>4, <2>1, ReleaseFollows DEF DrainJobMissing, DrainRelease
  <2>2. CASE DrainSkip(d)
    <3>1. \A t \in Triggers : t # u => trig'[t] = trig[t]
      BY <1>2, <2>2, WritesOne DEF DrainSkip
    <3>2. ASSUME NEW n \in 1..MaxRuns, Underway(<<u, n>>) PROVE FALSE
      <4>1. "crash" \notin Ops
        BY <1>2, <2>2 DEF DrainSkip, Skipped, Unhurried
      <4>2. PICK f \in Fibers : fibers[f].pc = "running" /\ RunId(f) = <<u, n>>
        BY <3>2, <4>1 DEF TInv, Followed
      <4>3. Runs(f, u)
        BY <4>2 DEF RunId, Runs
      <4> QED
        BY <1>4, <4>3 DEF LInv, Single, Drained
    <3> QED
      BY <1>4, <3>1, <3>2, WriteFollows
  <2>3. CASE DrainGivesUp(d)
    BY <2>3 DEF DrainGivesUp, storeVars, RecordFollows
  <2> QED
    BY <2>1, <2>2, <2>3
<1>7. \A o \in Owners : MonitorsSole(o)'
  BY <1>1, MonitorsStay
<1> QED
  BY <1>1, <1>5, <1>6, <1>7, TimeGoesOn

\* A claim is for the whole term of a lease.
LEMMA DrainClaimTime ==
    ASSUME IInv, LInv, TInv, NEW d \in Drains, DrainClaim(d)
    PROVE  TInv'
<1>1. drains[d].pc = "claim" /\ drains[d].pc # "idle"
      /\ drains \in [Drains -> DrainRecord \cup {Idle}]
      /\ trig \in [Triggers -> TriggerRecord \cup {NoTrigger}]
      /\ UNCHANGED <<now, runs, fibers, mon>>
  BY DEF DrainClaim, IInv, TypeOK, StoreTypeOK
<1>u. \A i : Underway(i)' <=> Underway(i)
  BY <1>1 DEF Underway
<1>2. PICK s \in drains[d].due :
         \/ Go(d, {}) /\ UNCHANGED trig
         \/ /\ Claimable(s.t, drains[d].o)
            /\ ClaimTrigger(s.t, drains[d].o, LeaseMs)
            /\ drains' = [drains EXCEPT ![d] =
                [pc |-> "decide", o |-> drains[d].o, at |-> drains[d].at,
                 due |-> drains[d].due \ {s}, poll |-> drains[d].poll, cur |-> s]]
         \/ Go(d, drains[d].due \ {s}) /\ UNCHANGED trig
  BY DEF DrainClaim
<1>3. \A o \in Owners : MonitorsSole(o)'
  BY <1>1, MonitorsStay
<1>4. ASSUME NEW due \in SUBSET drains[d].due, Go(d, due), UNCHANGED trig
      PROVE  TInv'
  <2>1. \A e \in Drains : drains'[e].pc = "decide" => drains'[e] = drains[e]
    <3>1. /\ drains'[d].pc # "idle" => drains'[d].pc = "claim"
          /\ \A e \in Drains : e # d => drains'[e] = drains[e]
      BY <1>1, <1>4, GoGoesOn
    <3> QED
      BY <3>1
  <2>2. \A t \in Triggers : RecordFollows(t)
    BY <1>4 DEF RecordFollows
  <2> QED
    BY <1>1, <1>3, <2>1, <2>2, TimeGoesOn
<1>5. CASE /\ Claimable(s.t, drains[d].o)
           /\ ClaimTrigger(s.t, drains[d].o, LeaseMs)
           /\ drains' = [drains EXCEPT ![d] =
                [pc |-> "decide", o |-> drains[d].o, at |-> drains[d].at,
                 due |-> drains[d].due \ {s}, poll |-> drains[d].poll, cur |-> s]]
  <2> DEFINE r == [pc |-> "decide", o |-> drains[d].o, at |-> drains[d].at,
                   due |-> drains[d].due \ {s}, poll |-> drains[d].poll, cur |-> s]
             later == now + LeaseMs
             w == [trig[s.t] EXCEPT !.owner = drains[d].o, !.until = later]
  <2>1. PICK u \in Triggers : u = s.t
    BY <1>1, DrainFields DEF Snapshot
  <2>2. Exists(u) /\ trig[u] \in TriggerRecord /\ trig[u] = s.snap
    <3>1. Exists(u) /\ trig[u] # NoTrigger
      BY <1>5, <2>1 DEF Claimable, Exists
    <3>2. trig[u] = s.snap
      BY <1>1, <2>1, <3>1 DEF LInv, ListsRecords
    <3> QED
      BY <1>1, <3>1, <3>2
  <2>3. /\ drains'[d] = r /\ r.pc = "decide" /\ r.cur = s
        /\ \A e \in Drains : e # d => drains'[e] = drains[e]
    BY <1>1, <1>5
  <2>4. /\ trig' = [trig EXCEPT ![u] = w]
        /\ w.rid = trig[u].rid /\ w.until = later
    BY <1>5, <2>1, <2>2 DEF ClaimTrigger, TriggerRecord
  <2>5. later \in Nat /\ later = now + LeaseMs
    BY ClocksAreNumbers
  <2> HIDE DEF r, w, later
  <2>6. trig'[u] = w /\ \A t \in Triggers : t # u => trig'[t] = trig[t]
    BY <1>1, <2>4
  <2>7. /\ \A e \in Drains : Lists(e, u) \/ Handles(e, u) => e = d
        /\ \A f \in Fibers : ~Runs(f, u)
    <3>1. Lists(d, u)
      BY <1>1, <2>1 DEF Lists
    <3> QED
      BY <3>1 DEF LInv, Single, Drained
  <2>8. ASSUME NEW e \in Drains
        PROVE  JustClaimed(e)'
    <3>1. CASE e = d
      BY <1>1, <2>1, <2>3, <2>4, <2>5, <2>6, <3>1 DEF JustClaimed
    <3>2. CASE e # d /\ drains[e].pc = "decide"
      <4>1. drains[e].cur.t \in Triggers /\ drains[e].cur.t # u
        BY <2>7, <3>2, DrainFields DEF Handles
      <4>2. drains'[e] = drains[e] /\ trig'[drains[e].cur.t] = trig[drains[e].cur.t]
        BY <2>3, <2>6, <3>2, <4>1
      <4> QED
        BY <1>1, <4>2 DEF TInv, JustClaimed, Exists
    <3>3. CASE e # d /\ drains[e].pc # "decide"
      BY <2>3, <3>3 DEF JustClaimed
    <3> QED
      BY <3>1, <3>2, <3>3
  <2>9. ASSUME NEW f \in Fibers
        PROVE  InTime(f)'
    <3>1. CASE fibers[f].pc = "idle"
      BY <1>1, <3>1 DEF InTime
    <3>2. CASE fibers[f].pc # "idle"
      <4>1. fibers[f].t \in Triggers /\ fibers[f].t # u
        BY <2>7, <3>2, FiberFields DEF Runs
      <4>2. trig'[fibers[f].t] = trig[fibers[f].t] /\ InTime(f) /\ RunId(f)' = RunId(f)
        BY <1>1, <2>6, <4>1 DEF TInv, RunId
      <4> QED
        BY <1>1, <1>u, <4>2 DEF InTime, Exists
    <3> QED
      BY <3>1, <3>2
  <2>10. ASSUME NEW t \in Triggers, NEW n \in 1..MaxRuns
         PROVE  Followed(t, n)'
    <3> SUFFICES ASSUME Underway(<<t, n>>)
                 PROVE  Followed(t, n)'
      BY <1>u DEF Followed
    <3>1. Followed(t, n)
      BY DEF TInv
    <3>2. Exists(t)' => trig'[t].rid = n
      BY <2>2, <2>4, <2>6, <3>1 DEF Followed, Exists
    <3>3. Sole(<<t, n>>)'
      BY <1>u, <3>1 DEF Followed, Sole
    <3>4. ASSUME NEW e \in Drains, drains'[e].pc = "decide", drains'[e].cur.t = t
          PROVE  drains'[e].cur.snap.rid = n
      <4>1. CASE e = d
        BY <2>1, <2>2, <2>3, <3>1, <3>4, <4>1 DEF Followed
      <4>2. CASE e # d
        BY <2>3, <3>1, <3>4, <4>2 DEF Followed
      <4> QED
        BY <4>1, <4>2
    <3>5. /\ \A f \in Fibers : Live(f)' /\ fibers'[f].t = t => fibers'[f].snap.rid = n
          /\ "crash" \notin Ops => \E f \in Fibers :
                fibers'[f].pc = "running" /\ RunId(f)' = <<t, n>>
      BY <1>1, <3>1 DEF Followed, Live, RunId
    <3> QED
      BY <3>2, <3>3, <3>4, <3>5 DEF Followed
  <2> QED
    BY <1>3, <2>8, <2>9, <2>10 DEF TInv
<1> QED
  BY <1>2, <1>4, <1>5

\* What is dispatched was just claimed, and asks for no permit.
LEMMA DrainDispatchTime ==
    ASSUME IInv, LInv, TInv, Unhurried, NEW d \in Drains, DrainDispatch(d)
    PROVE  TInv'
<1> DEFINE r == [pc |-> "acquire", o |-> drains[d].o, t |-> drains[d].cur.t,
                 snap |-> drains[d].cur.snap, sched |-> drains[d].cur.snap.next,
                 held |-> {}, since |-> 0, ok |-> FALSE]
<1>1. /\ drains[d].pc = "decide" /\ drains[d].pc # "idle" /\ drains[d].cur.t \in Triggers
      /\ UNCHANGED <<now, trig, runs, mon>>
      /\ Go(d, drains[d].due)
      /\ fibers \in [Fibers -> FiberRecord \cup {Idle}]
  BY DrainFields DEF DrainDispatch, Deciding, storeVars, IInv, TypeOK
<1>2. PICK f \in Fibers : fibers[f] = Idle /\ Acquire(f, r)
  BY DEF DrainDispatch
<1>3. fibers' = [fibers EXCEPT ![f] = r]
  <2>1. r.t \in Triggers
    BY <1>1
  <2> HIDE DEF r
  <2> QED
    BY <1>2, <2>1, NoPermits DEF Acquire
<1>4. /\ r.pc = "acquire" /\ r.t = drains[d].cur.t /\ r.snap = drains[d].cur.snap
  OBVIOUS
<1> HIDE DEF r
<1>5. fibers'[f] = r /\ \A g \in Fibers : g # f => fibers'[g] = fibers[g]
  BY <1>1, <1>3
<1>6. \A e \in Drains : drains'[e].pc = "decide" => drains'[e] = drains[e] /\ e # d
  <2>1. /\ drains'[d].pc # "idle" => drains'[d].pc = "claim"
        /\ \A e \in Drains : e # d => drains'[e] = drains[e]
    BY <1>1, GoGoesOn
  <2> QED
    BY <2>1
<1>u. \A i : Underway(i)' <=> Underway(i)
  BY <1>1 DEF Underway
<1>7. ASSUME NEW e \in Drains
      PROVE  JustClaimed(e)'
  <2>1. JustClaimed(e)
    BY DEF TInv
  <2> QED
    BY <1>1, <1>6, <2>1 DEF JustClaimed, Exists
<1>8. ASSUME NEW g \in Fibers
      PROVE  InTime(g)'
  <2>1. CASE g = f
    <3>1. JustClaimed(d)
      BY DEF TInv
    <3> QED
      BY <1>1, <1>4, <1>5, <2>1, <3>1 DEF JustClaimed, InTime, Exists
  <2>2. CASE g # f
    <3>1. fibers'[g] = fibers[g] /\ RunId(g)' = RunId(g) /\ InTime(g)
      BY <1>5, <2>2 DEF TInv, RunId
    <3> QED
      BY <1>1, <1>u, <3>1 DEF InTime, Exists
  <2> QED
    BY <2>1, <2>2
<1>9. ASSUME NEW t \in Triggers, NEW n \in 1..MaxRuns
      PROVE  Followed(t, n)'
  <2> SUFFICES ASSUME Underway(<<t, n>>)
               PROVE  Followed(t, n)'
    BY <1>u DEF Followed
  <2>1. Followed(t, n)
    BY DEF TInv
  <2>2. Exists(t)' => trig'[t].rid = n
    BY <1>1, <2>1 DEF Followed, Exists
  <2>3. Sole(<<t, n>>)'
    BY <1>u, <2>1 DEF Followed, Sole
  <2>4. \A e \in Drains : drains'[e].pc = "decide" /\ drains'[e].cur.t = t
                             => drains'[e].cur.snap.rid = n
    BY <1>6, <2>1 DEF Followed
  <2>5. ASSUME NEW g \in Fibers, Live(g)', fibers'[g].t = t
        PROVE  fibers'[g].snap.rid = n
    <3>1. CASE g = f
      BY <1>1, <1>4, <1>5, <2>1, <2>5, <3>1 DEF Followed
    <3>2. CASE g # f
      BY <1>5, <2>1, <2>5, <3>2 DEF Followed, Live
    <3> QED
      BY <3>1, <3>2
  <2>6. "crash" \notin Ops => \E g \in Fibers :
            fibers'[g].pc = "running" /\ RunId(g)' = <<t, n>>
    <3>1. \A g \in Fibers : fibers[g].pc = "running" => fibers'[g] = fibers[g]
      BY <1>2, <1>5 DEF Idle
    <3> QED
      BY <2>1, <3>1 DEF Followed, RunId
  <2> QED
    BY <2>2, <2>3, <2>4, <2>5, <2>6 DEF Followed
<1>10. \A o \in Owners : MonitorsSole(o)'
  BY <1>1, MonitorsStay
<1> QED
  BY <1>7, <1>8, <1>9, <1>10 DEF TInv

----------------------------------------------------------------------------
(* Steps that record something about a run *)

\* A step of the run with id i leaves the records of the others alone; the
\* run itself is looked at by nobody else.
LEMMA RunRecords ==
    ASSUME IInv, LInv, TInv, NEW f \in Fibers, Live(f),
           fibers'[f].pc \in {"running", "ended"},
           fibers'[f].t = fibers[f].t, fibers'[f].snap = fibers[f].snap,
           \A g \in Fibers : g # f => fibers'[g] = fibers[g],
           \A i \in RunIds : i # RunId(f) => runs'[i] = runs[i],
           Underway(RunId(f))' <=> fibers'[f].pc = "running",
           UNCHANGED <<now, trig, drains, mon>>,
           InTime(f)'
    PROVE  TInv'
<1>1. PICK u \in Triggers : u = fibers[f].t
  BY FiberFields DEF Live
<1>2. PICK m \in 1..MaxRuns : RunId(f) = <<u, m>> /\ m = fibers[f].snap.rid
  BY <1>1, FiberFields DEF Live, RunId, TriggerRecord
<1>3. Runs(f, u) /\ (\A g \in Fibers : Runs(g, u) => g = f) /\ ~Drained(u)
      /\ \A o \in Owners : ~Minds(o, u)
  <2>1. Runs(f, u)
    BY <1>1 DEF Live, Runs
  <2> QED
    BY <2>1 DEF LInv, Single
<1>4. \A t \in Triggers, n \in 1..MaxRuns :
        /\ t # u => (Underway(<<t, n>>)' <=> Underway(<<t, n>>))
        /\ n # m => (Underway(<<t, n>>)' <=> Underway(<<t, n>>))
  BY <1>2 DEF Underway, RunIds
<1>5. \A d \in Drains : JustClaimed(d)'
  BY DEF TInv, JustClaimed, Exists
<1>6. ASSUME NEW g \in Fibers
      PROVE  InTime(g)'
  <2>1. CASE g # f /\ fibers[g].pc # "idle"
    <3>1. fibers'[g] = fibers[g] /\ RunId(g)' = RunId(g) /\ InTime(g) /\ RunId(g) \in RunIds
      BY <2>1, FiberFields DEF TInv, RunId
    <3>2. RunId(g) # RunId(f)
      <4>1. RunId(g)[1] = fibers[g].t /\ RunId(f)[1] = u
        BY <1>1, <2>1, FiberFields DEF RunId
      <4>2. fibers[g].t # u
        BY <1>3, <2>1 DEF Runs
      <4> QED
        BY <4>1, <4>2
    <3>3. runs'[RunId(g)] = runs[RunId(g)]
      BY <3>1, <3>2
    <3> QED
      BY <3>1, <3>3 DEF InTime, Exists, Underway
  <2>2. CASE g # f /\ fibers[g].pc = "idle"
    BY <2>2 DEF InTime
  <2> QED
    BY <2>1, <2>2
<1>7. ASSUME NEW t \in Triggers, NEW n \in 1..MaxRuns
      PROVE  Followed(t, n)'
  <2> SUFFICES ASSUME Underway(<<t, n>>)'
               PROVE  Followed(t, n)'
    BY DEF Followed
  <2>1. CASE t # u
    <3>1. Underway(<<t, n>>) /\ Followed(t, n)
      BY <1>4, <2>1 DEF TInv
    <3>2. Sole(<<t, n>>)'
      BY <1>4, <2>1, <3>1 DEF Followed, Sole
    <3>3. \A g \in Fibers : Live(g)' /\ fibers'[g].t = t => fibers'[g].snap.rid = n
      BY <1>1, <2>1, <3>1 DEF Followed, Live
    <3>4. "crash" \notin Ops => \E g \in Fibers :
              fibers'[g].pc = "running" /\ RunId(g)' = <<t, n>>
      <4>1. ASSUME NEW g \in Fibers, fibers[g].pc = "running", RunId(g) = <<t, n>>
            PROVE  fibers'[g].pc = "running" /\ RunId(g)' = <<t, n>>
        <5>1. g # f
          BY <1>2, <2>1, <4>1
        <5> QED
          BY <4>1, <5>1 DEF RunId
      <4> QED
        BY <3>1, <4>1 DEF Followed
    <3> QED
      BY <3>1, <3>2, <3>3, <3>4 DEF Followed, Exists
  <2>2. CASE t = u
    <3>1. n = m
      <4>1. SUFFICES ASSUME n # m PROVE FALSE
        OBVIOUS
      <4>2. Followed(t, n) /\ Underway(<<t, n>>)
        BY <1>4, <4>1 DEF TInv
      <4>3. \A g \in Fibers : Live(g) /\ fibers[g].t = t => fibers[g].snap.rid = n
        BY <4>2 DEF Followed
      <4>4. Live(f) /\ fibers[f].t = t
        BY <1>1, <2>2
      <4> QED
        BY <1>2, <4>1, <4>3, <4>4
    <3>2. fibers'[f].pc = "running"
      <4>1. RunId(f)' = <<t, n>>
        BY <1>2, <2>2, <3>1 DEF RunId
      <4> QED
        BY <4>1 DEF Underway
    <3>3. Exists(t)' => trig'[t].rid = n
      <4>1. RunsOwn(f)
        BY DEF LInv
      <4> QED
        BY <1>1, <1>2, <2>2, <3>1, <4>1 DEF RunsOwn, Owns, Exists
    <3>4. Sole(<<t, n>>)'
      <4>1. ASSUME NEW k \in 1..MaxRuns, Underway(<<t, k>>)', k # m
            PROVE  FALSE
        <5>1. Followed(t, k) /\ Underway(<<t, k>>)
          BY <1>4, <4>1 DEF TInv
        <5> QED
          BY <1>1, <1>2, <2>2, <4>1, <5>1 DEF Followed
      <4> QED
        BY <3>1, <4>1 DEF Sole
    <3>5. \A d \in Drains : drains'[d].pc = "decide" => drains'[d].cur.t # t
      BY <1>3, <2>2 DEF Drained, Handles
    <3>6. \A g \in Fibers : Live(g)' /\ fibers'[g].t = t => fibers'[g].snap.rid = n
      BY <1>2, <1>3, <2>2, <3>1 DEF Live, Runs
    <3>7. RunId(f)' = <<t, n>>
      BY <1>2, <2>2, <3>1 DEF RunId
    <3> QED
      BY <3>2, <3>3, <3>4, <3>5, <3>6, <3>7 DEF Followed
  <2> QED
    BY <2>1, <2>2
<1>8. ASSUME NEW o \in Owners
      PROVE  MonitorsSole(o)'
  <2>1. MonitorsSole(o)
    BY DEF TInv
  <2>2. ASSUME mon[o].pc # "idle", NEW x \in mon[o].todo
        PROVE  Sole(x.id)'
    <3>1. x.id \in RunIds
      BY <2>2, MonFields DEF RunSnapshot
    <3>2. PICK t \in Triggers, n \in 1..MaxRuns : x.id = <<t, n>>
      BY <3>1 DEF RunIds
    <3>3. t # u
      BY <1>3, <2>2, <3>2 DEF Minds
    <3> QED
      BY <1>4, <2>1, <2>2, <3>2, <3>3 DEF MonitorsSole, Sole
  <2>3. ASSUME mon[o].pc \in {"end", "settle"}
        PROVE  mon[o].run.id \in RunIds /\ mon[o].run.id[1] \in Triggers /\ mon[o].run.id[1] # u
    BY <1>3, <2>3, MonFields DEF Minds
  <2>4. mon[o].pc = "end" => Sole(mon[o].run.id)'
    BY <1>4, <2>1, <2>3 DEF MonitorsSole, Sole
  <2>5. mon[o].pc = "settle" => \A n \in 1..MaxRuns : ~Underway(<<mon[o].run.id[1], n>>)'
    BY <1>4, <2>1, <2>3 DEF MonitorsSole
  <2> QED
    BY <2>2, <2>4, <2>5 DEF MonitorsSole
<1> QED
  BY <1>5, <1>6, <1>7, <1>8 DEF TInv

\* The handler starts, or ends.
LEMMA RunTime ==
    ASSUME IInv, LInv, TInv, Unhurried, NEW f \in Fibers,
           \/ AcquireMore(f) \/ Resume(f) \/ StartRun(f)
           \/ \E ok \in BOOLEAN : Settled(f, ok)
    PROVE  TInv'
<1>n. /\ now \in Nat /\ LeaseMs \in Nat /\ TimeoutMs \in Nat /\ StalledAfter \in Nat
      /\ \A t \in Triggers : Exists(t) => trig[t].until \in Nat
      /\ 0 < TimeoutMs
  BY ClocksAreNumbers DEF Unhurried
<1>1. /\ UNCHANGED <<now, trig, drains, mon>>
      /\ Live(f) /\ fibers[f].pc # "idle" /\ fibers[f] \in FiberRecord
      /\ fibers \in [Fibers -> FiberRecord \cup {Idle}]
      /\ RunId(f) \in RunIds /\ fibers[f].t \in Triggers
      /\ runs \in [RunIds -> RunRecord \cup {NoRun}]
      /\ InTime(f)
  <2>1. /\ Live(f) /\ fibers[f].pc # "idle"
        /\ UNCHANGED <<now, trig, drains, mon>>
    BY DEF AcquireMore, Resume, StartRun, Settled, Running, storeVars, Live
  <2> QED
    BY <2>1, FiberFields DEF IInv, TypeOK, StoreTypeOK, TInv
<1>2. CASE AcquireMore(f) \/ Resume(f)
  BY <1>1, <1>2, NoPermits DEF AcquireMore, Resume, InTime
<1>3. CASE StartRun(f)
  <2> DEFINE r == [fibers[f] EXCEPT !.pc = "running", !.since = now]
             a == Attempt(fibers[f].snap)
             x == [status |-> "running", attempt |-> a, sched |-> fibers[f].sched,
                   beat |-> now]
  <2>1. fibers' = [fibers EXCEPT ![f] = r] /\ runs' = [runs EXCEPT ![RunId(f)] = x]
        /\ fibers[f].pc = "acquire"
    BY <1>n, <1>1, <1>3 DEF StartRun, RecordRunStart
  <2>2. /\ r.t = fibers[f].t /\ r.snap = fibers[f].snap /\ r.pc = "running" /\ r.since = now
        /\ x.status = "running" /\ x.beat = now /\ x # NoRun
    BY <1>1 DEF FiberRecord, NoRun
  <2> HIDE DEF r, x
  <2>3. /\ fibers'[f] = r /\ runs'[RunId(f)] = x
        /\ \A g \in Fibers : g # f => fibers'[g] = fibers[g]
        /\ \A i \in RunIds : i # RunId(f) => runs'[i] = runs[i]
    BY <1>1, <2>1
  <2>4. RunId(f)' = RunId(f)
    BY <2>2, <2>3 DEF RunId
  <2>5. Underway(RunId(f))' /\ fibers'[f].pc = "running"
    BY <2>2, <2>3, <2>4 DEF Underway
  <2>6. InTime(f)'
    <3>1. Exists(fibers[f].t) => trig[fibers[f].t].until >= now + LeaseMs
      BY <1>1, <2>1 DEF InTime
    <3>2. now <= now + TimeoutMs /\ now <= now
      BY <1>n
    <3> QED
      BY <1>1, <2>2, <2>3, <2>4, <2>5, <3>1, <3>2 DEF InTime, Exists
  <2> QED
    BY <1>1, <2>2, <2>3, <2>5, <2>6, RunRecords
<1>4. ASSUME NEW ok \in BOOLEAN, Settled(f, ok)
      PROVE  TInv'
  <2> DEFINE st == IF ok THEN "completed" ELSE "failed"
             r == [fibers[f] EXCEPT !.pc = "ended", !.since = 0, !.ok = ok]
             x == [runs[RunId(f)] EXCEPT !.status = st]
  <2>1. /\ fibers[f].pc = "running" /\ fibers' = [fibers EXCEPT ![f] = r]
        /\ runs[RunId(f)] # NoRun
    BY <1>1, <1>4 DEF Settled, Running, InTime, Underway
  <2>2. runs' = [runs EXCEPT ![RunId(f)] = x]
    BY <1>4, <2>1 DEF Settled, RecordRunEnd
  <2>3. /\ r.t = fibers[f].t /\ r.snap = fibers[f].snap /\ r.pc = "ended"
    BY <1>1 DEF FiberRecord
  <2>4. runs[RunId(f)] \in RunRecord /\ x.status # "running"
    BY <1>1, <2>1 DEF RunRecord
  <2> HIDE DEF r, x
  <2>5. /\ fibers'[f] = r /\ runs'[RunId(f)] = x
        /\ \A g \in Fibers : g # f => fibers'[g] = fibers[g]
        /\ \A i \in RunIds : i # RunId(f) => runs'[i] = runs[i]
    BY <1>1, <2>1, <2>2
  <2>6. RunId(f)' = RunId(f)
    BY <2>3, <2>5 DEF RunId
  <2>7. ~Underway(RunId(f))'
    BY <2>4, <2>5, <2>6 DEF Underway
  <2>8. InTime(f)'
    BY <2>3, <2>5, <2>7 DEF InTime
  <2> QED
    BY <1>1, <2>3, <2>5, <2>7, <2>8, RunRecords
<1> QED
  BY <1>2, <1>3, <1>4

\* A heartbeat makes no run late, and starts and ends none.
LEMMA TouchTime ==
    ASSUME IInv, TInv, NEW id, Touch(id)
    PROVE  TInv'
<1>1. UNCHANGED <<now, trig, drains, fibers, mon>>
  BY TouchEffects
<1>u. \A i \in RunIds : Underway(i)' <=> Underway(i)
  BY TouchEffects DEF Underway
<1>p. /\ \A t \in Triggers, n \in 1..MaxRuns : <<t, n>> \in RunIds
      /\ \A i \in RunIds, n \in 1..MaxRuns : <<i[1], n>> \in RunIds
  BY DEF RunIds
<1>s. \A i \in RunIds : Sole(i)' <=> Sole(i)
  BY <1>u, <1>p DEF Sole
<1>2. \A d \in Drains : JustClaimed(d)'
  BY <1>1 DEF TInv, JustClaimed, Exists
<1>3. ASSUME NEW f \in Fibers
      PROVE  InTime(f)'
  <2>1. CASE fibers[f].pc = "idle"
    BY <1>1, <2>1 DEF InTime
  <2>2. CASE fibers[f].pc # "idle"
    <3>1. RunId(f) \in RunIds /\ RunId(f)' = RunId(f) /\ InTime(f)
      BY <1>1, <2>2, FiberFields DEF TInv, RunId
    <3>2. fibers[f].pc = "running" =>
            runs'[RunId(f)].beat >= fibers[f].since
      BY <3>1, TouchEffects, ClocksAreNumbers DEF InTime, Underway
    <3> QED
      BY <1>1, <1>u, <3>1, <3>2 DEF InTime, Exists
  <2> QED
    BY <2>1, <2>2
<1>4. ASSUME NEW t \in Triggers, NEW n \in 1..MaxRuns
      PROVE  Followed(t, n)'
  <2> SUFFICES ASSUME Underway(<<t, n>>)
               PROVE  Followed(t, n)'
    BY <1>u, <1>p DEF Followed
  <2>1. Followed(t, n) /\ (Sole(<<t, n>>)' <=> Sole(<<t, n>>))
    BY <1>s, <1>p DEF TInv
  <2> QED
    BY <1>1, <2>1 DEF Followed, Exists, Live, RunId
<1>5. ASSUME NEW o \in Owners
      PROVE  MonitorsSole(o)'
  <2>1. MonitorsSole(o) /\ mon'[o] = mon[o]
    BY <1>1 DEF TInv
  <2>2. mon[o].pc # "idle" => \A x \in mon[o].todo : Sole(x.id)'
    <3>1. mon[o].pc # "idle" => \A x \in mon[o].todo : x.id \in RunIds
      BY MonFields DEF RunSnapshot
    <3> QED
      BY <1>s, <2>1, <3>1 DEF MonitorsSole
  <2>3. mon[o].pc = "end" => Sole(mon[o].run.id)'
    <3>1. ASSUME mon[o].pc = "end", NEW i \in RunIds, i = mon[o].run.id
          PROVE  Sole(i)'
      BY <1>s, <2>1, <3>1 DEF MonitorsSole
    <3>2. mon[o].pc = "end" => mon[o].run.id \in RunIds
      BY MonFields
    <3> QED
      BY <2>1, <3>1, <3>2 DEF Sole, Underway
  <2>4. mon[o].pc = "settle" => \A n \in 1..MaxRuns : ~Underway(<<mon[o].run.id[1], n>>)'
    <3>1. ASSUME mon[o].pc = "settle", NEW t \in Triggers, t = mon[o].run.id[1],
                 NEW n \in 1..MaxRuns
          PROVE  ~Underway(<<t, n>>)'
      BY <1>u, <1>p, <2>1, <3>1 DEF MonitorsSole
    <3>2. mon[o].pc = "settle" => mon[o].run.id[1] \in Triggers
      BY MonFields
    <3> QED
      BY <2>1, <3>1, <3>2 DEF Underway
  <2> QED
    BY <2>1, <2>2, <2>3, <2>4 DEF MonitorsSole
<1> QED
  BY <1>2, <1>3, <1>4, <1>5 DEF TInv

----------------------------------------------------------------------------
(* The stalled monitor, in time *)

\* A scan finds one run of a trigger at most.
LEMMA MonScanTime ==
    ASSUME IInv, TInv, NEW o \in Owners, MonScan(o)
    PROVE  TInv'
<1>1. /\ UNCHANGED <<now, trig, runs, drains, fibers>>
      /\ mon'[o] = Monitoring(StalledRuns(StalledAfter))
      /\ \A p \in Owners : p # o => mon'[p] = mon[p]
  BY DEF MonScan, storeVars, IInv, TypeOK
<1>2. ASSUME NEW x \in StalledRuns(StalledAfter)
      PROVE  Sole(x.id)
  <2>1. x.id \in RunIds /\ Underway(x.id)
    BY DEF StalledRuns, Underway
  <2>2. PICK t \in Triggers, n \in 1..MaxRuns : x.id = <<t, n>>
    BY <2>1 DEF RunIds
  <2> QED
    BY <2>1, <2>2 DEF TInv, Followed
<1>3. ASSUME NEW p \in Owners
      PROVE  MonitorsSole(p)'
  <2>1. CASE p = o
    <3>1. /\ mon'[p].pc \in {"idle", "next"}
          /\ mon'[p].pc # "idle" => mon'[p].todo = StalledRuns(StalledAfter)
      BY <1>1, <2>1 DEF Monitoring, Idle
    <3> QED
      BY <1>1, <1>2, <3>1 DEF MonitorsSole, Sole, Underway
  <2>2. CASE p # o
    BY <1>1, <2>2 DEF TInv, MonitorsSole, Sole, Underway
  <2> QED
    BY <2>1, <2>2
<1>4. \A t \in Triggers : RecordFollows(t)
  BY <1>1 DEF RecordFollows
<1> QED
  BY <1>1, <1>3, <1>4, TimeGoesOn

\* What a monitor has left to do.
LEMMA MonKeepsSole ==
    ASSUME IInv, TInv, NEW o \in Owners,
           MonGet(o) \/ MonForget(o) \/ MonSettle(o) \/ MonGivesUp(o) \/ MonRelease(o)
    PROVE  \A p \in Owners : MonitorsSole(p)'
<1>1. /\ mon[o].pc # "idle" /\ UNCHANGED runs
      /\ mon \in [Owners -> MonitorRecord \cup {Idle}] /\ mon[o] \in MonitorRecord
      /\ MonitorsSole(o)
  <2>1. mon[o].pc # "idle" /\ UNCHANGED runs
    BY DEF MonGet, MonForget, MonSettle, MonGivesUp, MonRelease, storeVars
  <2> QED
    BY <2>1, MonFields DEF TInv, IInv, TypeOK
<1>2. /\ \A p \in Owners : p # o => mon'[p] = mon[p]
  BY <1>1 DEF MonGet, MonForget, MonSettle, MonGivesUp, MonRelease
<1>s. \A i : Sole(i)' <=> Sole(i)
  BY <1>1 DEF Sole, Underway
<1>3. MonitorsSole(o)'
  <2>1. CASE MonGet(o)
    <3>1. PICK run \in mon[o].todo : mon' = [mon EXCEPT ![o] =
            IF run.id \in eng[o].handled THEN Monitoring(@.todo \ {run})
            ELSE [pc |-> "end", todo |-> @.todo \ {run}, run |-> run,
                  snap |-> trig[run.id[1]]]]
      BY <2>1 DEF MonGet
    <3>2. mon'[o] = IF run.id \in eng[o].handled THEN Monitoring(mon[o].todo \ {run})
                    ELSE [pc |-> "end", todo |-> mon[o].todo \ {run}, run |-> run,
                          snap |-> trig[run.id[1]]]
      BY <1>1, <3>1
    <3>3. /\ mon'[o].pc \in {"idle", "next", "end"}
          /\ mon'[o].pc # "idle" => mon'[o].todo = mon[o].todo \ {run}
          /\ mon'[o].pc = "end" => mon'[o].run = run
      BY <3>2 DEF Monitoring, Idle
    <3>4. \A x \in mon[o].todo : Sole(x.id)
      BY <1>1 DEF MonitorsSole
    <3>5. mon'[o].pc # "idle" => \A x \in mon'[o].todo : Sole(x.id)'
      BY <1>s, <3>3, <3>4
    <3>6. mon'[o].pc = "end" => Sole(mon'[o].run.id)
      BY <3>3, <3>4
    <3>7. mon'[o].pc = "end" => Sole(mon[o].run.id)'
      BY <3>6, <1>1 DEF Sole, Underway
    <3> QED
      BY <3>3, <3>5, <3>7 DEF MonitorsSole
  <2>2. CASE MonForget(o) \/ MonRelease(o)
    <3>1. mon'[o] = Monitoring(mon[o].todo)
      BY <1>1, <2>2 DEF MonForget, MonRelease
    <3>2. /\ mon'[o].pc \in {"idle", "next"}
          /\ mon'[o].pc # "idle" => mon'[o].todo = mon[o].todo
      BY <3>1 DEF Monitoring, Idle
    <3> QED
      BY <1>1, <1>s, <3>2 DEF MonitorsSole
  <2>3. CASE MonSettle(o)
    <3>1. mon'[o] = [mon[o] EXCEPT !.pc = "release"] /\ mon[o].pc = "settle"
      BY <1>1, <2>3 DEF MonSettle
    <3>2. mon'[o].pc = "release" /\ mon'[o].todo = mon[o].todo
      BY <1>1, <3>1 DEF MonitorRecord
    <3> QED
      BY <1>1, <1>s, <3>2 DEF MonitorsSole
  <2>4. CASE MonGivesUp(o)
    <3>1. mon'[o] = Idle
      BY <1>1, <2>4 DEF MonGivesUp
    <3> QED
      BY <3>1 DEF MonitorsSole, Idle
  <2> QED
    BY <2>1, <2>2, <2>3, <2>4
<1>4. ASSUME NEW p \in Owners, p # o
      PROVE  MonitorsSole(p)'
  <2>1. MonitorsSole(p) /\ mon'[p] = mon[p]
    BY <1>2, <1>4 DEF TInv
  <2> QED
    BY <1>1, <2>1 DEF MonitorsSole, Sole, Underway
<1> QED
  BY <1>3, <1>4

\* The monitor ends the only run on record as running of its trigger.
LEMMA MonRecordEndTime ==
    ASSUME IInv, LInv, TInv, NEW o \in Owners, MonRecordEnd(o)
    PROVE  TInv'
<1>1. /\ UNCHANGED <<now, trig, drains, fibers>>
      /\ mon[o].pc = "end" /\ mon[o].pc \notin {"idle", "next"} /\ mon[o] \in MonitorRecord
      /\ mon \in [Owners -> MonitorRecord \cup {Idle}]
      /\ runs \in [RunIds -> RunRecord \cup {NoRun}]
      /\ RecordRunEnd(mon[o].run.id, "stalled")
      /\ mon' = [mon EXCEPT ![o].pc = "settle"]
  BY MonFields DEF MonRecordEnd, IInv, TypeOK, StoreTypeOK
<1>2. PICK u \in Triggers, m \in 1..MaxRuns : mon[o].run.id = <<u, m>>
  BY <1>1, MonFields DEF RunIds
<1>3. <<u, m>> \in RunIds
  BY DEF RunIds
<1>4. /\ \A i \in RunIds : i # <<u, m>> => runs'[i] = runs[i]
      /\ ~Underway(<<u, m>>)'
  <2>1. CASE runs[<<u, m>>] = NoRun
    BY <1>1, <1>2, <2>1 DEF RecordRunEnd, Underway
  <2>2. CASE runs[<<u, m>>] # NoRun
    <3> DEFINE x == [runs[<<u, m>>] EXCEPT !.status = "stalled"]
    <3>1. runs' = [runs EXCEPT ![<<u, m>>] = x]
      BY <1>1, <1>2, <2>2 DEF RecordRunEnd
    <3>2. x.status # "running"
      BY <1>1, <1>3, <2>2 DEF RunRecord
    <3> HIDE DEF x
    <3> QED
      BY <1>1, <1>3, <3>1, <3>2 DEF Underway
  <2> QED
    BY <2>1, <2>2
<1>5. \A i \in RunIds : Underway(i)' => Underway(i)
  BY <1>4 DEF Underway
<1>p. \A t \in Triggers, n \in 1..MaxRuns : <<t, n>> \in RunIds
  BY DEF RunIds
<1>6. \A f \in Fibers : ~Runs(f, u)
  <2>1. Minds(o, u)
    BY <1>1, <1>2 DEF Minds
  <2> QED
    BY <2>1 DEF LInv, Single
<1>7. \A d \in Drains : JustClaimed(d)'
  BY <1>1 DEF TInv, JustClaimed, Exists
<1>8. ASSUME NEW f \in Fibers
      PROVE  InTime(f)'
  <2>1. CASE fibers[f].pc = "idle"
    BY <1>1, <2>1 DEF InTime
  <2>2. CASE fibers[f].pc # "idle"
    <3>1. RunId(f) \in RunIds /\ RunId(f)[1] = fibers[f].t /\ RunId(f)' = RunId(f) /\ InTime(f)
      BY <1>1, <2>2, FiberFields DEF TInv, RunId
    <3>2. RunId(f) # <<u, m>>
      BY <1>6, <2>2, <3>1 DEF Runs
    <3>3. runs'[RunId(f)] = runs[RunId(f)]
      BY <1>4, <3>1, <3>2
    <3> QED
      BY <1>1, <3>1, <3>3 DEF InTime, Exists, Underway
  <2> QED
    BY <2>1, <2>2
<1>9. ASSUME NEW t \in Triggers, NEW n \in 1..MaxRuns
      PROVE  Followed(t, n)'
  <2> SUFFICES ASSUME Underway(<<t, n>>)'
               PROVE  Followed(t, n)'
    BY DEF Followed
  <2>1. Underway(<<t, n>>) /\ Followed(t, n)
    BY <1>5, <1>p DEF TInv
  <2>2. Sole(<<t, n>>)'
    BY <1>5, <1>p, <2>1 DEF Followed, Sole
  <2>3. "crash" \notin Ops => \E f \in Fibers : fibers'[f].pc = "running" /\ RunId(f)' = <<t, n>>
    BY <1>1, <2>1 DEF Followed, RunId
  <2> QED
    BY <1>1, <2>1, <2>2, <2>3 DEF Followed, Exists, Live
<1>10. ASSUME NEW p \in Owners
       PROVE  MonitorsSole(p)'
  <2>s. \A i \in RunIds : Sole(i) => Sole(i)'
    <3>1. \A i \in RunIds, n \in 1..MaxRuns : <<i[1], n>> \in RunIds
      BY DEF RunIds
    <3> QED
      BY <1>5, <3>1 DEF Sole
  <2>1. MonitorsSole(p)
    BY DEF TInv
  <2>2. CASE p = o
    <3>1. /\ mon'[p].pc = "settle" /\ mon'[p].todo = mon[o].todo
          /\ mon'[p].run = mon[o].run
      <4>1. mon'[p] = [mon[o] EXCEPT !.pc = "settle"]
        BY <1>1, <2>2
      <4> QED
        BY <1>1, <4>1 DEF MonitorRecord
    <3>2. \A x \in mon[o].todo : Sole(x.id)'
      <4>1. \A x \in mon[o].todo : x.id \in RunIds
        BY <1>1, MonFields DEF RunSnapshot
      <4> QED
        BY <1>1, <2>1, <2>2, <2>s, <4>1 DEF MonitorsSole
    <3>3. \A n \in 1..MaxRuns : ~Underway(<<u, n>>)'
      <4>1. Sole(<<u, m>>)
        BY <1>1, <1>2, <2>1, <2>2 DEF MonitorsSole
      <4> QED
        BY <1>4, <1>5, <1>p, <4>1 DEF Sole
    <3>4. mon'[p].run.id[1] = u
      BY <1>2, <3>1
    <3> QED
      BY <3>1, <3>2, <3>3, <3>4 DEF MonitorsSole, Underway
  <2>3. CASE p # o
    <3>1. mon'[p] = mon[p]
      BY <1>1, <2>3
    <3>2. /\ mon[p].pc # "idle" => \A x \in mon[p].todo : x.id \in RunIds
          /\ mon[p].pc = "end" => mon[p].run.id \in RunIds
          /\ mon[p].pc = "settle" => mon[p].run.id[1] \in Triggers
      BY MonFields DEF RunSnapshot
    <3>3. mon[p].pc # "idle" => \A x \in mon[p].todo : Sole(x.id)'
      BY <2>1, <2>s, <3>2 DEF MonitorsSole
    <3>4. mon[p].pc = "end" => Sole(mon[p].run.id)'
      <4>1. ASSUME mon[p].pc = "end", NEW i \in RunIds, i = mon[p].run.id
            PROVE  Sole(i)'
        BY <2>1, <2>s, <4>1 DEF MonitorsSole
      <4>2. mon'[p].run.id = mon[p].run.id
        BY <3>1
      <4> QED
        BY <3>2, <4>1, <4>2 DEF Sole, Underway
    <3>5. mon[p].pc = "settle" => \A n \in 1..MaxRuns : ~Underway(<<mon[p].run.id[1], n>>)'
      <4>1. ASSUME mon[p].pc = "settle", NEW t \in Triggers, t = mon[p].run.id[1],
                   NEW n \in 1..MaxRuns
            PROVE  ~Underway(<<t, n>>)'
        BY <1>5, <1>p, <2>1, <4>1 DEF MonitorsSole
      <4>2. mon'[p].run = mon[p].run
        BY <3>1
      <4> QED
        BY <3>2, <4>1, <4>2 DEF Underway
    <3> QED
      BY <3>1, <3>3, <3>4, <3>5 DEF MonitorsSole
  <2> QED
    BY <2>2, <2>3
<1> QED
  BY <1>7, <1>8, <1>9, <1>10 DEF TInv

\* The monitor's other steps.
LEMMA MonStepTime ==
    ASSUME IInv, LInv, TInv, NEW o \in Owners, MonStep(o)
    PROVE  TInv'
<1>1. CASE MonRecordEnd(o)
  BY <1>1, MonRecordEndTime
<1>2. CASE MonGet(o)
  <2>1. UNCHANGED <<now, trig, runs, drains, fibers>>
    BY <1>2 DEF MonGet, storeVars
  <2>2. \A t \in Triggers : RecordFollows(t)
    BY <2>1 DEF RecordFollows
  <2>3. \A p \in Owners : MonitorsSole(p)'
    BY <1>2, MonKeepsSole
  <2> QED
    BY <2>1, <2>2, <2>3, TimeGoesOn
<1>3. CASE MonForget(o) \/ MonSettle(o) \/ MonGivesUp(o) \/ MonRelease(o)
  <2>1. /\ mon[o].pc \notin {"idle", "next"} /\ mon[o].run.id \in RunIds
        /\ UNCHANGED <<now, runs, drains>>
    BY <1>3, MonFields DEF MonForget, MonSettle, MonGivesUp, MonRelease, storeVars
  <2>2. PICK u \in Triggers : u = mon[o].run.id[1]
    BY <2>1, MonFields
  <2>3. \A f \in Fibers : fibers'[f] = fibers[f]
    <3>1. CASE MonForget(o) \/ MonSettle(o) \/ MonGivesUp(o)
      <4>1. fibers' = FibersWoken(o, mon[o].run.id)
        BY <3>1 DEF MonForget, MonSettle, MonGivesUp, GiveUpRun
      <4> QED
        BY <2>1, <4>1, NoneWoken
    <3>2. CASE MonRelease(o)
      BY <3>2 DEF MonRelease
    <3> QED
      BY <1>3, <3>1, <3>2
  <2>4. Minds(o, u) /\ Unnamed(u)'
    <3>1. Minds(o, u)
      BY <2>1, <2>2 DEF Minds
    <3>2. \A f \in Fibers : FiberGoesOn(f)
      BY <2>3 DEF FiberGoesOn
    <3> QED
      BY <2>1, <3>1, <3>2, MonIsAlone DEF Unattended
  <2>5. \A t \in Triggers : RecordFollows(t)
    <3>1. CASE UNCHANGED trig
      BY <3>1 DEF RecordFollows
    <3>2. CASE ReleaseTrigger(u, o)
      BY <2>4, <3>2, ReleaseFollows
    <3>3. CASE MonSettle(o)
      <4>1. \A n \in 1..MaxRuns : ~Underway(<<u, n>>)
        BY <2>2, <3>3 DEF MonSettle, TInv, MonitorsSole
      <4>2. \A t \in Triggers : t # u => trig'[t] = trig[t]
        BY <2>2, <3>3, SettleWrites, WritesOne DEF MonSettle
      <4> QED
        BY <2>4, <4>1, <4>2, WriteFollows
    <3> QED
      BY <1>3, <2>2, <3>1, <3>2, <3>3 DEF MonForget, MonGivesUp, MonRelease, storeVars
  <2>6. \A p \in Owners : MonitorsSole(p)'
    BY <1>3, MonKeepsSole
  <2> QED
    BY <2>1, <2>3, <2>5, <2>6, TimeGoesOn
<1> QED
  BY <1>1, <1>2, <1>3 DEF MonStep

----------------------------------------------------------------------------
(* Other steps, in time *)

\* A poll begins, or a new trigger is written.
LEMMA BeginsTime ==
    ASSUME IInv, LInv, TInv, Undisturbed, NEW o \in Owners,
           Tick(o) \/ \E t \in Triggers : Schedule(o, t) \/ ExecuteNow(o, t)
    PROVE  TInv'
<1>1. UNCHANGED <<now, runs, fibers, mon>>
  BY DEF Tick, Schedule, ExecuteNow, storeVars
<1>2. \A d \in Drains : drains'[d].pc = "decide" => drains'[d] = drains[d]
  <2>1. UNCHANGED drains \/ \E d \in Drains : \E at, due, poll :
            drains' = [drains EXCEPT ![d] = Claiming(o, at, due, poll)]
    <3>1. CASE Tick(o)
      <4>1. CASE UNCHANGED drains
        BY <4>1
      <4>2. CASE \E d \in Drains :
                    drains' = [drains EXCEPT ![d] = Claiming(o, now, ListDue(now), TRUE)]
        BY <4>2, Zenon
      <4> QED
        BY <3>1, <4>1, <4>2 DEF Tick
    <3>2. ASSUME NEW t \in Triggers, Schedule(o, t)
          PROVE  UNCHANGED drains
      BY <3>2 DEF Schedule
    <3>3. ASSUME NEW t \in Triggers, ExecuteNow(o, t)
          PROVE  \E d \in Drains : \E at, due, poll :
                    drains' = [drains EXCEPT ![d] = Claiming(o, at, due, poll)]
      <4> DEFINE m == NextRun(t, now)
                 due == {[t |-> t, snap |-> NewTrigger(m, NewId(t))]}
      <4>1. \E d \in Drains : drains' = [drains EXCEPT ![d] = Claiming(o, now, due, FALSE)]
        BY <3>3 DEF ExecuteNow
      <4> HIDE DEF m, due
      <4> QED
        BY <4>1, Zenon
    <3> QED
      BY <3>1, <3>2, <3>3
  <2>2. CASE UNCHANGED drains
    BY <2>2
  <2>3. ASSUME NEW d \in Drains, NEW at, NEW due, NEW poll,
               drains' = [drains EXCEPT ![d] = Claiming(o, at, due, poll)]
        PROVE  \A e \in Drains : drains'[e].pc = "decide" => drains'[e] = drains[e]
    <3> DEFINE r == Claiming(o, at, due, poll)
    <3>1. r.pc = "claim"
      BY DEF Claiming
    <3> HIDE DEF r
    <3>2. drains'[d] = r /\ \A e \in Drains : e # d => drains'[e] = drains[e]
      BY <2>3 DEF r, IInv, TypeOK
    <3> QED
      BY <3>1, <3>2
  <2> QED
    BY <2>1, <2>2, <2>3
<1>3. \A t \in Triggers : RecordFollows(t)
  <2>1. CASE Tick(o)
    BY <2>1 DEF Tick, storeVars, RecordFollows
  <2>2. ASSUME NEW t \in Triggers, Schedule(o, t) \/ ExecuteNow(o, t)
        PROVE  \A x \in Triggers : RecordFollows(x)
    <3>1. ids[t] = 0
      BY <2>2 DEF Schedule, ExecuteNow, Happens, Undisturbed
    <3>2. /\ ~Drained(t) /\ \A f \in Fibers : ~Runs(f, t)
          /\ \A n \in 1..MaxRuns : runs[<<t, n>>] = NoRun
      BY <3>1 DEF LInv, Known
    <3>3. Unnamed(t)'
      <4>1. \A d \in Drains : drains'[d].pc = "decide" => drains'[d].cur.t # t
        BY <1>2, <3>2 DEF Drained, Handles
      <4>2. \A f \in Fibers : Live(f)' => fibers'[f].t # t
        BY <1>1, <3>2 DEF Live, Runs
      <4> QED
        BY <4>1, <4>2 DEF Unnamed
    <3>4. \A n \in 1..MaxRuns : ~Underway(<<t, n>>)
      BY <3>2 DEF Underway
    <3>5. \A x \in Triggers : x # t => trig'[x] = trig[x]
      <4>1. \E r : GenerateRunId(t) /\ UpsertTrigger(t, r)
        BY <2>2 DEF Schedule, ExecuteNow
      <4> QED
        BY <4>1, WritesOne
    <3> QED
      BY <3>3, <3>4, <3>5, WriteFollows
  <2> QED
    BY <2>1, <2>2
<1>4. \A p \in Owners : MonitorsSole(p)'
  BY <1>1, MonitorsStay
<1> QED
  BY <1>1, <1>2, <1>3, <1>4, TimeGoesOn

\* The API's other calls write no record but to delete it.
LEMMA CallTime ==
    ASSUME IInv, LInv, TInv,
           \/ \E o \in Owners : \/ PauseAll(o) \/ ResumeAll(o) \/ Shutdown(o) \/ Restart(o)
                                \/ \E j \in Jobs : UnregisterJob(o, j)
           \/ \E j \in Jobs, b \in BOOLEAN : PauseJob(j, b)
           \/ \E op \in {"pause", "resume", "cancel"}, t \in Triggers : EditGet(op, t)
           \/ EditPut
           \/ \E s \in strays : StrayEnds(s)
           \/ UNCHANGED vars
    PROVE  TInv'
<1>1. UNCHANGED <<now, runs, drains, fibers, mon>>
  BY DEF PauseAll, ResumeAll, Shutdown, Restart, UnregisterJob, PauseJob, EditGet,
         EditPut, StrayEnds, storeVars, vars
<1>2. \A t \in Triggers : RecordFollows(t)
  <2>1. CASE EditPut
    <3>1. DeleteTrigger(edit.t)
      BY <2>1 DEF EditPut, LInv, EditsCancel
    <3> QED
      BY <3>1 DEF DeleteTrigger, RecordFollows, IInv, TypeOK, StoreTypeOK
  <2>2. CASE UNCHANGED trig
    BY <2>2 DEF RecordFollows
  <2> QED
    BY <2>1, <2>2 DEF PauseAll, ResumeAll, Shutdown, Restart, UnregisterJob, PauseJob,
                      EditGet, StrayEnds, storeVars, vars
<1>3. \A p \in Owners : MonitorsSole(p)'
  BY <1>1, MonitorsStay
<1> QED
  BY <1>1, <1>2, <1>3, TimeGoesOn

\* What a crash ends it takes from nobody else.
LEMMA CrashTime ==
    ASSUME IInv, TInv, NEW o \in Owners, Crash(o)
    PROVE  TInv'
<1>1. UNCHANGED <<now, trig, runs>> /\ "crash" \in Ops
  BY DEF Crash, Happens, storeVars
<1>2. \A d \in Drains : drains'[d].pc = "decide" => drains'[d] = drains[d]
  BY DEF Crash, Idle
<1>3. \A f \in Fibers : fibers'[f] = fibers[f] \/ fibers'[f].pc \in {"idle", "release"}
  BY DEF Crash, Idle
<1>4. \A p \in Owners : mon'[p] = Idle \/ mon'[p] = mon[p]
  BY DEF Crash, IInv, TypeOK
<1>5. ASSUME NEW p \in Owners
      PROVE  MonitorsSole(p)'
  BY <1>1, <1>4 DEF TInv, MonitorsSole, Sole, Underway, Idle
<1>6. \A t \in Triggers : RecordFollows(t)
  BY <1>1 DEF RecordFollows
<1> QED
  BY <1>1, <1>2, <1>3, <1>5, <1>6, TimeGoesOn

\* The timeout ends a handler before the clock moves past it.
LEMMA AdvanceTime ==
    ASSUME IInv, TInv, Undisturbed, Unhurried, Advance
    PROVE  TInv'
<1>n. /\ now \in Nat /\ LeaseMs \in Nat /\ TimeoutMs \in Nat
      /\ \A f \in Fibers : fibers[f].pc # "idle" => fibers[f].since \in Nat
      /\ 0 < TimeoutMs
  BY ClocksAreNumbers DEF Unhurried
<1>1. /\ Quiet /\ UNCHANGED <<trig, runs, drains, fibers, mon>>
      /\ now' = now + 1 /\ \A f \in Fibers : ~TimeoutDue(f)
  BY DEF Advance, Undisturbed, TimerMayFire, storeVars
<1>2. \A d \in Drains : JustClaimed(d)'
  BY <1>1 DEF Quiet, JustClaimed, Idle
<1>3. ASSUME NEW f \in Fibers
      PROVE  InTime(f)'
  <2>1. InTime(f) /\ fibers[f].pc \in {"idle", "waiting", "running"} /\ RunId(f)' = RunId(f)
    BY <1>1 DEF TInv, Quiet, RunId
  <2>2. fibers[f].pc = "running" => /\ fibers[f].since <= now + 1
                                    /\ now + 1 <= fibers[f].since + TimeoutMs
    <3> SUFFICES ASSUME fibers[f].pc = "running"
                 PROVE  /\ fibers[f].since <= now + 1
                        /\ now + 1 <= fibers[f].since + TimeoutMs
      OBVIOUS
    <3>1. fibers[f].since \in Nat /\ fibers[f].since <= now
      BY <1>n, <2>1 DEF InTime
    <3>2. ~(now >= fibers[f].since + TimeoutMs)
      BY <1>n, <1>1 DEF TimeoutDue, Running
    <3> QED
      BY <1>n, <3>1, <3>2
  <2> QED
    BY <1>1, <2>1, <2>2 DEF InTime, Exists, Underway
<1>4. \A t \in Triggers, n \in 1..MaxRuns : Followed(t, n)'
  BY <1>1 DEF TInv, Followed, Sole, Underway, Exists, Live, RunId
<1>5. \A p \in Owners : MonitorsSole(p)'
  BY <1>1, MonitorsStay
<1> QED
  BY <1>2, <1>3, <1>4, <1>5 DEF TInv

\* No run is on record at first.
LEMMA InitTInv == Init => TInv
<1> SUFFICES ASSUME Init
             PROVE  TInv
  OBVIOUS
<1>1. \A i \in RunIds : ~Underway(i)
  BY DEF Init, Underway
<1>2. \A t \in Triggers, n \in 1..MaxRuns : Followed(t, n)
  BY <1>1 DEF Followed, RunIds
<1>3. /\ \A d \in Drains : JustClaimed(d)
      /\ \A f \in Fibers : InTime(f)
      /\ \A o \in Owners : MonitorsSole(o)
  BY DEF Init, Idle, JustClaimed, InTime, MonitorsSole
<1> QED
  BY <1>2, <1>3 DEF TInv

\* No action is late for a lease or for the monitor.
LEMMA StepTInv ==
    ASSUME Undisturbed, Unhurried
    PROVE  IInv /\ LInv /\ TInv /\ [Next]_vars => TInv'
<1> SUFFICES ASSUME IInv, LInv, TInv, [Next]_vars
             PROVE  TInv'
  OBVIOUS
<1>1. ASSUME NEW o \in Owners,
             Tick(o) \/ \E t \in Triggers : Schedule(o, t) \/ ExecuteNow(o, t)
      PROVE  TInv'
  BY <1>1, BeginsTime
<1>2. ASSUME NEW o \in Owners, MonScan(o) \/ MonStep(o) PROVE TInv'
  BY <1>2, MonScanTime, MonStepTime
<1>3. ASSUME NEW o \in Owners, Crash(o) PROVE TInv'
  BY <1>3, CrashTime
<1>4. ASSUME NEW d \in Drains, DrainStep(d) PROVE TInv'
  BY <1>4, DrainClaimTime, DrainGivesBackTime, DrainDispatchTime DEF DrainStep
<1>5. ASSUME NEW f \in Fibers,
             FiberStep(f) \/ TimesOut(f) \/ \E ok \in BOOLEAN : Finish(f, ok)
      PROVE  TInv'
  <2>1. FiberStep(f) \/ \E ok \in BOOLEAN : Settled(f, ok)
    BY <1>5 DEF TimesOut, Finish
  <2> QED
    BY <2>1, RunTime, RunEndsTime DEF FiberStep
<1>6. CASE \/ \E o \in Owners : \/ PauseAll(o) \/ ResumeAll(o) \/ Shutdown(o) \/ Restart(o)
                                \/ \E j \in Jobs : UnregisterJob(o, j)
           \/ \E j \in Jobs, b \in BOOLEAN : PauseJob(j, b)
           \/ \E op \in {"pause", "resume", "cancel"}, t \in Triggers : EditGet(op, t)
           \/ EditPut
           \/ \E s \in strays : StrayEnds(s)
           \/ UNCHANGED vars
  BY <1>6, CallTime
<1>7. CASE Advance
  BY <1>7, AdvanceTime
<1>8. ASSUME NEW id \in Executing, Touch(id) PROVE TInv'
  BY <1>8, TouchTime
<1> QED
  BY <1>1, <1>2, <1>3, <1>4, <1>5, <1>6, <1>7, <1>8 DEF Next, Call

\* All handlers heed their signal, so that none outlives its run.
LEMMA StraysStem ==
    ASSUME [Next]_vars
    PROVE  \/ strays' \subseteq strays
           \/ \E f \in Fibers :
                 /\ TimesOut(f) /\ Happens("stray")
                 /\ strays' = strays \cup {[o |-> fibers[f].o, id |-> RunId(f)]}
<1>1. ASSUME NEW o \in Owners, Tick(o) \/ MonScan(o) \/ MonStep(o) \/ Crash(o) \/ Restart(o)
      PROVE  strays' \subseteq strays
  BY <1>1 DEF Tick, MonScan, MonStep, MonGet, MonForget, MonRecordEnd, MonSettle,
              MonGivesUp, MonRelease, Crash, Restart
<1>2. ASSUME NEW d \in Drains, DrainStep(d)
      PROVE  strays' \subseteq strays
  BY <1>2 DEF DrainStep, DrainClaim, DrainJobMissing, DrainSkip, DrainGivesUp,
              DrainDispatch, DrainRelease
<1>3. ASSUME NEW f \in Fibers, FiberStep(f) \/ \E ok \in BOOLEAN : Finish(f, ok)
      PROVE  strays' \subseteq strays
  BY <1>3 DEF FiberStep, AcquireMore, Resume, StartRun, WrapHandled, Wrap, WrapGivesUp,
              ReleaseLease, Finish
<1>4. ASSUME NEW f \in Fibers, TimesOut(f)
      PROVE  \/ strays' \subseteq strays
             \/ /\ TimesOut(f) /\ Happens("stray")
                /\ strays' = strays \cup {[o |-> fibers[f].o, id |-> RunId(f)]}
  BY <1>4 DEF TimesOut
<1>5. CASE Call
  BY <1>5 DEF Call, PauseAll, ResumeAll, Shutdown, Schedule, ExecuteNow, UnregisterJob,
              PauseJob, EditGet, EditPut
<1>6. CASE Advance \/ (\E id \in Executing : Touch(id)) \/ UNCHANGED vars
  BY <1>6 DEF Advance, Touch, vars
<1>7. CASE \E s \in strays : StrayEnds(s)
  BY <1>7 DEF StrayEnds
<1> QED
  BY <1>1, <1>2, <1>3, <1>4, <1>5, <1>6, <1>7 DEF Next

LEMMA StepNoStrays ==
    ASSUME "stray" \notin Ops
    PROVE  strays = {} /\ [Next]_vars => strays' = {}
BY StraysStem DEF Happens

LEMMA NoStrays ==
    ASSUME "stray" \notin Ops
    PROVE  Spec => [](strays = {})
<1> DEFINE None == strays = {}
<1>1. Init => None
  BY DEF Init
<1>2. None /\ [Next]_vars => None'
  BY StepNoStrays
<1>3. Spec => []None
  <2> HIDE DEF None
  <2> QED
    BY <1>1, <1>2, PTL DEF Spec
<1> QED
  BY <1>3

\* No two handlers of a trigger execute at once, those that have outlived their
\* runs included.
HandlersExclude ==
    /\ OneRunEach
    /\ \A s \in strays :
          /\ \A f \in Fibers : Running(f) => fibers[f].t # s.id[1]
          /\ \A r \in strays : r.id[1] = s.id[1] => r = s

\* The same from the configuration alone: without semaphores, and with a
\* timeoutMs shorter than the lease and the monitor's patience, no two runs of
\* a trigger are open at once, whatever the handlers, the polls, the monitor
\* and the client do, and also over crashes and restarts unless occurrences may
\* be skipped.  That is of the engines' runs, which a timeout ends: no two
\* handlers of a trigger execute at once if they heed the signal that aborts
\* them.
THEOREM TimelyRunsAreExclusive ==
    ASSUME Undisturbed, Unhurried
    PROVE  /\ Spec => []OneRunEach
           /\ "stray" \notin Ops => (Spec => []HandlersExclude)
<1>1. Init => IInv /\ LInv /\ TInv
  BY InitIInv, InitLInv, InitTInv
<1>2. IInv /\ LInv /\ TInv /\ [Next]_vars => IInv' /\ LInv' /\ TInv'
  BY StepIInv, StepLInv, StepTInv, InTimeSpares
<1>3. IInv /\ LInv => OneRunEach
  BY SingleRun
<1>4. Spec => []OneRunEach
  BY <1>1, <1>2, <1>3, PTL DEF Spec
<1>5. ASSUME "stray" \notin Ops
      PROVE  Spec => []HandlersExclude
  <2>1. Spec => [](strays = {})
    BY <1>5, NoStrays
  <2>2. OneRunEach /\ strays = {} => HandlersExclude
    BY DEF HandlersExclude
  <2> QED
    BY <1>4, <2>1, <2>2, PTL
<1> QED
  BY <1>4, <1>5

\* From the configuration alone, too, every run holds its trigger's lease from
\* the claim to the write that ends it, unless a client cancels the trigger.
THEOREM TimelyRunsAreLeased ==
    ASSUME Undisturbed, Unhurried, "cancel" \notin Ops
    PROVE  Spec => []RunHoldsLease
<1>1. Init => IInv /\ LInv /\ TInv
  BY InitIInv, InitLInv, InitTInv
<1>2. IInv /\ LInv /\ TInv /\ [Next]_vars => IInv' /\ LInv' /\ TInv'
  BY StepIInv, StepLInv, StepTInv, InTimeSpares
<1>3. LeaseMs \in Nat /\ TimeoutMs \in Nat
  BY SchedulerAssumption
<1>4. LeaseMs > 0
  BY <1>3 DEF Unhurried
<1>5. IInv /\ LInv /\ TInv => RunHoldsLease
  BY <1>4, RunOwnsLease, InTimeSpares
<1> QED
  BY <1>1, <1>2, <1>5, PTL DEF Spec

----------------------------------------------------------------------------
(* Without crashes nothing is taken up twice.                              *)
(*                                                                         *)
(* A run id names one run: the record goes on to an id that has never been *)
(* used, and a drain or a run that has not started its handler goes by an  *)
(* id under which nothing is recorded.  So a run is started once, and its  *)
(* end is recorded by the one fiber that executes it.                      *)

NotRun(t, n) == runs[<<t, n>>] = NoRun

\* No record and no run has an id that has not been generated yet.
Dated(t) ==
    /\ Exists(t) => trig[t].rid <= ids[t]
    /\ \A n \in 1..MaxRuns : ~NotRun(t, n) => n <= ids[t]

\* A trigger that has no run names one that has not been.
Awaiting(t) ==
    Exists(t) /\ (\A f \in Fibers : Live(f) => fibers[f].t # t)
        => NotRun(t, trig[t].rid)

DecidesNew(d) ==
    drains[d].pc = "decide" =>
        /\ drains[d].cur.snap.rid <= ids[drains[d].cur.t]
        /\ NotRun(drains[d].cur.t, drains[d].cur.snap.rid)

Prior(f) == fibers[f].pc \in {"acquire", "waiting", "woken"}

RunsNew(f) ==
    Live(f) =>
        /\ fibers[f].snap.rid <= ids[fibers[f].t]
        /\ Prior(f) => NotRun(fibers[f].t, fibers[f].snap.rid)
        /\ fibers[f].pc = "running" => Underway(RunId(f))

\* A run on record as running is being executed.
Manned(i) ==
    Underway(i) => \E f \in Fibers : fibers[f].pc = "running" /\ RunId(f) = i

Unhandled == \A o \in Owners : eng[o].handled = {}

OInv ==
    /\ \A t \in Triggers : Dated(t) /\ Awaiting(t)
    /\ \A d \in Drains : DecidesNew(d)
    /\ \A f \in Fibers : RunsNew(f)
    /\ \A i \in RunIds : Manned(i)
    /\ MonitorsRest /\ Unhandled

----------------------------------------------------------------------------
(* What is written of a trigger *)

RecordFalls(t) == trig'[t] = NoTrigger /\ ids'[t] = ids[t]

RecordLasts(t) ==
    /\ Exists(t) /\ trig'[t] # NoTrigger
    /\ trig'[t].rid = trig[t].rid /\ trig'[t].next = trig[t].next
    /\ ids'[t] = ids[t]

RecordRenews(t) ==
    /\ trig'[t] # NoTrigger
    /\ trig'[t].rid = ids[t] + 1 /\ ids'[t] = ids[t] + 1

\* The record goes, stays but for its lease, or goes on to a new run.
RecordSteps(t) == RecordFalls(t) \/ RecordLasts(t) \/ RecordRenews(t)

\* Nothing is written,
LEMMA RecordKept ==
    ASSUME NEW t \in Triggers, trig'[t] = trig[t], ids'[t] = ids[t]
    PROVE  RecordSteps(t)
BY DEF RecordSteps, RecordFalls, RecordLasts, Exists

\* a lease,
LEMMA LeaseWritten ==
    ASSUME IInv, NEW u \in Triggers, NEW o, UNCHANGED ids,
           \/ ReleaseTrigger(u, o)
           \/ Claimable(u, o) /\ ClaimTrigger(u, o, LeaseMs)
    PROVE  \A t \in Triggers : RecordSteps(t)
<1>1. trig \in [Triggers -> TriggerRecord \cup {NoTrigger}]
  BY DEF IInv, TypeOK, StoreTypeOK
<1>2. PICK w, n : \/ trig' = trig
                  \/ /\ Exists(u)
                     /\ trig' = [trig EXCEPT ![u] =
                                    [@ EXCEPT !.owner = w, !.until = n]]
  BY DEF ReleaseTrigger, ClaimTrigger, Claimable
<1>3. CASE trig' = trig
  BY <1>3, RecordKept
<1>4. CASE /\ Exists(u)
           /\ trig' = [trig EXCEPT ![u] = [@ EXCEPT !.owner = w, !.until = n]]
  <2> DEFINE r == [trig[u] EXCEPT !.owner = w, !.until = n]
  <2>1. trig[u] \in TriggerRecord
    BY <1>1, <1>4 DEF Exists
  <2>2. r.rid = trig[u].rid /\ r.next = trig[u].next /\ r.next \in Nat
    BY <2>1 DEF TriggerRecord
  <2>3. trig'[u] = r /\ \A t \in Triggers : t # u => trig'[t] = trig[t]
    BY <1>1, <1>4
  <2> HIDE DEF r
  <2>4. r # NoTrigger
    BY <2>2 DEF NoTrigger
  <2>5. RecordSteps(u)
    BY <1>4, <2>2, <2>3, <2>4 DEF RecordSteps, RecordLasts
  <2> QED
    BY <2>3, <2>5, RecordKept
<1> QED
  BY <1>2, <1>3, <1>4

\* the deletion,
LEMMA DeletionWritten ==
    ASSUME IInv, NEW u \in Triggers, DeleteTrigger(u), UNCHANGED ids
    PROVE  \A t \in Triggers : RecordSteps(t)
<1>1. trig'[u] = NoTrigger /\ \A t \in Triggers : t # u => trig'[t] = trig[t]
  BY DEF IInv, TypeOK, StoreTypeOK, DeleteTrigger
<1>2. RecordSteps(u)
  BY <1>1 DEF RecordSteps, RecordFalls
<1> QED
  BY <1>1, <1>2, RecordKept

\* or a record with an id of its own.
LEMMA RenewalWritten ==
    ASSUME IInv, NEW u \in Triggers, NEW r, GenerateRunId(u), UpsertTrigger(u, r),
           r.rid = NewId(u), r.next \in Nat
    PROVE  /\ \A t \in Triggers : RecordSteps(t)
           /\ RecordRenews(u) /\ trig'[u] = r
           /\ \A t \in Triggers : t # u => trig'[t] = trig[t]
<1>1. /\ trig'[u] = r /\ ids'[u] = ids[u] + 1
      /\ \A t \in Triggers : t # u => trig'[t] = trig[t] /\ ids'[t] = ids[t]
  BY DEF IInv, TypeOK, StoreTypeOK, UpsertTrigger, GenerateRunId, NewId
<1>2. r # NoTrigger
  BY DEF NoTrigger
<1>3. RecordRenews(u)
  BY <1>1, <1>2 DEF RecordRenews, NewId
<1> QED
  BY <1>1, <1>3, RecordKept DEF RecordSteps

\* A record is written over with another time, run and failure count.
LEMMA RecordUpdated ==
    ASSUME NEW r \in TriggerRecord, NEW n, NEW i, NEW k
    PROVE  /\ [r EXCEPT !.next = n, !.rid = i, !.fail = k].next = n
           /\ [r EXCEPT !.next = n, !.rid = i, !.fail = k].rid = i
BY DEF TriggerRecord

\* The end of a run.
LEMMA SettlementWritten ==
    ASSUME IInv, NEW u \in Triggers, NEW r \in TriggerRecord, NEW retry,
           NEW n, Settle(u, r, retry, n)
    PROVE  /\ \A t \in Triggers : RecordSteps(t)
           /\ RecordFalls(u) \/ RecordRenews(u)
           /\ RecordRenews(u) =>
                \/ trig'[u].next = now + RetryDelay
                \/ n \in Nat /\ trig'[u].next = n
           /\ \A t \in Triggers : t # u => trig'[t] = trig[t]
<1>n. now \in Nat /\ RetryDelay \in Nat
  BY SchedulerAssumption DEF IInv, TypeOK, StoreTypeOK
<1> DEFINE later == now + RetryDelay
           more == r.fail + 1
           x == [r EXCEPT !.next = later, !.rid = NewId(u), !.fail = more]
           y == [r EXCEPT !.next = n, !.rid = NewId(u), !.fail = 0]
<1>0. later \in Nat
  BY <1>n
<1>1. \/ GenerateRunId(u) /\ UpsertTrigger(u, x)
      \/ n \in Nat /\ GenerateRunId(u) /\ UpsertTrigger(u, y)
      \/ DeleteTrigger(u) /\ UNCHANGED ids
  BY DEF Settle
<1> HIDE DEF later, more
<1>2. x.next = later /\ x.rid = NewId(u) /\ y.next = n /\ y.rid = NewId(u)
  BY RecordUpdated
<1> HIDE DEF x, y
<1>3. CASE GenerateRunId(u) /\ UpsertTrigger(u, x)
  BY <1>0, <1>2, <1>3, RenewalWritten DEF later
<1>4. CASE n \in Nat /\ GenerateRunId(u) /\ UpsertTrigger(u, y)
  BY <1>2, <1>4, RenewalWritten
<1>5. CASE DeleteTrigger(u) /\ UNCHANGED ids
  <2>1. trig'[u] = NoTrigger /\ \A t \in Triggers : t # u => trig'[t] = trig[t]
    BY <1>5 DEF IInv, TypeOK, StoreTypeOK, DeleteTrigger
  <2> QED
    BY <1>5, <2>1, DeletionWritten DEF RecordFalls, RecordRenews
<1> QED
  BY <1>1, <1>3, <1>4, <1>5

----------------------------------------------------------------------------
(* Steps in which no run starts or ends *)

\* A run goes on, or is over.
FiberHolds(f) ==
    /\ Live(f)' => /\ Live(f)
                   /\ fibers'[f].t = fibers[f].t /\ fibers'[f].snap = fibers[f].snap
    /\ Prior(f)' => Prior(f)
    /\ fibers'[f].pc = "running" <=> fibers[f].pc = "running"

\* A run begins.
FiberBegins(f) == ~Live(f) /\ Prior(f)' /\ RunsNew(f)'

\* A run that is over has made way for the next one.
Yields(f) ==
    Live(f) /\ ~Live(f)' => RecordFalls(fibers[f].t) \/ RecordRenews(fibers[f].t)

\* Ids are numbers, and grow.
LEMMA IdsGrow ==
    ASSUME IInv, NEW t \in Triggers, RecordSteps(t)
    PROVE  /\ ids[t] \in Nat /\ ids'[t] \in Nat /\ ids[t] <= ids'[t]
           /\ Exists(t) => trig[t].rid \in 1..MaxRuns
<1>1. ids[t] \in Nat
  BY DEF IInv, TypeOK
<1>2. Exists(t) => trig[t] \in TriggerRecord
  BY DEF IInv, TypeOK, StoreTypeOK, Exists
<1> QED
  BY <1>1, <1>2 DEF TriggerRecord, RecordSteps, RecordFalls, RecordLasts, RecordRenews

LEMMA OnceGoesOn ==
    ASSUME IInv, IInv', OInv, UNCHANGED <<runs, mon>>, Unhandled',
           \A t \in Triggers : RecordSteps(t),
           \A d \in Drains : DrainGoesOn(d) \/ DecidesNew(d)',
           \A f \in Fibers : (FiberHolds(f) /\ Yields(f)) \/ FiberBegins(f)
    PROVE  OInv'
<1>1. ASSUME NEW t \in Triggers
      PROVE  Dated(t)' /\ Awaiting(t)'
  <2>1. /\ ids[t] \in Nat /\ ids'[t] \in Nat /\ ids[t] <= ids'[t]
        /\ Exists(t) => trig[t].rid \in 1..MaxRuns
    BY IdsGrow
  <2>2. Dated(t) /\ Awaiting(t)
    BY DEF OInv
  <2>3. ASSUME NEW n \in 1..MaxRuns, ~NotRun(t, n)' PROVE n <= ids'[t]
    <3>1. n <= ids[t]
      BY <2>2, <2>3 DEF Dated, NotRun
    <3> QED
      BY <2>1, <3>1
  <2>4. Exists(t)' => trig'[t].rid <= ids'[t]
    BY <2>1, <2>2 DEF Dated, Exists, RecordSteps, RecordFalls, RecordLasts, RecordRenews
  <2>5. ASSUME Exists(t)', \A f \in Fibers : Live(f)' => fibers'[f].t # t
        PROVE  runs'[<<t, trig'[t].rid>>] = NoRun
    <3>1. CASE RecordLasts(t)
      <4>1. ASSUME NEW f \in Fibers, Live(f), fibers[f].t = t PROVE FALSE
        <5>1. FiberHolds(f) /\ Yields(f)
          BY <4>1 DEF FiberBegins
        <5>2. CASE Live(f)'
          BY <2>5, <4>1, <5>1, <5>2 DEF FiberHolds
        <5>3. CASE ~Live(f)'
          BY <2>1, <3>1, <4>1, <5>1, <5>3 DEF Yields, RecordFalls, RecordRenews, RecordLasts
        <5> QED
          BY <5>2, <5>3
      <4>2. NotRun(t, trig[t].rid)
        BY <2>2, <3>1, <4>1 DEF Awaiting, RecordLasts
      <4> QED
        BY <3>1, <4>2 DEF RecordLasts, NotRun
    <3>2. CASE RecordRenews(t)
      <4>1. trig'[t].rid = ids[t] + 1 /\ trig'[t].rid \in 1..MaxRuns
        <5>1. trig'[t] \in TriggerRecord
          BY <2>5 DEF IInv, TypeOK, StoreTypeOK, Exists
        <5> QED
          BY <3>2, <5>1 DEF RecordRenews, TriggerRecord
      <4>2. ~(trig'[t].rid <= ids[t])
        BY <2>1, <4>1
      <4> QED
        BY <2>2, <4>1, <4>2 DEF Dated, NotRun
    <3> QED
      BY <2>5, <3>1, <3>2 DEF RecordSteps, RecordFalls, Exists
  <2> QED
    BY <2>3, <2>4, <2>5 DEF Dated, Awaiting, Exists, NotRun
<1>2. ASSUME NEW d \in Drains
      PROVE  DecidesNew(d)'
  <2> SUFFICES ASSUME DrainGoesOn(d), drains'[d].pc = "decide"
               PROVE  DecidesNew(d)'
    BY DEF DecidesNew
  <2>1. drains[d].pc = "decide" /\ drains'[d].cur = drains[d].cur
    BY DEF DrainGoesOn
  <2>2. /\ drains[d].cur.t \in Triggers /\ drains[d].cur.snap.rid \in 1..MaxRuns
    BY <2>1, DrainFields DEF TriggerRecord
  <2>3. /\ drains[d].cur.snap.rid <= ids[drains[d].cur.t]
        /\ NotRun(drains[d].cur.t, drains[d].cur.snap.rid)
    BY <2>1 DEF OInv, DecidesNew
  <2>4. drains[d].cur.snap.rid <= ids'[drains[d].cur.t]
    BY <2>2, <2>3, IdsGrow
  <2> QED
    BY <2>1, <2>3, <2>4 DEF DecidesNew, NotRun
<1>3. ASSUME NEW f \in Fibers
      PROVE  RunsNew(f)'
  <2> SUFFICES ASSUME FiberHolds(f), Live(f)'
               PROVE  RunsNew(f)'
    BY DEF RunsNew, FiberBegins
  <2>1. /\ Live(f) /\ fibers'[f].t = fibers[f].t /\ fibers'[f].snap = fibers[f].snap
        /\ RunsNew(f)
    BY DEF FiberHolds, OInv
  <2>2. fibers[f].t \in Triggers /\ fibers[f].snap.rid \in 1..MaxRuns
    BY <2>1, FiberFields DEF Live, TriggerRecord
  <2>3. fibers[f].snap.rid <= ids'[fibers[f].t]
    BY <2>1, <2>2, IdsGrow DEF RunsNew
  <2> QED
    BY <2>1, <2>3 DEF RunsNew, FiberHolds, NotRun, Underway, RunId
<1>4. ASSUME NEW i \in RunIds
      PROVE  Manned(i)'
  <2> SUFFICES ASSUME Underway(i)
               PROVE  \E f \in Fibers : fibers'[f].pc = "running" /\ RunId(f)' = i
    BY DEF Manned, Underway
  <2>1. PICK f \in Fibers : fibers[f].pc = "running" /\ RunId(f) = i
    BY DEF OInv, Manned
  <2>2. FiberHolds(f)
    BY <2>1 DEF FiberBegins, Live
  <2>3. fibers'[f].pc = "running" /\ RunId(f)' = i
    BY <2>1, <2>2 DEF FiberHolds, Live, RunId
  <2> QED
    BY <2>3
<1>5. MonitorsRest'
  BY DEF OInv, MonitorsRest
<1> QED
  BY <1>1, <1>2, <1>3, <1>4, <1>5 DEF OInv

\* Who is left as it was holds.
LEMMA FibersHold ==
    ASSUME UNCHANGED fibers
    PROVE  \A f \in Fibers : FiberHolds(f) /\ Yields(f)
BY DEF FiberHolds, Yields, Live, Prior

----------------------------------------------------------------------------
(* handledRuns, into which only the monitor writes *)

LEMMA HandledKept ==
    ASSUME NEW e \in Engine
    PROVE  /\ Arm(e).handled = e.handled
           /\ \A b : /\ [e EXCEPT !.armed = b].handled = e.handled
                     /\ [e EXCEPT !.paused = b].handled = e.handled
                     /\ [e EXCEPT !.jobs = b].handled = e.handled
                     /\ [e EXCEPT !.wait = b].handled = e.handled
           /\ \A b, c : [e EXCEPT !.stopped = b, !.wait = c].handled = e.handled
           /\ \A i, c : [e EXCEPT !.cap[i] = c].handled = e.handled
BY DEF Engine, Arm

LEMMA UnhandledKept ==
    ASSUME IInv, Unhandled, NEW o \in Owners, NEW e, e.handled = {},
           eng' = eng \/ eng' = [eng EXCEPT ![o] = e]
    PROVE  Unhandled'
BY DEF Unhandled, IInv, TypeOK

----------------------------------------------------------------------------
(* The steps *)

\* Steps that write no record: whatever drains they begin have yet to claim.
LEMMA OnceBesides ==
    ASSUME IInv, IInv', OInv, UNCHANGED <<trig, ids, runs, fibers, mon>>, Unhandled',
           \A d \in Drains : DrainGoesOn(d) \/ DecidesNew(d)'
    PROVE  OInv'
<1>1. \A t \in Triggers : RecordSteps(t)
  BY RecordKept
<1> QED
  BY <1>1, FibersHold, OnceGoesOn

\* A poll.
LEMMA TickOnce ==
    ASSUME IInv, IInv', OInv, NEW o \in Owners, Tick(o)
    PROVE  OInv'
<1>1. UNCHANGED <<trig, ids, runs, fibers, mon>>
  BY DEF Tick, storeVars
<1>2. Unhandled'
  <2>1. eng[o] \in Engine
    BY DEF IInv, TypeOK
  <2>2. [eng[o] EXCEPT !.armed = FALSE].handled = {}
    BY <2>1, HandledKept DEF OInv, Unhandled
  <2>3. eng' = [eng EXCEPT ![o] = [eng[o] EXCEPT !.armed = FALSE]]
    BY DEF Tick, IInv, TypeOK
  <2> QED
    BY <2>2, <2>3, UnhandledKept DEF OInv
<1>3. \A d \in Drains : DrainGoesOn(d) \/ DecidesNew(d)'
  <2>1. CASE UNCHANGED drains
    BY <2>1, DrainsKept
  <2>2. CASE \E d \in Drains : drains' = [drains EXCEPT ![d] = Claiming(o, now, ListDue(now), TRUE)]
    <3>1. PICK d \in Drains : drains' = [drains EXCEPT ![d] = Claiming(o, now, ListDue(now), TRUE)]
      BY <2>2
    <3>2. Claiming(o, now, ListDue(now), TRUE).pc = "claim"
      BY DEF Claiming
    <3>3. drains'[d].pc = "claim" /\ \A e \in Drains : e # d => drains'[e] = drains[e]
      BY <3>1, <3>2 DEF IInv, TypeOK
    <3>4. DecidesNew(d)' /\ \A e \in Drains : e # d => DrainGoesOn(e)
      BY <3>3 DEF DecidesNew, DrainGoesOn
    <3> QED
      BY <3>4
  <2> QED
    BY <2>1, <2>2 DEF Tick
<1> QED
  BY <1>1, <1>2, <1>3, OnceBesides

\* A drain's turn, at whose end the loop may be armed.
LEMMA GoUnhandled ==
    ASSUME IInv, OInv, NEW d \in Drains, drains[d].pc # "idle", NEW due, Go(d, due)
    PROVE  Unhandled'
<1>1. drains[d].o \in Owners /\ eng[drains[d].o] \in Engine
  BY DrainFields DEF IInv, TypeOK
<1>2. Arm(eng[drains[d].o]).handled = {}
  BY <1>1, HandledKept DEF OInv, Unhandled
<1>3. eng' = eng \/ eng' = [eng EXCEPT ![drains[d].o] = Arm(eng[drains[d].o])]
  BY <1>1 DEF Go, IInv, TypeOK
<1> QED
  BY <1>1, <1>2, <1>3, UnhandledKept DEF OInv

\* A drain that passes a trigger over.
LEMMA PassesOverOnce ==
    ASSUME IInv, IInv', OInv, UNCHANGED <<trig, ids, runs, fibers, mon>>,
           NEW d \in Drains, drains[d].pc # "idle",
           NEW due \in SUBSET drains[d].due, Go(d, due)
    PROVE  OInv'
BY GoUnhandled, GoGoesOn, OnceBesides

\* A drain that claims a trigger finds it without a run, so that the run it
\* names has not been.
LEMMA ClaimOnce ==
    ASSUME IInv, IInv', LInv, OInv, NEW d \in Drains, DrainClaim(d)
    PROVE  OInv'
<1>1. drains[d].pc = "claim" /\ drains[d].pc # "idle"
      /\ UNCHANGED <<now, ids, runs, fibers, mon>>
  BY DEF DrainClaim
<1>2. PICK s \in drains[d].due :
         \/ Go(d, {}) /\ UNCHANGED trig
         \/ /\ Claimable(s.t, drains[d].o)
            /\ ClaimTrigger(s.t, drains[d].o, LeaseMs)
            /\ drains' = [drains EXCEPT ![d] =
                [pc |-> "decide", o |-> drains[d].o, at |-> drains[d].at,
                 due |-> drains[d].due \ {s}, poll |-> drains[d].poll, cur |-> s]]
            /\ UNCHANGED eng
         \/ Go(d, drains[d].due \ {s}) /\ UNCHANGED trig
  BY DEF DrainClaim
<1>3. CASE Go(d, {}) /\ UNCHANGED trig
  BY <1>1, <1>3, PassesOverOnce
<1>4. CASE Go(d, drains[d].due \ {s}) /\ UNCHANGED trig
  BY <1>1, <1>4, PassesOverOnce
<1>5. CASE /\ Claimable(s.t, drains[d].o)
           /\ ClaimTrigger(s.t, drains[d].o, LeaseMs)
           /\ drains' = [drains EXCEPT ![d] =
                [pc |-> "decide", o |-> drains[d].o, at |-> drains[d].at,
                 due |-> drains[d].due \ {s}, poll |-> drains[d].poll, cur |-> s]]
           /\ UNCHANGED eng
  <2> DEFINE x == [pc |-> "decide", o |-> drains[d].o, at |-> drains[d].at,
                   due |-> drains[d].due \ {s}, poll |-> drains[d].poll, cur |-> s]
  <2>1. x.pc = "decide" /\ x.cur = s
    OBVIOUS
  <2>2. drains' = [drains EXCEPT ![d] = x]
    BY <1>5
  <2> HIDE DEF x
  <2>3. drains'[d] = x /\ \A e \in Drains : e # d => drains'[e] = drains[e]
    BY <2>2 DEF IInv, TypeOK
  <2>4. s.t \in Triggers /\ Exists(s.t) /\ trig[s.t] = s.snap
    <3>1. s \in Snapshot
      BY <1>1, <1>2, DrainFields
    <3>2. ListsRecords(d)
      BY DEF LInv
    <3> QED
      BY <1>1, <1>5, <3>1, <3>2 DEF Snapshot, Claimable, ListsRecords
  <2>5. Lists(d, s.t)
    BY <1>1 DEF Lists
  <2>6. \A f \in Fibers : Live(f) => fibers[f].t # s.t
    BY <2>4, <2>5 DEF LInv, Single, Drained, Runs, Live
  <2>7. Dated(s.t) /\ Awaiting(s.t)
    BY <2>4 DEF OInv
  <2>8. s.snap.rid <= ids[s.t] /\ NotRun(s.t, s.snap.rid)
    BY <2>4, <2>6, <2>7 DEF Dated, Awaiting
  <2>9. DecidesNew(d)'
    BY <1>1, <2>1, <2>3, <2>8 DEF DecidesNew, NotRun
  <2>10. \A e \in Drains : DrainGoesOn(e) \/ DecidesNew(e)'
    BY <2>3, <2>9 DEF DrainGoesOn
  <2>11. \A t \in Triggers : RecordSteps(t)
    BY <1>1, <1>5, <2>4, LeaseWritten
  <2>12. Unhandled'
    BY <1>5 DEF OInv, Unhandled
  <2> QED
    BY <1>1, <2>10, <2>11, <2>12, FibersHold, OnceGoesOn
<1> QED
  BY <1>2, <1>3, <1>4, <1>5

\* What skipOverdueRuns writes.
LEMMA SkipWritten ==
    ASSUME IInv, NEW d \in Drains, DrainSkip(d)
    PROVE  LET u == drains[d].cur.t
               m == SkippedTo(drains[d])
           IN  /\ \A t \in Triggers : RecordSteps(t)
               /\ RecordRenews(u) => m \in Nat /\ trig'[u].next = m
               /\ \A t \in Triggers : t # u => trig'[t] = trig[t]
<1> DEFINE u == drains[d].cur.t
           m == SkippedTo(drains[d])
           r == [drains[d].cur.snap EXCEPT !.next = m, !.rid = NewId(u), !.fail = 0]
<1>1. /\ drains[d].at \in Nat /\ u \in Triggers /\ drains[d].cur.snap \in TriggerRecord
  BY DrainFields DEF DrainSkip, Deciding
<1>3. \/ DeleteTrigger(u) /\ UNCHANGED ids
      \/ m \in Nat /\ GenerateRunId(u) /\ UpsertTrigger(u, r)
  BY DEF DrainSkip
<1> HIDE DEF m
<1>4. r.next = m /\ r.rid = NewId(u)
  BY <1>1, RecordUpdated
<1> HIDE DEF r
<1>5. CASE DeleteTrigger(u) /\ UNCHANGED ids
  <2>1. trig'[u] = NoTrigger /\ \A t \in Triggers : t # u => trig'[t] = trig[t]
    BY <1>1, <1>5 DEF IInv, TypeOK, StoreTypeOK, DeleteTrigger
  <2> QED
    BY <1>1, <1>5, <2>1, DeletionWritten DEF RecordRenews, m
<1>6. CASE m \in Nat /\ GenerateRunId(u) /\ UpsertTrigger(u, r)
  <2>1. /\ \A t \in Triggers : RecordSteps(t)
        /\ trig'[u] = r
        /\ \A t \in Triggers : t # u => trig'[t] = trig[t]
    BY <1>1, <1>4, <1>6, RenewalWritten
  <2> QED
    BY <1>4, <1>6, <2>1 DEF m
<1> QED
  BY <1>3, <1>5, <1>6

\* What a drain writes that gives its trigger back.
LEMMA GivenBackWritten ==
    ASSUME IInv, NEW d \in Drains,
           DrainJobMissing(d) \/ DrainSkip(d) \/ DrainGivesUp(d) \/ DrainRelease(d)
    PROVE  \A t \in Triggers : RecordSteps(t)
<1>1. drains[d].pc \in {"decide", "release"} /\ drains[d].cur.t \in Triggers
  BY DrainFields DEF DrainJobMissing, DrainSkip, DrainGivesUp, DrainRelease,
                     Deciding
<1>2. CASE DrainJobMissing(d) \/ DrainRelease(d)
  <2>1. ReleaseTrigger(drains[d].cur.t, drains[d].o) /\ UNCHANGED ids
    BY <1>2 DEF DrainJobMissing, DrainRelease
  <2> QED
    BY <1>1, <2>1, LeaseWritten
<1>3. CASE DrainSkip(d)
  BY <1>3, SkipWritten
<1>4. CASE DrainGivesUp(d)
  BY <1>4, RecordKept DEF DrainGivesUp, storeVars
<1> QED
  BY <1>2, <1>3, <1>4

LEMMA GivesBackOnce ==
    ASSUME IInv, IInv', OInv, NEW d \in Drains,
           DrainJobMissing(d) \/ DrainSkip(d) \/ DrainGivesUp(d) \/ DrainRelease(d)
    PROVE  OInv'
<1>1. \A t \in Triggers : RecordSteps(t)
  BY GivenBackWritten
<1>2. UNCHANGED <<runs, fibers, mon>>
  BY DEF DrainJobMissing, DrainSkip, DrainGivesUp, DrainRelease, storeVars
<1>3. \A e \in Drains : DrainGoesOn(e)
  BY DrainGivesBackWork
<1>4. Unhandled'
  <2>1. CASE DrainJobMissing(d) \/ DrainRelease(d)
    <3>1. drains[d].pc # "idle" /\ Go(d, drains[d].due)
      BY <2>1 DEF DrainJobMissing, DrainRelease, Deciding
    <3> QED
      BY <3>1, GoUnhandled
  <2>2. CASE DrainSkip(d) \/ DrainGivesUp(d)
    BY <2>2 DEF DrainSkip, DrainGivesUp, OInv, Unhandled
  <2> QED
    BY <2>1, <2>2
<1> QED
  BY <1>1, <1>2, <1>3, <1>4, FibersHold, OnceGoesOn

\* The run that a drain dispatches has not been.
LEMMA DispatchOnce ==
    ASSUME IInv, IInv', OInv, NEW d \in Drains, DrainDispatch(d)
    PROVE  OInv'
<1> DEFINE r == [pc |-> "acquire", o |-> drains[d].o, t |-> drains[d].cur.t,
                 snap |-> drains[d].cur.snap, sched |-> drains[d].cur.snap.next,
                 held |-> {}, since |-> 0, ok |-> FALSE]
<1>1. /\ drains[d].pc = "decide" /\ drains[d].pc # "idle"
      /\ UNCHANGED <<trig, runs, ids, mon>> /\ Go(d, drains[d].due)
  BY DEF DrainDispatch, Deciding, storeVars
<1>2. PICK f \in Fibers : fibers[f] = Idle /\ Acquire(f, r)
  BY DEF DrainDispatch
<1>3. /\ r \in FiberRecord /\ r.pc = "acquire"
      /\ r.t = drains[d].cur.t /\ r.snap = drains[d].cur.snap
  BY <1>1, DrainFields DEF FiberRecord, TriggerRecord
<1> HIDE DEF r
<1>4. /\ fibers'[f].t = drains[d].cur.t /\ fibers'[f].snap = drains[d].cur.snap
      /\ fibers'[f].pc \in {"acquire", "waiting"}
      /\ \A g \in Fibers : g # f => fibers'[g] = fibers[g]
  BY <1>2, <1>3, AcquireIsRun
<1>5. FiberBegins(f)
  <2>1. DecidesNew(d)
    BY DEF OInv
  <2>2. ~Live(f) /\ Prior(f)'
    BY <1>2, <1>4 DEF Live, Idle, Prior
  <2>3. fibers'[f].pc # "running"
    BY <1>4
  <2> QED
    BY <1>1, <1>4, <2>1, <2>2, <2>3 DEF DecidesNew, FiberBegins, RunsNew, NotRun
<1>6. \A g \in Fibers : g # f => FiberHolds(g) /\ Yields(g)
  BY <1>4 DEF FiberHolds, Yields, Live, Prior
<1>7. /\ \A e \in Drains : DrainGoesOn(e)
      /\ Unhandled'
  BY <1>1, GoGoesOn, GoUnhandled
<1>8. \A t \in Triggers : RecordSteps(t)
  BY <1>1, RecordKept
<1>9. \A g \in Fibers : (FiberHolds(g) /\ Yields(g)) \/ FiberBegins(g)
  BY <1>5, <1>6
<1> QED
  BY <1>1, <1>7, <1>8, <1>9, OnceGoesOn

\* A run that takes its permits.
LEMMA PermitOnce ==
    ASSUME IInv, IInv', OInv, NEW f \in Fibers, AcquireMore(f) \/ Resume(f)
    PROVE  OInv'
<1>1. UNCHANGED <<trig, ids, runs, drains, mon, eng>>
  BY DEF AcquireMore, Resume, storeVars
<1>2. /\ fibers[f].pc \in {"acquire", "woken"} /\ fibers[f] \in FiberRecord
      /\ fibers \in [Fibers -> FiberRecord \cup {Idle}]
  BY FiberFields DEF AcquireMore, Resume, IInv, TypeOK
<1>3. /\ fibers'[f].t = fibers[f].t /\ fibers'[f].snap = fibers[f].snap
      /\ fibers'[f].pc \in {"acquire", "waiting"}
      /\ \A g \in Fibers : g # f => fibers'[g] = fibers[g]
  <2>1. CASE AcquireMore(f)
    BY <2>1, <1>2, AcquireIsRun DEF AcquireMore
  <2>2. CASE Resume(f)
    <3> DEFINE h == fibers[f].held \cup {NextPermit(fibers[f])}
               r == [fibers[f] EXCEPT !.pc = "acquire", !.held = h]
    <3>1. fibers' = [fibers EXCEPT ![f] = r]
      BY <2>2, <1>2 DEF Resume
    <3>2. r.t = fibers[f].t /\ r.snap = fibers[f].snap /\ r.pc = "acquire"
      BY <1>2 DEF FiberRecord
    <3> HIDE DEF r
    <3> QED
      BY <1>2, <3>1, <3>2
  <2> QED
    BY <2>1, <2>2
<1>4. \A g \in Fibers : FiberHolds(g) /\ Yields(g)
  <2>1. FiberHolds(f) /\ Yields(f)
    BY <1>2, <1>3 DEF FiberHolds, Yields, Live, Prior
  <2>2. \A g \in Fibers : g # f => FiberHolds(g) /\ Yields(g)
    BY <1>3 DEF FiberHolds, Yields, Live, Prior
  <2> QED
    BY <2>1, <2>2
<1>5. Unhandled'
  BY <1>1 DEF OInv, Unhandled
<1>6. \A t \in Triggers : RecordSteps(t)
  BY <1>1, RecordKept
<1> QED
  BY <1>1, <1>4, <1>5, <1>6, DrainsKept, OnceGoesOn

\* What is recorded of a run is recorded of one that is started, or executed:
\* never of one that is over.
LEMMA RunRecorded ==
    ASSUME IInv, IInv', OInv, NEW f \in Fibers,
           StartRun(f) \/ \E ok \in BOOLEAN : Settled(f, ok)
    PROVE  /\ UNCHANGED <<trig, ids, drains, mon>>
           /\ Live(f) /\ Live(f)' /\ fibers[f].t \in Triggers /\ ~Prior(f)'
           /\ fibers'[f].t = fibers[f].t /\ fibers'[f].snap = fibers[f].snap
           /\ \A g \in Fibers : g # f => fibers'[g] = fibers[g]
           /\ NotRun(fibers[f].t, fibers[f].snap.rid) \/ Underway(RunId(f))
           /\ Underway(RunId(f))' <=> fibers'[f].pc = "running"
           /\ runs'[RunId(f)] # NoRun
           /\ \A i \in RunIds : i # RunId(f) => runs'[i] = runs[i]
           /\ Unhandled'
<1>1. /\ UNCHANGED <<trig, ids, drains, mon>>
      /\ fibers[f].pc \in {"acquire", "running"} /\ fibers[f] \in FiberRecord
      /\ fibers[f].t \in Triggers /\ RunId(f) \in RunIds /\ fibers[f].o \in Owners
      /\ fibers \in [Fibers -> FiberRecord \cup {Idle}]
      /\ runs \in [RunIds -> RunRecord \cup {NoRun}]
      /\ RunsNew(f) /\ Live(f)
  BY FiberFields DEF StartRun, Settled, Running, IInv, TypeOK, StoreTypeOK, OInv, Live
<1>2. CASE StartRun(f)
  <2>1. PICK n : fibers' = [fibers EXCEPT ![f] = [fibers[f] EXCEPT !.pc = "running", !.since = n]]
    BY <1>1, <1>2 DEF StartRun
  <2> DEFINE r == [fibers[f] EXCEPT !.pc = "running", !.since = n]
             x == [status |-> "running", attempt |-> Attempt(fibers[f].snap),
                   sched |-> fibers[f].sched, beat |-> now]
             e == [eng[fibers[f].o] EXCEPT !.cap[RunId(f)] = fibers[f].held]
  <2>2. r.t = fibers[f].t /\ r.snap = fibers[f].snap /\ r.pc = "running"
    BY <1>1 DEF FiberRecord
  <2>3. runs' = [runs EXCEPT ![RunId(f)] = x]
    BY <1>2 DEF StartRun, RecordRunStart
  <2>4. x.status = "running" /\ x # NoRun
    BY DEF NoRun
  <2>5. eng' = [eng EXCEPT ![fibers[f].o] = e] /\ eng[fibers[f].o] \in Engine
    BY <1>1, <1>2 DEF StartRun, IInv, TypeOK
  <2>6. e.handled = {}
    BY <1>1, <2>5, HandledKept DEF OInv, Unhandled
  <2> HIDE DEF r, x, e
  <2>7. Unhandled'
    BY <1>1, <2>5, <2>6, UnhandledKept DEF OInv
  <2>8. /\ fibers'[f] = r /\ \A g \in Fibers : g # f => fibers'[g] = fibers[g]
        /\ runs'[RunId(f)] = x /\ \A i \in RunIds : i # RunId(f) => runs'[i] = runs[i]
    BY <1>1, <2>1, <2>3 DEF r
  <2>9. Underway(RunId(f))'
    <3>1. RunId(f)' = RunId(f)
      BY <2>2, <2>8 DEF RunId
    <3> QED
      BY <2>4, <2>8, <3>1 DEF Underway
  <2>10. NotRun(fibers[f].t, fibers[f].snap.rid)
    BY <1>1, <1>2 DEF StartRun, RunsNew, Prior
  <2> QED
    BY <1>1, <2>2, <2>4, <2>7, <2>8, <2>9, <2>10 DEF Live, Prior
<1>3. ASSUME NEW ok \in BOOLEAN, Settled(f, ok)
      PROVE  /\ Live(f)' /\ ~Prior(f)' /\ fibers'[f].pc = "ended"
             /\ fibers'[f].t = fibers[f].t /\ fibers'[f].snap = fibers[f].snap
             /\ \A g \in Fibers : g # f => fibers'[g] = fibers[g]
             /\ Underway(RunId(f)) /\ runs'[RunId(f)] # NoRun
             /\ ~Underway(RunId(f))'
             /\ \A i \in RunIds : i # RunId(f) => runs'[i] = runs[i]
             /\ Unhandled'
  <2> DEFINE r == [fibers[f] EXCEPT !.pc = "ended", !.since = 0, !.ok = ok]
             s == IF ok THEN "completed" ELSE "failed"
             x == [runs[RunId(f)] EXCEPT !.status = s]
  <2>1. Underway(RunId(f)) /\ fibers[f].pc = "running" /\ UNCHANGED eng
    BY <1>1, <1>3 DEF Settled, Running, RunsNew
  <2>2. runs[RunId(f)] \in RunRecord
    BY <1>1, <2>1 DEF Underway
  <2>3. x.status # "running" /\ x # NoRun
    BY <2>2 DEF RunRecord, NoRun
  <2>4. runs' = [runs EXCEPT ![RunId(f)] = x] /\ fibers' = [fibers EXCEPT ![f] = r]
    BY <1>1, <1>3, <2>1 DEF Settled, RecordRunEnd, Underway
  <2>5. r.t = fibers[f].t /\ r.snap = fibers[f].snap /\ r.pc = "ended"
    BY <1>1 DEF FiberRecord
  <2> HIDE DEF x, r
  <2>6. /\ runs'[RunId(f)] = x /\ \A i \in RunIds : i # RunId(f) => runs'[i] = runs[i]
        /\ fibers'[f] = r /\ \A g \in Fibers : g # f => fibers'[g] = fibers[g]
    BY <1>1, <2>4
  <2>7. ~Underway(RunId(f))'
    <3>1. RunId(f)' = RunId(f)
      BY <2>5, <2>6 DEF RunId
    <3> QED
      BY <2>3, <2>6, <3>1 DEF Underway
  <2> QED
    BY <1>1, <2>1, <2>3, <2>5, <2>6, <2>7 DEF Live, Prior, OInv, Unhandled
<1> QED
  BY <1>1, <1>2, <1>3

LEMMA RunsOnce ==
    ASSUME IInv, IInv', LInv, OInv, NEW f \in Fibers,
           StartRun(f) \/ \E ok \in BOOLEAN : Settled(f, ok)
    PROVE  OInv'
<1> DEFINE u == fibers[f].t
           i == RunId(f)
<1>1. /\ UNCHANGED <<trig, ids, drains, mon>>
      /\ Live(f) /\ Live(f)' /\ u \in Triggers /\ ~Prior(f)'
      /\ fibers'[f].t = u /\ fibers'[f].snap = fibers[f].snap
      /\ \A g \in Fibers : g # f => fibers'[g] = fibers[g]
      /\ Underway(RunId(f))' <=> fibers'[f].pc = "running"
      /\ \A j \in RunIds : j # i => runs'[j] = runs[j]
      /\ Unhandled'
  BY RunRecorded
<1>2. RunId(f)' = i
  BY <1>1 DEF RunId
<1>3. fibers[f].snap.rid \in 1..MaxRuns /\ fibers[f].snap.rid <= ids[u]
      /\ i = <<u, fibers[f].snap.rid>> /\ i \in RunIds
  <2>1. fibers[f].snap \in TriggerRecord
    BY <1>1, FiberFields DEF Live
  <2> QED
    BY <1>1, <2>1 DEF TriggerRecord, OInv, RunsNew, RunId, RunIds
<1> HIDE DEF i
<1>4. /\ \A g \in Fibers : Live(g) /\ fibers[g].t = u => g = f
      /\ \A d \in Drains : drains[d].pc = "decide" => drains[d].cur.t # u
  BY <1>1 DEF LInv, Single, Drained, Runs, Handles, Live
<1>5. \A t \in Triggers, n \in 1..MaxRuns : t # u => runs'[<<t, n>>] = runs[<<t, n>>]
  BY <1>1, <1>3 DEF RunIds
<1>6. ASSUME NEW t \in Triggers
      PROVE  Dated(t)' /\ Awaiting(t)'
  <2>1. Dated(t) /\ Awaiting(t)
    BY DEF OInv
  <2>2. ASSUME NEW n \in 1..MaxRuns, ~NotRun(t, n)' PROVE n <= ids'[t]
    <3>1. CASE <<t, n>> = i
      BY <1>1, <1>3, <3>1
    <3>2. CASE <<t, n>> # i
      BY <1>1, <2>1, <2>2, <3>2 DEF Dated, NotRun, RunIds
    <3> QED
      BY <3>1, <3>2
  <2>3. Exists(t)' => trig'[t].rid <= ids'[t]
    BY <1>1, <2>1 DEF Dated, Exists
  <2>4. Awaiting(t)'
    <3>1. CASE t = u
      BY <1>1, <3>1 DEF Awaiting
    <3>2. CASE t # u
      <4> SUFFICES ASSUME Exists(t), \A g \in Fibers : Live(g)' => fibers'[g].t # t
                   PROVE  runs'[<<t, trig[t].rid>>] = NoRun
        BY <1>1 DEF Awaiting, Exists, NotRun
      <4>1. \A g \in Fibers : Live(g) => fibers[g].t # t
        BY <1>1, <3>2 DEF Live
      <4>2. trig[t].rid \in 1..MaxRuns
        BY DEF IInv, TypeOK, StoreTypeOK, Exists, TriggerRecord
      <4> QED
        BY <1>5, <2>1, <3>2, <4>1, <4>2 DEF Awaiting, NotRun
    <3> QED
      BY <3>1, <3>2
  <2> QED
    BY <2>2, <2>3, <2>4 DEF Dated
<1>7. ASSUME NEW d \in Drains
      PROVE  DecidesNew(d)'
  <2> SUFFICES ASSUME drains[d].pc = "decide"
               PROVE  DecidesNew(d)'
    BY <1>1 DEF DecidesNew
  <2>1. /\ drains[d].cur.t \in Triggers /\ drains[d].cur.snap.rid \in 1..MaxRuns
        /\ drains[d].cur.t # u /\ DecidesNew(d)
    BY <1>4, DrainFields DEF TriggerRecord, OInv
  <2> QED
    BY <1>1, <1>5, <2>1 DEF DecidesNew, NotRun
<1>8. ASSUME NEW g \in Fibers
      PROVE  RunsNew(g)'
  <2>1. CASE g = f
    BY <1>1, <1>3, <2>1 DEF RunsNew
  <2>2. CASE g # f
    <3> SUFFICES ASSUME Live(g)
                 PROVE  RunsNew(g)'
      BY <1>1, <2>2 DEF RunsNew, Live
    <3>1. /\ fibers[g].t \in Triggers /\ fibers[g].snap.rid \in 1..MaxRuns
          /\ fibers[g].t # u /\ RunsNew(g)
      BY <1>4, <2>2, FiberFields DEF Live, TriggerRecord, OInv
    <3> QED
      BY <1>1, <1>5, <2>2, <3>1 DEF RunsNew, NotRun, Prior, Underway, RunId
  <2> QED
    BY <2>1, <2>2
<1>9. ASSUME NEW j \in RunIds
      PROVE  Manned(j)'
  <2> SUFFICES ASSUME Underway(j)'
               PROVE  \E g \in Fibers : fibers'[g].pc = "running" /\ RunId(g)' = j
    BY DEF Manned
  <2>1. CASE j = i
    <3>1. Underway(RunId(f))'
      BY <1>2, <2>1 DEF Underway
    <3> QED
      BY <1>1, <1>2, <2>1, <3>1
  <2>2. CASE j # i
    <3>1. Underway(j)
      BY <1>1, <2>2 DEF Underway
    <3>2. PICK g \in Fibers : fibers[g].pc = "running" /\ RunId(g) = j
      BY <3>1 DEF OInv, Manned
    <3>3. g # f
      BY <2>2, <3>2 DEF i
    <3>4. fibers'[g].pc = "running" /\ RunId(g)' = j
      BY <1>1, <3>2, <3>3 DEF RunId
    <3> QED
      BY <3>4
  <2> QED
    BY <2>1, <2>2
<1>10. MonitorsRest'
  BY <1>1 DEF OInv, MonitorsRest
<1> QED
  BY <1>1, <1>6, <1>7, <1>8, <1>9, <1>10 DEF OInv

\* A heartbeat starts and ends nothing.
LEMMA TouchOnce ==
    ASSUME IInv, IInv', OInv, NEW id, Touch(id)
    PROVE  OInv'
<1>1. UNCHANGED <<trig, ids, eng, drains, fibers, mon>>
  BY TouchEffects
<1>2. \A i \in RunIds : /\ runs'[i] = NoRun <=> runs[i] = NoRun
                        /\ Underway(i)' <=> Underway(i)
  BY TouchEffects DEF Underway
<1>3. \A t \in Triggers, n \in 1..MaxRuns : NotRun(t, n)' <=> NotRun(t, n)
  BY <1>2 DEF NotRun, RunIds
<1>4. ASSUME NEW t \in Triggers
      PROVE  Dated(t)' /\ Awaiting(t)'
  <2>1. Exists(t) => trig[t].rid \in 1..MaxRuns
    BY DEF IInv, TypeOK, StoreTypeOK, Exists, TriggerRecord
  <2>2. Dated(t) /\ Awaiting(t)
    BY DEF OInv
  <2> QED
    BY <1>1, <1>3, <2>1, <2>2 DEF Dated, Awaiting, Exists, Live
<1>5. ASSUME NEW d \in Drains
      PROVE  DecidesNew(d)'
  <2>1. drains[d].pc = "decide" =>
            drains[d].cur.t \in Triggers /\ drains[d].cur.snap.rid \in 1..MaxRuns
    BY DrainFields DEF TriggerRecord
  <2> QED
    BY <1>1, <1>3, <2>1 DEF OInv, DecidesNew
<1>6. ASSUME NEW f \in Fibers
      PROVE  RunsNew(f)'
  <2>1. Live(f) => /\ fibers[f].t \in Triggers /\ fibers[f].snap.rid \in 1..MaxRuns
                   /\ RunId(f) \in RunIds
    BY FiberFields DEF Live, TriggerRecord
  <2>2. RunsNew(f) /\ RunId(f)' = RunId(f)
    BY <1>1 DEF OInv, RunId
  <2>3. RunId(f) \in RunIds => (Underway(RunId(f))' <=> Underway(RunId(f)))
    BY <1>2, <2>2 DEF Underway
  <2> QED
    BY <1>1, <1>3, <2>1, <2>2, <2>3 DEF RunsNew, Live, Prior
<1>7. ASSUME NEW i \in RunIds
      PROVE  Manned(i)'
  <2>1. \A f \in Fibers : RunId(f)' = RunId(f)
    BY <1>1 DEF RunId
  <2> QED
    BY <1>1, <1>2, <2>1 DEF OInv, Manned
<1>8. MonitorsRest' /\ Unhandled'
  BY <1>1 DEF OInv, MonitorsRest, Unhandled
<1> QED
  BY <1>4, <1>5, <1>6, <1>7, <1>8 DEF OInv

\* The wake-ups at a run's end leave the other runs what they are.
LEMMA WokenHold ==
    ASSUME IInv, NEW o \in Owners, NEW id \in RunIds, NEW g \in Fibers,
           fibers'[g] = FibersWoken(o, id)[g]
    PROVE  FiberHolds(g) /\ Yields(g)
<1>1. CASE fibers[g].pc # "waiting"
  BY <1>1, FreedEffect DEF FiberHolds, Yields, Live, Prior
<1>2. CASE fibers[g].pc = "waiting"
  <2>1. fibers[g] \in FiberRecord
    BY <1>2, FiberFields
  <2>2. /\ FibersWoken(o, id)[g].t = fibers[g].t
        /\ FibersWoken(o, id)[g].snap = fibers[g].snap
        /\ FibersWoken(o, id)[g].pc \in {"waiting", "woken"}
    BY <1>2, <2>1 DEF FibersWoken, FiberRecord
  <2> QED
    BY <1>2, <2>2 DEF FiberHolds, Yields, Live, Prior
<1> QED
  BY <1>1, <1>2

\* The write that ends a run.
LEMMA WrapWritten ==
    ASSUME IInv, NEW f \in Fibers, Wrap(f)
    PROVE  LET u == fibers[f].t
               m == NextRun(u, fibers[f].sched)
           IN  /\ \A t \in Triggers : RecordSteps(t)
               /\ RecordFalls(u) \/ RecordRenews(u)
               /\ RecordRenews(u) =>
                    \/ trig'[u].next = now + RetryDelay
                    \/ m \in Nat /\ trig'[u].next = m
               /\ \A t \in Triggers : t # u => trig'[t] = trig[t]
<1> DEFINE u == fibers[f].t
           m == NextRun(u, fibers[f].sched)
<1>1. fibers[f].pc # "idle"
  BY DEF Wrap
<1>2. u \in Triggers /\ fibers[f].snap \in TriggerRecord
  BY <1>1, FiberFields
<1>4. Settle(u, fibers[f].snap, Retries(f), m)
  BY DEF Wrap
<1> HIDE DEF m
<1>5. /\ \A t \in Triggers : RecordSteps(t)
      /\ RecordFalls(u) \/ RecordRenews(u)
      /\ RecordRenews(u) =>
           \/ trig'[u].next = now + RetryDelay
           \/ m \in Nat /\ trig'[u].next = m
      /\ \A t \in Triggers : t # u => trig'[t] = trig[t]
  BY <1>2, <1>4, SettlementWritten
<1> QED
  BY <1>5 DEF m

LEMMA EndOnce ==
    ASSUME PlansReach, IInv, IInv', OInv, NEW f \in Fibers,
           WrapHandled(f) \/ Wrap(f) \/ WrapGivesUp(f) \/ ReleaseLease(f)
    PROVE  OInv'
<1>1. /\ fibers[f].pc \in {"ended", "release"} /\ fibers[f] \in FiberRecord
      /\ fibers[f].t \in Triggers /\ fibers[f].o \in Owners /\ RunId(f) \in RunIds
      /\ fibers \in [Fibers -> FiberRecord \cup {Idle}]
      /\ UNCHANGED <<runs, drains, mon>>
  BY FiberFields DEF WrapHandled, Wrap, WrapGivesUp, ReleaseLease, storeVars,
                     IInv, TypeOK
<1>2. ~WrapHandled(f) /\ ~WrapGivesUp(f)
  <2>1. ~WrapHandled(f)
    BY <1>1 DEF WrapHandled, Handled, OInv, Unhandled
  <2>2. fibers[f].sched \in Nat
    BY <1>1, FiberFields
  <2> QED
    BY <1>1, <2>1, <2>2 DEF PlansReach, WrapGivesUp
<1>e. eng[fibers[f].o] \in Engine /\ eng[fibers[f].o].handled = {}
  BY <1>1 DEF OInv, Unhandled, IInv, TypeOK
<1>3. CASE Wrap(f)
  <2> DEFINE W == FibersWoken(fibers[f].o, RunId(f))
             r == [fibers[f] EXCEPT !.pc = "release"]
             e == [eng[fibers[f].o] EXCEPT !.cap[RunId(f)] = {}]
  <2>1. W[f] = fibers[f] /\ W \in [Fibers -> FiberRecord \cup {Idle}]
    BY <1>1, <1>3, FreedEffect DEF Wrap
  <2>2. fibers' = [W EXCEPT ![f].pc = "release"] /\ fibers[f].pc = "ended"
    BY <1>3 DEF Wrap
  <2>3. fibers'[f] = r /\ \A g \in Fibers : g # f => fibers'[g] = W[g]
    BY <2>1, <2>2
  <2>4. r.pc = "release"
    BY <1>1 DEF FiberRecord
  <2>5. e.handled = {} /\ eng' = [eng EXCEPT ![fibers[f].o] = e]
    BY <1>1, <1>3, <1>e, HandledKept DEF Wrap, IInv, TypeOK
  <2> HIDE DEF r, e
  <2>6. Unhandled'
    BY <1>1, <2>5, UnhandledKept DEF OInv
  <2>7. /\ \A t \in Triggers : RecordSteps(t)
        /\ RecordFalls(fibers[f].t) \/ RecordRenews(fibers[f].t)
    BY <1>3, WrapWritten
  <2>8. FiberHolds(f) /\ Yields(f)
    BY <2>2, <2>3, <2>4, <2>7 DEF FiberHolds, Yields, Live, Prior
  <2>9. \A g \in Fibers : g # f => FiberHolds(g) /\ Yields(g)
    BY <1>1, <2>3, WokenHold
  <2> QED
    BY <1>1, <2>6, <2>7, <2>8, <2>9, DrainsKept, OnceGoesOn
<1>4. CASE ReleaseLease(f)
  <2> DEFINE e == [eng[fibers[f].o] EXCEPT !.wait = @ \ {f}]
  <2>1. fibers'[f] = Idle /\ \A g \in Fibers : g # f => fibers'[g] = fibers[g]
    BY <1>1, <1>4 DEF ReleaseLease
  <2>2. fibers[f].pc = "release" /\ ReleaseTrigger(fibers[f].t, fibers[f].o) /\ UNCHANGED ids
    BY <1>4 DEF ReleaseLease
  <2>3. e.handled = {} /\ eng' = [eng EXCEPT ![fibers[f].o] = e]
    BY <1>1, <1>4, <1>e, HandledKept DEF ReleaseLease, IInv, TypeOK
  <2> HIDE DEF e
  <2>4. Unhandled'
    BY <1>1, <2>3, UnhandledKept DEF OInv
  <2>5. \A t \in Triggers : RecordSteps(t)
    BY <1>1, <2>2, LeaseWritten
  <2>6. FiberHolds(f) /\ Yields(f)
    BY <2>1, <2>2 DEF FiberHolds, Yields, Live, Prior, Idle
  <2>7. \A g \in Fibers : g # f => FiberHolds(g) /\ Yields(g)
    BY <2>1 DEF FiberHolds, Yields, Live, Prior
  <2> QED
    BY <1>1, <2>4, <2>5, <2>6, <2>7, DrainsKept, OnceGoesOn
<1> QED
  BY <1>2, <1>3, <1>4

\* What schedule and executeNow write.
LEMMA NewWritten ==
    ASSUME IInv, NEW o \in Owners, NEW u \in Triggers, Schedule(o, u) \/ ExecuteNow(o, u)
    PROVE  /\ \A t \in Triggers : RecordSteps(t)
           /\ \A t \in Triggers : t # u => trig'[t] = trig[t] /\ ids'[t] = ids[t]
<1>1. ASSUME NEW m, m \in Nat, GenerateRunId(u), UpsertTrigger(u, NewTrigger(m, NewId(u)))
      PROVE  \A t \in Triggers : RecordSteps(t)
  <2>1. NewTrigger(m, NewId(u)).rid = NewId(u) /\ NewTrigger(m, NewId(u)).next = m
    BY DEF NewTrigger
  <2> QED
    BY <1>1, <2>1, RenewalWritten
<1>2. \A t \in Triggers : RecordSteps(t)
  BY <1>1 DEF Schedule, ExecuteNow
<1>3. \E r : GenerateRunId(u) /\ UpsertTrigger(u, r)
  BY DEF Schedule, ExecuteNow
<1> QED
  BY <1>2, <1>3, WritesOne

LEMMA NewOnce ==
    ASSUME IInv, IInv', OInv, NEW o \in Owners, NEW u \in Triggers,
           Schedule(o, u) \/ ExecuteNow(o, u)
    PROVE  OInv'
<1>1. UNCHANGED <<runs, fibers, mon>>
  BY DEF Schedule, ExecuteNow
<1>2. \A t \in Triggers : RecordSteps(t)
  BY NewWritten
<1>3. \A d \in Drains : DrainGoesOn(d) \/ DecidesNew(d)'
  <2>1. CASE UNCHANGED drains
    BY <2>1, DrainsKept
  <2>2. ASSUME NEW d \in Drains, NEW due, drains' = [drains EXCEPT ![d] = Claiming(o, now, due, FALSE)]
        PROVE  \A e \in Drains : DrainGoesOn(e) \/ DecidesNew(e)'
    <3>1. Claiming(o, now, due, FALSE).pc = "claim"
      BY DEF Claiming
    <3>2. drains'[d].pc = "claim" /\ \A e \in Drains : e # d => drains'[e] = drains[e]
      BY <2>2, <3>1 DEF IInv, TypeOK
    <3> QED
      BY <3>2 DEF DecidesNew, DrainGoesOn
  <2> QED
    BY <2>1, <2>2 DEF Schedule, ExecuteNow
<1>4. Unhandled'
  <2>1. eng[o] \in Engine
    BY DEF IInv, TypeOK
  <2>2. Arm(eng[o]).handled = {}
    BY <2>1, HandledKept DEF OInv, Unhandled
  <2>3. eng' = eng \/ eng' = [eng EXCEPT ![o] = Arm(eng[o])]
    BY DEF Schedule, ExecuteNow, IInv, TypeOK
  <2> QED
    BY <2>2, <2>3, UnhandledKept DEF OInv
<1> QED
  BY <1>1, <1>2, <1>3, <1>4, FibersHold, OnceGoesOn

\* The calls that change an engine's fields, or a job's record, only.
LEMMA EngineCallOnce ==
    ASSUME IInv, IInv', OInv,
           \/ \E o \in Owners : \/ PauseAll(o) \/ ResumeAll(o) \/ Shutdown(o) \/ Restart(o)
                                \/ \E j \in Jobs : UnregisterJob(o, j)
           \/ \E j \in Jobs, b \in BOOLEAN : PauseJob(j, b)
           \/ \E s \in strays : StrayEnds(s)
           \/ UNCHANGED vars
    PROVE  OInv'
<1>1. UNCHANGED <<trig, runs, ids, drains, fibers, mon>>
  BY DEF PauseAll, ResumeAll, Shutdown, Restart, UnregisterJob, PauseJob, StrayEnds,
         storeVars, vars
<1>2. Unhandled'
  <2>1. ASSUME NEW o \in Owners, PauseAll(o) \/ ResumeAll(o) \/ Shutdown(o) \/ Restart(o)
                                 \/ \E j \in Jobs : UnregisterJob(o, j)
        PROVE  Unhandled'
    <3> DEFINE p == [eng[o] EXCEPT !.paused = TRUE]
               q == [eng[o] EXCEPT !.paused = FALSE]
               s == [eng[o] EXCEPT !.stopped = TRUE, !.wait = ActiveFibers(o)]
    <3>1. eng[o] \in Engine /\ q \in Engine
      BY EngineFields DEF IInv, TypeOK
    <3>2. p.handled = {} /\ q.handled = {} /\ s.handled = {}
          /\ \A j \in Jobs : [eng[o] EXCEPT !.jobs = @ \ {j}].handled = {}
      BY <3>1, HandledKept DEF OInv, Unhandled
    <3>3. Arm(q).handled = {} /\ Started.handled = {}
      BY <3>1, <3>2, HandledKept DEF Started
    <3>4. \/ eng' = [eng EXCEPT ![o] = p] \/ eng' = [eng EXCEPT ![o] = Arm(q)]
          \/ eng' = [eng EXCEPT ![o] = s] \/ eng' = [eng EXCEPT ![o] = Started]
          \/ \E j \in Jobs : eng' = [eng EXCEPT ![o] = [eng[o] EXCEPT !.jobs = @ \ {j}]]
      BY <2>1 DEF PauseAll, ResumeAll, Shutdown, Restart, UnregisterJob, IInv, TypeOK
    <3> HIDE DEF p, q, s
    <3> QED
      BY <3>2, <3>3, <3>4, UnhandledKept DEF OInv
  <2>2. CASE \/ \E j \in Jobs, b \in BOOLEAN : PauseJob(j, b)
             \/ \E s \in strays : StrayEnds(s)
             \/ UNCHANGED vars
    BY <2>2 DEF PauseJob, StrayEnds, vars, OInv, Unhandled
  <2> QED
    BY <2>1, <2>2
<1> QED
  BY <1>1, <1>2, DrainsKept, OnceBesides

\* A trigger handle's calls, and the clock.
LEMMA HandleCallOnce ==
    ASSUME IInv, IInv', LInv, OInv,
           \/ \E op \in {"pause", "resume", "cancel"}, t \in Triggers : EditGet(op, t)
           \/ EditPut
           \/ Advance
    PROVE  OInv' /\ (\A t \in Triggers : RecordSteps(t)) /\ UNCHANGED <<ids, runs>>
<1>1. UNCHANGED <<ids, runs, eng, drains, fibers, mon>>
  BY DEF EditGet, EditPut, Advance, storeVars
<1>2. \A t \in Triggers : RecordSteps(t)
  <2>1. CASE \/ \E op \in {"pause", "resume", "cancel"}, t \in Triggers : EditGet(op, t)
             \/ Advance
    <3>1. UNCHANGED trig
      BY <2>1 DEF EditGet, Advance, storeVars
    <3> QED
      BY <1>1, <3>1, RecordKept
  <2>2. CASE EditPut
    <3>1. edit \in EditRecord /\ edit.op = "cancel"
      BY <2>2 DEF EditPut, LInv, EditsCancel, IInv, TypeOK
    <3>2. edit.t \in Triggers /\ DeleteTrigger(edit.t)
      BY <2>2, <3>1 DEF EditPut, EditRecord
    <3> QED
      BY <1>1, <3>2, DeletionWritten
  <2> QED
    BY <2>1, <2>2
<1>3. Unhandled'
  BY <1>1 DEF OInv, Unhandled
<1> QED
  BY <1>1, <1>2, <1>3, DrainsKept, FibersHold, OnceGoesOn

\* A monitor that spares what runs finds nothing without crashes.
LEMMA NothingStalled ==
    ASSUME IInv, OInv, MonitorSpares
    PROVE  /\ NoneStalled
           /\ \A o \in Owners : ~MonScan(o) /\ ~MonStep(o)
<1>1. NoneStalled
  <2> SUFFICES ASSUME NEW s \in StalledRuns(StalledAfter)
               PROVE  FALSE
    BY DEF NoneStalled
  <2>1. s.id \in RunIds /\ Underway(s.id)
    BY DEF StalledRuns, Underway
  <2>2. PICK f \in Fibers : fibers[f].pc = "running" /\ RunId(f) = s.id
    BY <2>1 DEF OInv, Manned
  <2>3. s.id[1] = fibers[f].t
    BY <2>2, FiberFields
  <2> QED
    BY <2>2, <2>3 DEF MonitorSpares
<1>2. \A o \in Owners : ~MonScan(o)
  BY <1>1 DEF MonScan, NoneStalled
<1>3. \A o \in Owners : ~MonStep(o)
  BY DEF OInv, MonitorsRest, Idle, MonStep, MonGet, MonForget, MonRecordEnd,
         MonSettle, MonGivesUp, MonRelease
<1> QED
  BY <1>1, <1>2, <1>3

LEMMA InitOInv == Init => OInv
<1> SUFFICES ASSUME Init
             PROVE  OInv
  OBVIOUS
<1>1. \A t \in Triggers : ~Exists(t) /\ \A n \in 1..MaxRuns : NotRun(t, n)
  BY DEF Init, Exists, NotRun, RunIds
<1>2. \A i \in RunIds : ~Underway(i)
  BY DEF Init, Underway
<1>3. MonitorsRest /\ Unhandled
  BY DEF Init, MonitorsRest, Unhandled, Started
<1> QED
  BY <1>1, <1>2, <1>3 DEF Init, Idle, OInv, Dated, Awaiting, DecidesNew, RunsNew, Live,
                          Manned

LEMMA StepOInv ==
    ASSUME Undisturbed, PlansReach, "crash" \notin Ops
    PROVE  IInv /\ LInv /\ OInv /\ MonitorSpares /\ [Next]_vars => OInv'
<1> SUFFICES ASSUME IInv, LInv, OInv, MonitorSpares, [Next]_vars
             PROVE  OInv'
  OBVIOUS
<1>i. IInv'
  BY StepIInv
<1>1. ASSUME NEW o \in Owners, Tick(o) PROVE OInv'
  BY <1>1, <1>i, TickOnce
<1>2. ASSUME NEW o \in Owners PROVE ~MonScan(o) /\ ~MonStep(o) /\ ~Crash(o)
  BY NothingStalled DEF Crash, Happens
<1>3. ASSUME NEW d \in Drains, DrainStep(d) PROVE OInv'
  BY <1>3, <1>i, ClaimOnce, GivesBackOnce, DispatchOnce DEF DrainStep
<1>4. ASSUME NEW f \in Fibers, FiberStep(f) \/ \E ok \in BOOLEAN : Settled(f, ok)
      PROVE  OInv'
  BY <1>4, <1>i, PermitOnce, RunsOnce, EndOnce DEF FiberStep
<1>s. ASSUME NEW f \in Fibers, TimesOut(f) \/ \E ok \in BOOLEAN : Finish(f, ok)
      PROVE  \E ok \in BOOLEAN : Settled(f, ok)
  BY <1>s DEF TimesOut, Finish
<1>t. ASSUME NEW id \in Executing, Touch(id) PROVE OInv'
  BY <1>t, <1>i, TouchOnce
<1>5. ASSUME NEW o \in Owners, NEW t \in Triggers, Schedule(o, t) \/ ExecuteNow(o, t)
      PROVE  OInv'
  BY <1>5, <1>i, NewOnce
<1>6. CASE \/ \E o \in Owners : \/ PauseAll(o) \/ ResumeAll(o) \/ Shutdown(o) \/ Restart(o)
                                \/ \E j \in Jobs : UnregisterJob(o, j)
           \/ \E j \in Jobs, b \in BOOLEAN : PauseJob(j, b)
           \/ \E s \in strays : StrayEnds(s)
           \/ UNCHANGED vars
  BY <1>6, <1>i, EngineCallOnce
<1>7. CASE \/ \E op \in {"pause", "resume", "cancel"}, t \in Triggers : EditGet(op, t)
           \/ EditPut
           \/ Advance
  BY <1>7, <1>i, HandleCallOnce
<1> QED
  BY <1>1, <1>2, <1>3, <1>4, <1>s, <1>t, <1>5, <1>6, <1>7 DEF Next, Call

\* The outcome of a run that is over stays what it is.
LEMMA OutcomesLast ==
    ASSUME "crash" \notin Ops, IInv, IInv', LInv, OInv, MonitorSpares, [Next]_vars
    PROVE  \A i \in RunIds :
              runs[i] # NoRun /\ runs[i].status # "running"
                  => runs'[i] # NoRun /\ runs'[i].status = runs[i].status
<1>1. CASE UNCHANGED runs
  BY <1>1
<1>2. ASSUME NEW o \in Owners PROVE ~MonStep(o) /\ ~Crash(o)
  BY NothingStalled DEF Crash, Happens
<1>3. ASSUME NEW o \in Owners, Tick(o) \/ MonScan(o) \/ Restart(o) PROVE UNCHANGED runs
  BY <1>3 DEF Tick, MonScan, Restart, storeVars
<1>4. ASSUME NEW d \in Drains, DrainStep(d) PROVE UNCHANGED runs
  BY <1>4 DEF DrainStep, DrainClaim, DrainJobMissing, DrainSkip, DrainGivesUp,
              DrainDispatch, DrainRelease, storeVars
<1>5. ASSUME NEW f \in Fibers, StartRun(f) \/ \E ok \in BOOLEAN : Settled(f, ok),
             NEW i \in RunIds, runs[i] # NoRun, runs[i].status # "running"
      PROVE  runs'[i] = runs[i]
  <2>1. /\ NotRun(fibers[f].t, fibers[f].snap.rid) \/ Underway(RunId(f))
        /\ \A j \in RunIds : j # RunId(f) => runs'[j] = runs[j]
    BY <1>5, RunRecorded
  <2>2. i # RunId(f)
    BY <1>5, <2>1 DEF NotRun, Underway, RunId
  <2> QED
    BY <2>1, <2>2
<1>6. ASSUME NEW f \in Fibers, \/ AcquireMore(f) \/ Resume(f) \/ WrapHandled(f)
                               \/ Wrap(f) \/ WrapGivesUp(f) \/ ReleaseLease(f)
      PROVE  UNCHANGED runs
  BY <1>6 DEF AcquireMore, Resume, WrapHandled, Wrap, WrapGivesUp, ReleaseLease, storeVars
<1>7. ASSUME NEW f \in Fibers, TimesOut(f) \/ \E ok \in BOOLEAN : Finish(f, ok)
      PROVE  \E ok \in BOOLEAN : Settled(f, ok)
  BY <1>7 DEF TimesOut, Finish
<1>8. CASE \E id \in Executing : Touch(id)
  BY <1>8, TouchEffects
<1>9. CASE Call \/ Advance \/ (\E s \in strays : StrayEnds(s)) \/ UNCHANGED vars
  BY <1>9 DEF Call, PauseAll, ResumeAll, Shutdown, Schedule, ExecuteNow, UnregisterJob,
              PauseJob, EditGet, EditPut, Advance, StrayEnds, storeVars, vars
<1> QED
  BY <1>1, <1>2, <1>3, <1>4, <1>5, <1>6, <1>7, <1>8, <1>9 DEF Next, FiberStep

\* Without crashes a run is started once and ends once: its outcome is neither
\* overwritten nor followed by another start.  A crash between the record of a
\* run's end and the write of its trigger's next one would leave the trigger
\* naming the run that is over, to be run again; and so would a plan that
\* gives up there.
THEOREM RunsSettleOnce ==
    ASSUME Undisturbed, PlansReach, "crash" \notin Ops
    PROVE  Spec /\ []LeasesLast /\ []MonitorSpares => RunSettlesOnce
<1>1. Init => IInv /\ LInv /\ OInv
  BY InitIInv, InitLInv, InitOInv
<1>2. IInv /\ LInv /\ OInv /\ LeasesLast /\ MonitorSpares /\ [Next]_vars
        => IInv' /\ LInv' /\ OInv'
  BY StepIInv, StepLInv, StepOInv
<1>3. IInv /\ IInv' /\ LInv /\ OInv /\ MonitorSpares /\ [Next]_vars
        => [\A i \in RunIds :
              runs[i] # NoRun /\ runs[i].status # "running" /\ ~Unplanned(i)
                => runs'[i] # NoRun /\ runs'[i].status = runs[i].status]_vars
  BY OutcomesLast
<1> QED
  BY <1>1, <1>2, <1>3, PTL DEF Spec, RunSettlesOnce

\* A stray's run is over.
StraysAreOver == \A s \in strays : runs[s.id] # NoRun /\ ~Underway(s.id)

LEMMA StepStraysAreOver ==
    ASSUME "crash" \notin Ops, IInv, IInv', LInv, OInv, MonitorSpares, StraysAreOver,
           [Next]_vars
    PROVE  StraysAreOver'
<1>1. \A s \in strays : s.id \in RunIds
  BY DEF IInv, TypeOK, StrayRecord
<1>2. ASSUME NEW s \in strays
      PROVE  runs'[s.id] # NoRun /\ ~Underway(s.id)'
  <2>1. runs[s.id] # NoRun /\ runs[s.id].status # "running"
    BY DEF StraysAreOver, Underway
  <2> QED
    BY <1>1, <2>1, OutcomesLast DEF Underway
<1>3. ASSUME NEW f \in Fibers, TimesOut(f)
      PROVE  runs'[RunId(f)] # NoRun /\ runs'[RunId(f)].status # "running"
  <2>1. Settled(f, FALSE) /\ \E ok \in BOOLEAN : Settled(f, ok)
    BY <1>3 DEF TimesOut
  <2>2. /\ Underway(RunId(f))' <=> fibers'[f].pc = "running"
        /\ fibers'[f].t = fibers[f].t /\ fibers'[f].snap = fibers[f].snap
        /\ runs'[RunId(f)] # NoRun
    BY <2>1, RunRecorded
  <2>3. fibers'[f].pc = "ended"
    <3>1. fibers[f] \in FiberRecord /\ fibers \in [Fibers -> FiberRecord \cup {Idle}]
      BY <2>1, FiberFields DEF Settled, Running, IInv, TypeOK
    <3> QED
      BY <2>1, <3>1 DEF Settled, FiberRecord
  <2>4. RunId(f)' = RunId(f)
    BY <2>2 DEF RunId
  <2> QED
    BY <2>2, <2>3, <2>4 DEF Underway
<1>4. ASSUME NEW s \in strays'
      PROVE  runs'[s.id] # NoRun /\ ~Underway(s.id)'
  BY <1>2, <1>3, <1>4, StraysStem DEF Underway
<1> QED
  BY <1>4 DEF StraysAreOver, Underway

\* So a run is not executed beside its own stray, and README.md's "prevents
\* double execution across processes" holds of the handlers that outlive their
\* runs as well.
THEOREM RunsDoNotOverlap ==
    ASSUME Undisturbed, PlansReach, "crash" \notin Ops
    PROVE  Spec /\ []LeasesLast /\ []MonitorSpares => []NoOverlap
<1>1. Init => IInv /\ LInv /\ OInv /\ StraysAreOver
  BY InitIInv, InitLInv, InitOInv DEF Init, StraysAreOver
<1>2. IInv /\ LInv /\ OInv /\ StraysAreOver /\ LeasesLast /\ MonitorSpares /\ [Next]_vars
        => IInv' /\ LInv' /\ OInv' /\ StraysAreOver'
  BY StepIInv, StepLInv, StepOInv, StepStraysAreOver
<1>3. IInv /\ LInv /\ OInv /\ StraysAreOver => NoOverlap
  <2> SUFFICES ASSUME IInv, LInv, OInv, StraysAreOver
               PROVE  OneRunEach /\ NotBesideItself
    BY DEF NoOverlap
  <2>1. ASSUME NEW f \in Fibers, Running(f)
        PROVE  Underway(RunId(f))
    BY <2>1 DEF OInv, RunsNew, Live, Running
  <2>2. NotBesideItself
    BY <2>1 DEF StraysAreOver, NotBesideItself
  <2> QED
    BY <2>2, SingleRun
<1> QED
  BY <1>1, <1>2, <1>3, PTL DEF Spec

----------------------------------------------------------------------------
(* Times of cron triggers move on *)

\* A step that renews a cron trigger's record gives it a later time.
RecordMoves(t) ==
    /\ RecordSteps(t)
    /\ RecordRenews(t) /\ Exists(t) /\ Kind[t] = "cron" => trig'[t].next > trig[t].next

\* Whoever goes by snap has the time on record, which has come.
Due(t, snap) ==
    Kind[t] = "cron" =>
        /\ snap.next <= now
        /\ Exists(t) => trig[t].next = snap.next

DrainDue(d) ==
    drains[d].pc # "idle" =>
        /\ \A s \in drains[d].due : Kind[s.t] = "cron" => s.snap.next <= now
        /\ drains[d].pc = "decide" => Due(drains[d].cur.t, drains[d].cur.snap)

FiberDue(f) ==
    Live(f) => /\ fibers[f].sched = fibers[f].snap.next
               /\ Due(fibers[f].t, fibers[f].snap)

DInv == (\A d \in Drains : DrainDue(d)) /\ (\A f \in Fibers : FiberDue(f))

\* A run goes on for its occurrence, or is over.
FiberKeeps(f) ==
    Live(f)' => /\ Live(f)
                /\ fibers'[f].t = fibers[f].t /\ fibers'[f].snap = fibers[f].snap
                /\ fibers'[f].sched = fibers[f].sched

\* A record that is not written is not renewed.
LEMMA IdleRecordMoves ==
    ASSUME IInv, NEW t \in Triggers, RecordSteps(t), ids'[t] = ids[t]
    PROVE  RecordMoves(t)
<1>1. ids[t] \in Nat
  BY DEF IInv, TypeOK
<1> QED
  BY <1>1 DEF RecordMoves, RecordRenews

\* Who still owns the record after a step finds the time it had.
LEMMA DueLasts ==
    ASSUME IInv, NEW t \in Triggers, NEW snap \in TriggerRecord, NEW o,
           RecordSteps(t), now <= now', now' \in Nat,
           snap.rid <= ids[t], Owns(o, t, snap)', Due(t, snap)
    PROVE  Due(t, snap)'
<1>1. /\ ids[t] \in Nat /\ now \in Nat /\ snap.next \in Nat /\ snap.rid \in Nat
  BY DEF IInv, TypeOK, StoreTypeOK, TriggerRecord
<1>2. Kind[t] = "cron" => snap.next <= now'
  BY <1>1 DEF Due
<1>3. ASSUME Exists(t)', Kind[t] = "cron"
      PROVE  trig'[t].next = snap.next
  <2>1. trig'[t].rid = snap.rid
    BY <1>3 DEF Owns
  <2>2. ~RecordRenews(t)
    BY <1>1, <2>1 DEF RecordRenews
  <2> QED
    BY <1>3, <2>2 DEF RecordSteps, RecordFalls, RecordLasts, Due, Exists
<1> QED
  BY <1>2, <1>3 DEF Due

LEMMA DueGoesOn ==
    ASSUME IInv, IInv', LInv', OInv, DInv, now <= now', \A t \in Triggers : RecordSteps(t),
           \A d \in Drains : DrainGoesOn(d) \/ DrainDue(d)',
           \A f \in Fibers : FiberKeeps(f) \/ FiberDue(f)'
    PROVE  DInv'
<1>n. now \in Nat /\ now' \in Nat
  BY DEF IInv, TypeOK, StoreTypeOK
<1>1. ASSUME NEW d \in Drains
      PROVE  DrainDue(d)'
  <2> SUFFICES ASSUME DrainGoesOn(d), drains'[d].pc # "idle"
               PROVE  DrainDue(d)'
    BY DEF DrainDue
  <2>1. /\ drains[d].pc # "idle" /\ drains'[d].due \subseteq drains[d].due
        /\ DrainDue(d)
    BY DEF DrainGoesOn, DInv
  <2>2. ASSUME NEW s \in drains'[d].due, Kind[s.t] = "cron"
        PROVE  s.snap.next <= now'
    <3>1. s \in Snapshot /\ s.snap.next <= now
      BY <2>1, <2>2, DrainFields DEF DrainDue
    <3> QED
      BY <1>n, <3>1 DEF Snapshot, TriggerRecord
  <2>3. ASSUME drains'[d].pc = "decide"
        PROVE  Due(drains[d].cur.t, drains[d].cur.snap)'
    <3>1. /\ drains[d].pc = "decide" /\ drains'[d].cur = drains[d].cur
          /\ drains[d].cur.t \in Triggers /\ drains[d].cur.snap \in TriggerRecord
      BY <2>1, <2>3, DrainFields DEF DrainGoesOn
    <3>2. /\ drains[d].cur.snap.rid <= ids[drains[d].cur.t]
          /\ Due(drains[d].cur.t, drains[d].cur.snap)
      BY <2>1, <3>1 DEF OInv, DecidesNew, DrainDue
    <3>3. DecidesOwn(d)'
      BY DEF LInv
    <3> QED
      BY <1>n, <2>3, <3>1, <3>2, <3>3, DueLasts DEF DecidesOwn, Owns, Due
  <2> QED
    BY <2>2, <2>3 DEF DrainDue
<1>2. ASSUME NEW f \in Fibers
      PROVE  FiberDue(f)'
  <2> SUFFICES ASSUME FiberKeeps(f), Live(f)'
               PROVE  FiberDue(f)'
    BY DEF FiberDue
  <2>1. /\ Live(f) /\ FiberDue(f) /\ RunsNew(f)
        /\ fibers'[f].t = fibers[f].t /\ fibers'[f].snap = fibers[f].snap
        /\ fibers'[f].sched = fibers[f].sched
    BY DEF FiberKeeps, DInv, OInv
  <2>2. fibers[f].t \in Triggers /\ fibers[f].snap \in TriggerRecord
    BY <2>1, FiberFields DEF Live
  <2>3. RunsOwn(f)'
    BY DEF LInv
  <2> QED
    BY <1>n, <2>1, <2>2, <2>3, DueLasts DEF FiberDue, RunsNew, RunsOwn, Owns, Due
<1> QED
  BY <1>1, <1>2 DEF DInv

\* A cron plan yields a later occurrence than the one it is given,
LEMMA NextMatchIsLater ==
    ASSUME NEW occ \in SUBSET Nat, NEW endAt, NEW after \in Nat,
           NextMatch(occ, endAt, after) \in Nat
    PROVE  NextMatch(occ, endAt, after) > after
<1> DEFINE W == Within(occ, endAt, after)
<1>1. W \in SUBSET Nat /\ \A m \in W : after < m
  BY WithinIs
<1>2. W # {} /\ NextMatch(occ, endAt, after) = Least(W)
  BY WithinIs, MarkersAreNoInstants
<1> HIDE DEF W
<1>3. Least(W) \in W
  BY <1>1, <1>2, LeastInSet
<1> QED
  BY <1>1, <1>2, <1>3

\* and so does its skip.
LEMMA SkipToIsLater ==
    ASSUME NEW occ \in SUBSET Nat, IsFiniteSet(occ), NEW endAt \in Nat,
           NEW from \in Nat, NEW at \in Nat, NEW tolerance \in Nat,
           NEW maxSkip \in Nat \ {0},
           SkipTo("cron", occ, endAt, from, at, tolerance, maxSkip) \in Nat
    PROVE  SkipTo("cron", occ, endAt, from, at, tolerance, maxSkip) > from
<1> DEFINE way == Reached(occ, endAt, from)
           all == way \cup {from}
           m == SkipAmong(way, at, tolerance, maxSkip)
<1>1. /\ m \in way \cup {NoTime}
      /\ SkipTo("cron", occ, endAt, from, at, tolerance, maxSkip)
            = IF m = NoTime THEN NextMatch(occ, endAt, Greatest(all)) ELSE m
  <2>1. SkipEnd(occ, endAt, from, at, tolerance, maxSkip, way)
    BY SkipEnds
  <2> QED
    BY <2>1 DEF SkipEnd
<1>2. way \in SUBSET Nat /\ IsFiniteSet(way) /\ \A x \in way : from < x
  BY WayType
<1>3. Greatest(all) \in Nat /\ from <= Greatest(all)
  <2>1. all \in SUBSET Nat /\ IsFiniteSet(all) /\ from \in all
    BY <1>2, FS_AddElement
  <2> HIDE DEF all, way
  <2> QED
    BY <2>1, GreatestInSet DEF Greatest
<1> HIDE DEF way, all, m
<1>4. NextMatch(occ, endAt, Greatest(all)) \in Nat
        => NextMatch(occ, endAt, Greatest(all)) > Greatest(all)
  BY <1>3, NextMatchIsLater
<1> QED
  BY <1>1, <1>2, <1>3, <1>4

\* A run or a skip that renews the record does so for a later time.
LEMMA RenewalsMove ==
    ASSUME RetryDelay > 0, IInv, LInv, DInv, NEW t \in Triggers,
           \/ \E d \in Drains : DrainSkip(d)
           \/ \E f \in Fibers : Wrap(f)
    PROVE  RecordMoves(t)
<1>n. now \in Nat /\ RetryDelay \in Nat
  BY SchedulerAssumption DEF IInv, TypeOK, StoreTypeOK
<1>1. ASSUME NEW d \in Drains, DrainSkip(d)
      PROVE  RecordMoves(t)
  <2> DEFINE u == drains[d].cur.t
             m == SkippedTo(drains[d])
  <2>1. /\ RecordSteps(t)
        /\ RecordRenews(u) => m \in Nat /\ trig'[u].next = m
        /\ t # u => trig'[t] = trig[t] /\ ids'[t] = ids[t]
    <3>1. u \in Triggers /\ ids \in [Triggers -> 0..MaxRuns]
      BY <1>1, DrainFields DEF DrainSkip, Deciding, IInv, TypeOK
    <3>2. t # u => ids'[t] = ids[t]
      BY <1>1, <3>1 DEF DrainSkip, GenerateRunId
    <3> QED
      BY <1>1, <3>2, SkipWritten
  <2>2. CASE t # u
    BY <2>1, <2>2, IdleRecordMoves
  <2>3. CASE t = u
    <3>1. /\ drains[d].at \in Nat /\ u \in Triggers /\ drains[d].cur.snap.next \in Nat
          /\ drains[d].pc = "decide"
      BY <1>1, DrainFields DEF DrainSkip, Deciding, TriggerRecord
    <3>2. m \in Nat /\ Kind[u] = "cron" => m > drains[d].cur.snap.next
      <4>1. /\ Occ[u] \in SUBSET Nat /\ IsFiniteSet(Occ[u]) /\ EndAt[u] \in Nat
            /\ Tolerance \in Nat /\ MaxSkip \in Nat \ {0}
        BY <3>1, SchedulerAssumption
      <4> QED
        BY <3>1, <4>1, SkipToIsLater DEF SkippedTo
    <3>3. Exists(u) /\ Kind[u] = "cron" => trig[u].next = drains[d].cur.snap.next
      BY <3>1 DEF DInv, DrainDue, Due
    <3> HIDE DEF m
    <3> QED
      BY <2>1, <2>3, <3>2, <3>3 DEF RecordMoves
  <2> QED
    BY <2>2, <2>3
<1>2. ASSUME NEW f \in Fibers, Wrap(f)
      PROVE  RecordMoves(t)
  <2> DEFINE u == fibers[f].t
             m == NextRun(u, fibers[f].sched)
  <2>1. /\ RecordSteps(t)
        /\ RecordRenews(u) => \/ trig'[u].next = now + RetryDelay
                              \/ m \in Nat /\ trig'[u].next = m
        /\ t # u => trig'[t] = trig[t] /\ ids'[t] = ids[t]
    <3>1. u \in Triggers /\ ids \in [Triggers -> 0..MaxRuns]
      BY <1>2, FiberFields DEF Wrap, IInv, TypeOK
    <3>2. t # u => ids'[t] = ids[t]
      BY <1>2, <3>1 DEF Wrap, Settle, GenerateRunId
    <3> QED
      BY <1>2, <3>2, WrapWritten
  <2>2. CASE t # u
    BY <2>1, <2>2, IdleRecordMoves
  <2>3. CASE t = u
    <3>1. /\ u \in Triggers /\ fibers[f].sched \in Nat /\ Live(f)
      BY <1>2, FiberFields DEF Wrap, Live
    <3>2. m \in Nat /\ Kind[u] = "cron" => m > fibers[f].sched
      <4>1. Occ[u] \in SUBSET Nat /\ EndAt[u] \in Nat
        BY <3>1, SchedulerAssumption
      <4> QED
        BY <3>1, <4>1, NextMatchIsLater DEF NextRun, PlanNext
    <3>3. /\ Kind[u] = "cron" => fibers[f].sched <= now
          /\ Kind[u] = "cron" /\ Exists(u) => trig[u].next = fibers[f].sched
      BY <3>1 DEF DInv, FiberDue, Due
    <3> HIDE DEF m
    <3>4. Kind[u] = "cron" => now + RetryDelay > fibers[f].sched
      BY <1>n, <3>1, <3>3
    <3> QED
      BY <2>1, <2>3, <3>2, <3>3, <3>4 DEF RecordMoves
  <2> QED
    BY <2>2, <2>3
<1> QED
  BY <1>1, <1>2

\* Every step but a monitor's or a crash writes a later time, or none.
LEMMA StepMoves ==
    ASSUME Undisturbed, "crash" \notin Ops, RetryDelay > 0,
           IInv, IInv', LInv, OInv, DInv, MonitorSpares, [Next]_vars, NEW t \in Triggers
    PROVE  RecordMoves(t)
<1>1. CASE UNCHANGED <<trig, ids>>
  BY <1>1, RecordKept, IdleRecordMoves
<1>2. ASSUME NEW o \in Owners PROVE ~MonScan(o) /\ ~MonStep(o) /\ ~Crash(o)
  BY NothingStalled DEF Crash, Happens
<1>3. ASSUME NEW o \in Owners,
             \/ Tick(o) \/ PauseAll(o) \/ ResumeAll(o) \/ Shutdown(o) \/ Restart(o)
             \/ \E j \in Jobs : UnregisterJob(o, j)
      PROVE  UNCHANGED <<trig, ids>>
  BY <1>3 DEF Tick, PauseAll, ResumeAll, Shutdown, Restart, UnregisterJob, storeVars
<1>4. CASE \/ \E j \in Jobs, b \in BOOLEAN : PauseJob(j, b)
           \/ \E s \in strays : StrayEnds(s)
           \/ \E id \in Executing : Touch(id)
           \/ UNCHANGED vars
  BY <1>1, <1>4 DEF PauseJob, StrayEnds, Touch, storeVars, vars
<1>5. CASE \/ \E op \in {"pause", "resume", "cancel"}, u \in Triggers : EditGet(op, u)
           \/ EditPut
           \/ Advance
  BY <1>5, HandleCallOnce, IdleRecordMoves
<1>6. ASSUME NEW d \in Drains, DrainStep(d) PROVE RecordMoves(t)
  <2>1. CASE DrainSkip(d)
    BY <2>1, RenewalsMove
  <2>2. CASE DrainJobMissing(d) \/ DrainRelease(d)
    <3>1. UNCHANGED ids
      BY <2>2 DEF DrainJobMissing, DrainRelease
    <3> QED
      BY <2>2, <3>1, GivenBackWritten, IdleRecordMoves
  <2>3. CASE DrainDispatch(d) \/ DrainGivesUp(d)
    BY <1>1, <2>3 DEF DrainDispatch, DrainGivesUp, storeVars
  <2>4. CASE DrainClaim(d)
    <3>1. PICK s \in drains[d].due :
             \/ UNCHANGED trig
             \/ Claimable(s.t, drains[d].o) /\ ClaimTrigger(s.t, drains[d].o, LeaseMs)
      BY <2>4 DEF DrainClaim
    <3>2. UNCHANGED ids /\ s.t \in Triggers
      BY <2>4, DrainFields DEF DrainClaim, Snapshot
    <3> QED
      BY <1>1, <3>1, <3>2, LeaseWritten, IdleRecordMoves
  <2> QED
    BY <1>6, <2>1, <2>2, <2>3, <2>4 DEF DrainStep
<1>7. ASSUME NEW f \in Fibers,
             FiberStep(f) \/ TimesOut(f) \/ \E ok \in BOOLEAN : Finish(f, ok)
      PROVE  RecordMoves(t)
  <2>1. CASE Wrap(f)
    BY <2>1, RenewalsMove
  <2>2. CASE WrapHandled(f) \/ ReleaseLease(f)
    <3>1. /\ ReleaseTrigger(fibers[f].t, fibers[f].o) /\ UNCHANGED ids
          /\ fibers[f].pc # "idle"
      BY <2>2 DEF WrapHandled, ReleaseLease
    <3>2. fibers[f].t \in Triggers
      BY <3>1, FiberFields
    <3> QED
      BY <3>1, <3>2, LeaseWritten, IdleRecordMoves
  <2>3. CASE \/ AcquireMore(f) \/ Resume(f) \/ StartRun(f) \/ WrapGivesUp(f)
             \/ TimesOut(f) \/ \E ok \in BOOLEAN : Finish(f, ok)
    BY <1>1, <2>3 DEF AcquireMore, Resume, StartRun, WrapGivesUp, TimesOut, Finish,
                      Settled, storeVars
  <2> QED
    BY <1>7, <2>1, <2>2, <2>3 DEF FiberStep
<1>8. ASSUME NEW o \in Owners, NEW u \in Triggers, Schedule(o, u) \/ ExecuteNow(o, u)
      PROVE  RecordMoves(t)
  <2>1. ids[u] = 0
    BY <1>8 DEF Schedule, ExecuteNow, Happens, Undisturbed
  <2>2. ~Exists(u)
    BY <2>1 DEF LInv, Known
  <2>3. /\ RecordSteps(t)
        /\ t # u => ids'[t] = ids[t]
    BY <1>8, NewWritten
  <2> QED
    BY <2>2, <2>3, IdleRecordMoves DEF RecordMoves
<1> QED
  BY <1>1, <1>2, <1>3, <1>4, <1>5, <1>6, <1>7, <1>8 DEF Next, Call

\* What a poll or a claim finds is due.
LEMMA StepDrainsDue ==
    ASSUME Undisturbed, "crash" \notin Ops,
           IInv, IInv', LInv, OInv, DInv, MonitorSpares, [Next]_vars,
           \A t \in Triggers : RecordSteps(t), NEW d \in Drains
    PROVE  DrainGoesOn(d) \/ DrainDue(d)'
<1>1. CASE UNCHANGED drains
  BY <1>1, DrainsKept
<1>2. ASSUME NEW o \in Owners PROVE ~MonScan(o) /\ ~MonStep(o) /\ ~Crash(o)
  BY NothingStalled DEF Crash, Happens
<1>3. ASSUME NEW o \in Owners, Tick(o), NEW e \in Drains,
             drains' = [drains EXCEPT ![e] = Claiming(o, now, ListDue(now), TRUE)]
      PROVE  DrainGoesOn(d) \/ DrainDue(d)'
  <2> DEFINE r == Claiming(o, now, ListDue(now), TRUE)
  <2>1. r.pc = "claim" /\ r.due = ListDue(now)
    BY DEF Claiming
  <2>2. \A s \in ListDue(now) : s.snap.next <= now
    BY DEF ListDue, Snapshots, Available
  <2> HIDE DEF r
  <2>3. drains'[e] = r /\ \A x \in Drains : x # e => drains'[x] = drains[x]
    BY <1>3 DEF r, IInv, TypeOK
  <2>4. UNCHANGED now
    BY <1>3 DEF Tick
  <2> QED
    BY <2>1, <2>2, <2>3, <2>4 DEF DrainGoesOn, DrainDue
<1>4. ASSUME NEW o \in Owners, Tick(o) PROVE DrainGoesOn(d) \/ DrainDue(d)'
  BY <1>1, <1>3, <1>4 DEF Tick
<1>5. ASSUME NEW e \in Drains, DrainStep(e) PROVE DrainGoesOn(d) \/ DrainDue(d)'
  <2>1. CASE DrainJobMissing(e) \/ DrainSkip(e) \/ DrainGivesUp(e) \/ DrainRelease(e)
    BY <2>1, DrainGivesBackWork
  <2>2. CASE DrainDispatch(e)
    <3>1. drains[e].pc # "idle" /\ Go(e, drains[e].due)
      BY <2>2 DEF DrainDispatch, Deciding
    <3> QED
      BY <3>1, GoGoesOn
  <2>3. ASSUME DrainClaim(e), NEW s \in drains[e].due,
               Claimable(s.t, drains[e].o),
               drains' = [drains EXCEPT ![e] =
                    [pc |-> "decide", o |-> drains[e].o, at |-> drains[e].at,
                     due |-> drains[e].due \ {s}, poll |-> drains[e].poll, cur |-> s]]
        PROVE  DrainGoesOn(d) \/ DrainDue(d)'
    <3> DEFINE x == [pc |-> "decide", o |-> drains[e].o, at |-> drains[e].at,
                     due |-> drains[e].due \ {s}, poll |-> drains[e].poll, cur |-> s]
    <3>1. x.pc = "decide" /\ x.cur = s /\ x.due \subseteq drains[e].due
      OBVIOUS
    <3> HIDE DEF x
    <3>2. drains'[e] = x /\ \A y \in Drains : y # e => drains'[y] = drains[y]
      BY <2>3 DEF x, IInv, TypeOK
    <3>3. /\ drains[e].pc # "idle" /\ UNCHANGED <<now, ids>> /\ s.t \in Triggers
          /\ trig[s.t] = s.snap /\ Exists(s.t)
      BY <2>3, DrainFields DEF DrainClaim, Snapshot, Claimable, LInv, ListsRecords
    <3>4. /\ \A y \in drains[e].due : Kind[y.t] = "cron" => y.snap.next <= now
          /\ Kind[s.t] = "cron" => s.snap.next <= now
      BY <2>3, <3>3 DEF DInv, DrainDue
    <3>5. Exists(s.t)' => trig'[s.t].next = s.snap.next
      <4>1. RecordSteps(s.t) /\ ids[s.t] \in Nat
        BY <3>3 DEF IInv, TypeOK
      <4> QED
        BY <3>3, <4>1 DEF RecordSteps, RecordFalls, RecordLasts, RecordRenews, Exists
    <3>6. DrainDue(e)'
      BY <3>1, <3>2, <3>3, <3>4, <3>5 DEF DrainDue, Due, Exists
    <3> QED
      BY <3>2, <3>6 DEF DrainGoesOn
  <2>4. CASE DrainClaim(e)
    <3>1. drains[e].pc = "claim" /\ drains[e].pc # "idle"
      BY <2>4 DEF DrainClaim
    <3>2. ASSUME NEW due \in SUBSET drains[e].due, Go(e, due)
          PROVE  DrainGoesOn(d)
      BY <3>1, <3>2, GoGoesOn
    <3> QED
      BY <2>3, <2>4, <3>2 DEF DrainClaim
  <2> QED
    BY <1>5, <2>1, <2>2, <2>4 DEF DrainStep
<1>6. ASSUME NEW f \in Fibers,
             FiberStep(f) \/ TimesOut(f) \/ \E ok \in BOOLEAN : Finish(f, ok)
      PROVE  UNCHANGED drains
  BY <1>6 DEF FiberStep, AcquireMore, Resume, StartRun, WrapHandled, Wrap, WrapGivesUp,
              ReleaseLease, TimesOut, Finish, Settled
<1>7. ASSUME NEW o \in Owners, NEW t \in Triggers, ExecuteNow(o, t)
      PROVE  DrainGoesOn(d) \/ DrainDue(d)'
  <2> DEFINE snap == NewTrigger(NextRun(t, now), NewId(t))
             r == Claiming(o, now, {[t |-> t, snap |-> snap]}, FALSE)
  <2>1. PICK e \in Drains : drains' = [drains EXCEPT ![e] = r]
    BY <1>7 DEF ExecuteNow
  <2>2. r.pc = "claim" /\ \A s \in r.due : Kind[s.t] # "cron"
    BY <1>7 DEF Claiming, ExecuteNow
  <2> HIDE DEF r
  <2>3. drains'[e] = r /\ \A x \in Drains : x # e => drains'[x] = drains[x]
    BY <2>1 DEF IInv, TypeOK
  <2> QED
    BY <2>2, <2>3 DEF DrainGoesOn, DrainDue
<1>8. CASE \/ Call /\ ~(\E o \in Owners, t \in Triggers : ExecuteNow(o, t))
           \/ Advance \/ UNCHANGED vars \/ \E o \in Owners : Restart(o)
           \/ \E s \in strays : StrayEnds(s)
           \/ \E id \in Executing : Touch(id)
  BY <1>1, <1>8 DEF Call, PauseAll, ResumeAll, Shutdown, Restart, Schedule, UnregisterJob,
                    PauseJob, EditGet, EditPut, Advance, StrayEnds, Touch, vars
<1> QED
  BY <1>1, <1>2, <1>4, <1>5, <1>6, <1>7, <1>8 DEF Next

\* A run is dispatched for an occurrence that is due, and keeps it.
LEMMA StepFibersDue ==
    ASSUME "crash" \notin Ops, IInv, IInv', OInv, DInv, MonitorSpares, [Next]_vars,
           NEW g \in Fibers
    PROVE  FiberKeeps(g) \/ FiberDue(g)'
<1>1. CASE fibers'[g] = fibers[g]
  BY <1>1 DEF FiberKeeps, Live
<1>2. ASSUME NEW o \in Owners PROVE ~MonScan(o) /\ ~MonStep(o) /\ ~Crash(o)
  BY NothingStalled DEF Crash, Happens
<1>t. fibers \in [Fibers -> FiberRecord \cup {Idle}]
  BY DEF IInv, TypeOK
<1>a. ASSUME NEW f \in Fibers, NEW r \in FiberRecord, Acquire(f, r)
      PROVE  /\ fibers'[f].t = r.t /\ fibers'[f].snap = r.snap
             /\ fibers'[f].sched = r.sched
             /\ \A x \in Fibers : x # f => fibers'[x] = fibers[x]
  <2> DEFINE h == r.held \cup {NextPermit(r)}
  <2>1. fibers' \in {[fibers EXCEPT ![f] = r], [fibers EXCEPT ![f] = [r EXCEPT !.held = h]],
                     [fibers EXCEPT ![f] = [r EXCEPT !.pc = "waiting"]]}
    BY <1>a DEF Acquire
  <2> HIDE DEF h
  <2>2. /\ fibers'[f] \in {r, [r EXCEPT !.held = h], [r EXCEPT !.pc = "waiting"]}
        /\ \A x \in Fibers : x # f => fibers'[x] = fibers[x]
    BY <1>t, <2>1
  <2>3. \A x \in {r, [r EXCEPT !.held = h], [r EXCEPT !.pc = "waiting"]} :
           x.t = r.t /\ x.snap = r.snap /\ x.sched = r.sched
    BY DEF FiberRecord
  <2> QED
    BY <2>2, <2>3
<1>3. ASSUME NEW d \in Drains, DrainDispatch(d)
      PROVE  FiberKeeps(g) \/ FiberDue(g)'
  <2> DEFINE r == [pc |-> "acquire", o |-> drains[d].o, t |-> drains[d].cur.t,
                   snap |-> drains[d].cur.snap, sched |-> drains[d].cur.snap.next,
                   held |-> {}, since |-> 0, ok |-> FALSE]
  <2>1. PICK f \in Fibers : fibers[f] = Idle /\ Acquire(f, r)
    BY <1>3 DEF DrainDispatch
  <2>2. drains[d].pc = "decide" /\ UNCHANGED <<trig, now>>
    BY <1>3 DEF DrainDispatch, Deciding, storeVars
  <2>3. /\ r \in FiberRecord /\ r.sched = r.snap.next
        /\ r.t = drains[d].cur.t /\ r.snap = drains[d].cur.snap
    BY <2>2, DrainFields DEF FiberRecord, TriggerRecord
  <2> HIDE DEF r
  <2>4. /\ fibers'[f].t = r.t /\ fibers'[f].snap = r.snap /\ fibers'[f].sched = r.sched
        /\ \A x \in Fibers : x # f => fibers'[x] = fibers[x]
    BY <1>a, <2>1, <2>3
  <2>5. Due(r.t, r.snap)
    BY <2>2, <2>3 DEF DInv, DrainDue
  <2>6. FiberDue(f)'
    BY <2>2, <2>3, <2>4, <2>5 DEF FiberDue, Due, Exists
  <2> QED
    BY <1>1, <2>4, <2>6
<1>4. ASSUME NEW d \in Drains, DrainStep(d), ~DrainDispatch(d) PROVE UNCHANGED fibers
  BY <1>4 DEF DrainStep, DrainClaim, DrainJobMissing, DrainSkip, DrainGivesUp,
              DrainRelease
<1>5. ASSUME NEW f \in Fibers, AcquireMore(f) PROVE FiberKeeps(g)
  <2>1. Acquire(f, fibers[f]) /\ fibers[f].pc = "acquire" /\ fibers[f] \in FiberRecord
    BY <1>5, FiberFields DEF AcquireMore
  <2> QED
    BY <1>a, <1>1, <2>1 DEF FiberKeeps, Live
<1>6. ASSUME NEW f \in Fibers, NEW r, fibers' = [fibers EXCEPT ![f] = r], Live(f),
             r.t = fibers[f].t, r.snap = fibers[f].snap, r.sched = fibers[f].sched
      PROVE  FiberKeeps(g)
  <2>1. CASE g = f
    BY <1>t, <1>6, <2>1 DEF FiberKeeps
  <2>2. CASE g # f
    BY <1>t, <1>1, <1>6, <2>2 DEF FiberKeeps, Live
  <2> QED
    BY <2>1, <2>2
<1>7. ASSUME NEW f \in Fibers, \/ Resume(f) \/ StartRun(f)
                               \/ \E ok \in BOOLEAN : Settled(f, ok)
      PROVE  FiberKeeps(g)
  <2>1. Live(f) /\ fibers[f] \in FiberRecord
    BY <1>7, FiberFields DEF Resume, StartRun, Settled, Running, Live
  <2> DEFINE h == fibers[f].held \cup {NextPermit(fibers[f])}
             a == [fibers[f] EXCEPT !.pc = "acquire", !.held = h]
             b(n) == [fibers[f] EXCEPT !.pc = "running", !.since = n]
             c(ok) == [fibers[f] EXCEPT !.pc = "ended", !.since = 0, !.ok = ok]
  <2>2. \A r : (r = a \/ (\E n : r = b(n)) \/ (\E ok : r = c(ok))) =>
            r.t = fibers[f].t /\ r.snap = fibers[f].snap /\ r.sched = fibers[f].sched
    <3> HIDE DEF h
    <3> QED
      BY <2>1 DEF FiberRecord
  <2>3. \/ fibers' = [fibers EXCEPT ![f] = a]
        \/ \E n : fibers' = [fibers EXCEPT ![f] = b(n)]
        \/ \E ok : fibers' = [fibers EXCEPT ![f] = c(ok)]
    <3>1. CASE Resume(f)
      BY <1>t, <3>1 DEF Resume
    <3>2. CASE StartRun(f)
      <4>1. \E n : fibers' = [fibers EXCEPT ![f] = b(n)]
        BY <1>t, <3>2 DEF StartRun
      <4> QED
        BY <4>1
    <3>3. ASSUME NEW ok \in BOOLEAN, Settled(f, ok)
          PROVE  fibers' = [fibers EXCEPT ![f] = c(ok)]
      BY <1>t, <3>3 DEF Settled
    <3> QED
      BY <1>7, <3>1, <3>2, <3>3
  <2> HIDE DEF a, b, c
  <2> QED
    BY <1>6, <2>1, <2>2, <2>3
<1>8. ASSUME NEW f \in Fibers, WrapHandled(f) \/ Wrap(f) \/ WrapGivesUp(f) \/ ReleaseLease(f)
      PROVE  FiberKeeps(g)
  <2>1. CASE g = f
    <3>1. fibers'[f].pc \in {"idle", "release"}
      <4> DEFINE W == FibersWoken(fibers[f].o, RunId(f))
      <4>1. /\ fibers[f] \in FiberRecord /\ fibers[f].o \in Owners /\ RunId(f) \in RunIds
            /\ ReleaseLease(f) \/ fibers[f].pc = "ended"
        BY <1>8, FiberFields DEF WrapHandled, Wrap, WrapGivesUp, ReleaseLease
      <4>2. CASE ReleaseLease(f)
        BY <1>t, <4>2 DEF ReleaseLease, Idle
      <4>3. CASE fibers[f].pc = "ended" /\ (WrapHandled(f) \/ Wrap(f) \/ WrapGivesUp(f))
        <5>1. W[f] = fibers[f] /\ W \in [Fibers -> FiberRecord \cup {Idle}]
          BY <4>1, <4>3, FreedEffect
        <5>2. \/ fibers' = [W EXCEPT ![f] = Idle]
              \/ fibers' = [W EXCEPT ![f].pc = "release"]
          BY <4>3 DEF WrapHandled, Wrap, WrapGivesUp
        <5> HIDE DEF W
        <5>3. \/ fibers'[f] = Idle
              \/ fibers'[f] = [fibers[f] EXCEPT !.pc = "release"]
          BY <5>1, <5>2
        <5> QED
          BY <4>1, <5>3 DEF FiberRecord, Idle
      <4> QED
        BY <1>8, <4>1, <4>2, <4>3
    <3> QED
      BY <2>1, <3>1 DEF FiberKeeps, Live
  <2>2. CASE g # f
    <3>1. CASE ReleaseLease(f)
      BY <1>1, <1>t, <2>2, <3>1 DEF ReleaseLease, FiberKeeps, Live
    <3>2. CASE WrapHandled(f) \/ Wrap(f) \/ WrapGivesUp(f)
      <4> DEFINE W == FibersWoken(fibers[f].o, RunId(f))
      <4>1. fibers'[g] = W[g]
        BY <2>2, <3>2 DEF WrapHandled, Wrap, WrapGivesUp, FibersWoken
      <4>2. fibers[g].pc = "idle" => W[g].pc = "idle"
        <5>1. fibers[f].o \in Owners /\ RunId(f) \in RunIds
          BY <3>2, FiberFields DEF WrapHandled, Wrap, WrapGivesUp
        <5> QED
          BY <5>1, FreedEffect
      <4>3. \/ W[g] = fibers[g]
            \/ W[g] = [fibers[g] EXCEPT !.pc = "woken"]
        BY DEF FibersWoken
      <4>4. fibers[g].pc = "release" => W[g].pc = "release"
        <5>1. fibers[f].o \in Owners /\ RunId(f) \in RunIds
          BY <3>2, FiberFields DEF WrapHandled, Wrap, WrapGivesUp
        <5> QED
          BY <5>1, FreedEffect
      <4> HIDE DEF W
      <4>5. CASE fibers[g].pc \in {"idle", "release"}
        BY <4>1, <4>2, <4>4, <4>5 DEF FiberKeeps, Live
      <4>6. CASE fibers[g].pc \notin {"idle", "release"}
        <5>1. fibers[g] \in FiberRecord
          BY <4>6, FiberFields
        <5> QED
          BY <4>1, <4>3, <4>6, <5>1 DEF FiberKeeps, Live, FiberRecord
      <4> QED
        BY <4>5, <4>6
    <3> QED
      BY <1>8, <3>1, <3>2
  <2> QED
    BY <2>1, <2>2
<1>9. ASSUME NEW o \in Owners, Tick(o) \/ Restart(o) PROVE UNCHANGED fibers
  BY <1>9 DEF Tick, Restart
<1>10. CASE \/ Call \/ Advance \/ UNCHANGED vars
            \/ \E s \in strays : StrayEnds(s)
            \/ \E id \in Executing : Touch(id)
  <2>1. UNCHANGED fibers
    BY <1>10 DEF Call, PauseAll, ResumeAll, Shutdown, Schedule, ExecuteNow, UnregisterJob,
                 PauseJob, EditGet, EditPut, Advance, StrayEnds, Touch, vars
  <2> QED
    BY <1>1, <2>1
<1>11. ASSUME NEW f \in Fibers, TimesOut(f) \/ \E ok \in BOOLEAN : Finish(f, ok)
       PROVE  \E ok \in BOOLEAN : Settled(f, ok)
  BY <1>11 DEF TimesOut, Finish
<1> QED
  BY <1>1, <1>2, <1>3, <1>4, <1>5, <1>7, <1>8, <1>9, <1>10, <1>11 DEF Next, FiberStep

LEMMA InitDInv == Init => DInv
BY DEF Init, Idle, DInv, DrainDue, FiberDue, Live

\* What follows needs retries that are put off, and no crash.
Onward == "crash" \notin Ops /\ RetryDelay > 0

LEMMA StepDInv ==
    ASSUME Undisturbed, Onward
    PROVE  IInv /\ LInv /\ LInv' /\ OInv /\ DInv /\ MonitorSpares /\ [Next]_vars => DInv'
<1> SUFFICES ASSUME IInv, LInv, LInv', OInv, DInv, MonitorSpares, [Next]_vars
             PROVE  DInv'
  OBVIOUS
<1>1. IInv'
  BY StepIInv
<1>2. \A t \in Triggers : RecordSteps(t)
  BY <1>1, StepMoves DEF Onward, RecordMoves
<1>3. \A d \in Drains : DrainGoesOn(d) \/ DrainDue(d)'
  BY <1>1, <1>2, StepDrainsDue DEF Onward
<1>4. \A f \in Fibers : FiberKeeps(f) \/ FiberDue(f)'
  BY <1>1, StepFibersDue DEF Onward
<1>5. now <= now'
  <2>1. now \in Nat
    BY DEF IInv, TypeOK, StoreTypeOK
  <2>2. ASSUME NEW o \in Owners, Tick(o) \/ MonScan(o) \/ MonStep(o) \/ Crash(o) \/ Restart(o)
        PROVE  now' = now
    BY <2>2 DEF Tick, MonScan, MonStep, MonGet, MonForget, MonRecordEnd, MonSettle,
                MonGivesUp, MonRelease, Crash, Restart
  <2>3. ASSUME NEW d \in Drains, DrainStep(d)
        PROVE  now' = now
    BY <2>3 DEF DrainStep, DrainClaim, DrainJobMissing, DrainSkip, DrainGivesUp,
                DrainDispatch, DrainRelease
  <2>4. ASSUME NEW f \in Fibers,
               FiberStep(f) \/ TimesOut(f) \/ \E ok \in BOOLEAN : Finish(f, ok)
        PROVE  now' = now
    BY <2>4 DEF FiberStep, AcquireMore, Resume, StartRun, WrapHandled, Wrap, WrapGivesUp,
                ReleaseLease, TimesOut, Finish, Settled
  <2>5. ASSUME \/ Call \/ UNCHANGED vars
               \/ \E s \in strays : StrayEnds(s)
               \/ \E id \in Executing : Touch(id)
        PROVE  now' = now
    BY <2>5 DEF Call, PauseAll, ResumeAll, Shutdown, Schedule, ExecuteNow, UnregisterJob,
                PauseJob, EditGet, EditPut, StrayEnds, Touch, vars
  <2>6. CASE Advance
    BY <2>1, <2>6 DEF Advance
  <2> QED
    BY <2>1, <2>2, <2>3, <2>4, <2>5, <2>6 DEF Next
<1> QED
  BY <1>1, <1>2, <1>3, <1>4, <1>5, DueGoesOn

\* A cron trigger's next run is for a later time.
LEMMA TimesMoveOn ==
    ASSUME Undisturbed, Onward,
           IInv, IInv', LInv, OInv, DInv, MonitorSpares, [Next]_vars,
           NEW t \in Triggers, Kind[t] = "cron", Exists(t), trig'[t] # NoTrigger
    PROVE  IF trig'[t].rid = trig[t].rid THEN trig'[t].next = trig[t].next
           ELSE trig'[t].next > trig[t].next
<1>1. RecordMoves(t)
  BY StepMoves DEF Onward
<1>2. /\ ids[t] \in Nat /\ trig[t].rid \in 1..MaxRuns /\ trig[t].rid <= ids[t]
  BY <1>1, IdsGrow DEF RecordMoves, OInv, Dated
<1> QED
  BY <1>1, <1>2 DEF RecordMoves, RecordSteps, RecordFalls, RecordLasts, RecordRenews

\* No run is started or ended again, and no occurrence of a cron trigger that
\* has been run or skipped is planned again, whatever fails, times out, is
\* retried, skipped, canceled, unregistered, paused or shut down: for any
\* engines without crashes, plans that do not give up, and retries that are
\* put off.
THEOREM NothingIsTakenUpTwice ==
    ASSUME Undisturbed, PlansReach, Onward
    PROVE  Spec /\ []LeasesLast /\ []MonitorSpares => NothingTwice
<1>1. Init => IInv /\ LInv /\ OInv /\ DInv
  BY InitIInv, InitLInv, InitOInv, InitDInv
<1>2. IInv /\ LInv /\ OInv /\ DInv /\ LeasesLast /\ MonitorSpares /\ [Next]_vars
        => IInv' /\ LInv' /\ OInv' /\ DInv'
  BY StepIInv, StepLInv, StepOInv, StepDInv DEF Onward
<1>3. IInv /\ IInv' /\ LInv /\ OInv /\ DInv /\ MonitorSpares /\ [Next]_vars
        => [\A t \in Triggers :
              Kind[t] = "cron" /\ Exists(t) /\ trig'[t] # NoTrigger =>
                IF trig'[t].rid = trig[t].rid THEN trig'[t].next = trig[t].next
                ELSE trig'[t].next > trig[t].next]_vars
  BY TimesMoveOn
<1>4. Spec /\ []LeasesLast /\ []MonitorSpares => NextMovesOn
  BY <1>1, <1>2, <1>3, PTL DEF Spec, NextMovesOn
<1> QED
  BY <1>4, RunsSettleOnce DEF Onward, NothingTwice

\* The same from the configuration alone, when its runs time out in time, also
\* if their handlers then go on.
THEOREM TimelyRunsAreOnce ==
    ASSUME Undisturbed, Unhurried, PlansReach, Onward
    PROVE  Spec => NothingTwice /\ []NoOverlap
<1>1. Init => IInv /\ LInv /\ TInv
  BY InitIInv, InitLInv, InitTInv
<1>2. IInv /\ LInv /\ TInv /\ [Next]_vars => IInv' /\ LInv' /\ TInv'
  BY StepIInv, StepLInv, StepTInv, InTimeSpares
<1>3. IInv /\ LInv /\ TInv => LeasesLast /\ MonitorSpares
  BY InTimeSpares
<1>4. Spec => []LeasesLast /\ []MonitorSpares
  BY <1>1, <1>2, <1>3, PTL DEF Spec
<1> QED
  BY <1>4, NothingIsTakenUpTwice, RunsDoNotOverlap DEF Onward
=============================================================================
