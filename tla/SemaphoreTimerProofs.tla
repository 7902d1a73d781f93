----------------------- MODULE SemaphoreTimerProofs -----------------------
(***************************************************************************)
(* What packages/cron/src/queue promises, semaphore.ts and rateLimiter.ts, *)
(* and what debounce and throttle of shareds/async do, which Timers models *)
(* beside the rate limiter.                                                *)
(*                                                                         *)
(* The invariants of CronSemaphore hold for any set of callers and any     *)
(* limit: CountIsHolders and NoLostWakeup need to know that a caller's pc  *)
(* says where the caller is: in the queue, woken, or holding.  Those of    *)
(* Timers hold for any wait, maxWait, capacity, rate and interval.         *)
(*                                                                         *)
(* The last part is about the planner of packages/cron that keeps a state, *)
(* the rrule planner of Calendar, for any rules, days and hours of a day.  *)
(***************************************************************************)
EXTENDS CronSemaphore, Timers, Calendar, SequenceTheorems, FiniteSetTheorems, TLAPS

\* Every queued caller is waiting, every woken one is marked as such.
Placed ==
    /\ \A i \in 1..Len(queue) : pc[queue[i]] = "waiting"
    /\ \A i \in 1..Len(woken) : pc[woken[i]] = "woken"

\* A caller queues once and is woken once.
Once ==
    /\ \A i, j \in 1..Len(queue) : queue[i] = queue[j] => i = j
    /\ \A i, j \in 1..Len(woken) : woken[i] = woken[j] => i = j

IInv == TypeOK /\ Placed /\ Once /\ CountIsHolders /\ NoLostWakeup

----------------------------------------------------------------------------
\* One caller more, or one less, changes the number of holders by one.
LEMMA HoldersGain ==
    ASSUME TypeOK, NEW c \in Callers, pc[c] # "held",
           pc' \in [Callers -> {"idle", "waiting", "woken", "held"}],
           \A d \in Callers : pc'[d] = "held" <=> d = c \/ pc[d] = "held"
    PROVE  Cardinality(Holders') = Cardinality(Holders) + 1
<1>1. Holders' = Holders \cup {c}
  BY DEF Holders
<1>2. c \notin Holders /\ IsFiniteSet(Holders)
  BY CallersAssumption, FS_Subset DEF Holders
<1> QED
  BY <1>1, <1>2, FS_AddElement

\* One holder less.
LEMMA HoldersLoss ==
    ASSUME TypeOK, NEW c \in Callers, pc[c] = "held",
           \A d \in Callers : pc'[d] = "held" <=> d # c /\ pc[d] = "held"
    PROVE  /\ Cardinality(Holders') = Cardinality(Holders) - 1
           /\ Cardinality(Holders) \in Nat \ {0}
<1>1. Holders' = Holders \ {c}
  BY DEF Holders
<1>2. c \in Holders /\ IsFiniteSet(Holders)
  BY CallersAssumption, FS_Subset DEF Holders
<1>3. Cardinality(Holders) # 0
  BY <1>2, FS_EmptySet
<1> QED
  BY <1>1, <1>2, <1>3, FS_RemoveElement, FS_CardinalityType

\* No holder more or less.
LEMMA HoldersSame ==
    ASSUME \A d \in Callers : pc'[d] = "held" <=> pc[d] = "held"
    PROVE  Cardinality(Holders') = Cardinality(Holders)
BY DEF Holders

\* What becomes of a queue's entries when it loses its head or gains one.
LEMMA TailEntries ==
    ASSUME NEW S, NEW q \in Seq(S), q # <<>>
    PROVE  /\ Tail(q) \in Seq(S) /\ Head(q) \in S
           /\ Head(q) = q[1] /\ 1 \in 1..Len(q)
           /\ Len(Tail(q)) = Len(q) - 1
           /\ \A i \in 1..Len(Tail(q)) :
                i + 1 \in 1..Len(q) /\ Tail(q)[i] = q[i + 1]
OBVIOUS

\* What becomes of a queue's entries when it gains one.
LEMMA AppendEntries ==
    ASSUME NEW S, NEW q \in Seq(S), NEW x \in S
    PROVE  /\ Append(q, x) \in Seq(S)
           /\ Len(Append(q, x)) = Len(q) + 1
           /\ \A i \in 1..Len(Append(q, x)) :
                Append(q, x)[i] = IF i <= Len(q) THEN q[i] ELSE x
OBVIOUS

----------------------------------------------------------------------------
\* Nobody waits or holds at the start.
LEMMA InitIInv == Init => IInv
<1> SUFFICES ASSUME Init PROVE IInv
  OBVIOUS
<1>1. TypeOK
  BY DEF Init, TypeOK
<1>2. Holders = {}
  BY DEF Init, Holders
<1>3. CountIsHolders
  BY <1>2, FS_EmptySet DEF Init, CountIsHolders
<1> QED
  BY <1>1, <1>3 DEF Init, IInv, Placed, Once, NoLostWakeup

\* acquire() with a free permit.
LEMMA AcquireNowIInv ==
    ASSUME IInv, NEW c \in Callers, AcquireNow(c)
    PROVE  IInv'
<1> USE DEF IInv, AcquireNow
<1>1. TypeOK'
  BY DEF TypeOK
<1>2. Cardinality(Holders') = Cardinality(Holders) + 1
  BY <1>1, HoldersGain DEF TypeOK
<1>3. Placed'
  BY DEF Placed, TypeOK
<1>4. Once'
  BY DEF Once
<1>5. CountIsHolders'
  BY <1>2 DEF CountIsHolders
<1>6. NoLostWakeup'
  BY LimitAssumption DEF NoLostWakeup, TypeOK
<1> QED
  BY <1>1, <1>3, <1>4, <1>5, <1>6

\* acquire() without one: the caller joins the queue once.
LEMMA AcquireWaitIInv ==
    ASSUME IInv, NEW c \in Callers, AcquireWait(c)
    PROVE  IInv'
<1> USE DEF IInv, AcquireWait
<1>0. /\ queue' \in Seq(Callers) /\ Len(queue') = Len(queue) + 1
      /\ \A i \in 1..Len(queue') :
            queue'[i] = IF i <= Len(queue) THEN queue[i] ELSE c
  BY AppendEntries DEF TypeOK
<1>1. TypeOK'
  BY <1>0 DEF TypeOK
<1>2. Cardinality(Holders') = Cardinality(Holders)
  BY HoldersSame DEF TypeOK
<1>3. Placed'
  BY <1>0 DEF Placed, TypeOK
<1>4. Once'
  <2>1. \A i \in 1..Len(queue) : queue[i] # c
    BY DEF Placed
  <2> QED
    BY <1>0, <2>1 DEF Once, TypeOK
<1>5. CountIsHolders'
  BY <1>2 DEF CountIsHolders
<1>6. NoLostWakeup'
  BY LimitAssumption DEF NoLostWakeup, TypeOK
<1> QED
  BY <1>1, <1>3, <1>4, <1>5, <1>6

\* release() with nobody queued.
LEMMA ReleaseIdleIInv ==
    ASSUME IInv, NEW c \in Callers, ReleaseIdle(c)
    PROVE  IInv'
<1> USE DEF IInv, ReleaseIdle
<1>1. TypeOK'
  BY DEF TypeOK, Dec
<1>2. /\ Cardinality(Holders') = Cardinality(Holders) - 1
      /\ Cardinality(Holders) \in Nat \ {0}
  BY HoldersLoss DEF TypeOK
<1>3. Placed'
  BY DEF Placed, TypeOK
<1>4. Once'
  BY DEF Once
<1>5. CountIsHolders'
  BY <1>2 DEF CountIsHolders, Dec
<1>6. NoLostWakeup'
  BY DEF NoLostWakeup
<1> QED
  BY <1>1, <1>3, <1>4, <1>5, <1>6

\* release() that moves the head of the queue to the woken.
LEMMA ReleaseWakeIInv ==
    ASSUME IInv, NEW c \in Callers, ReleaseWake(c)
    PROVE  IInv'
<1> USE DEF IInv, ReleaseWake
<1> DEFINE h == Head(queue)
<1>a. /\ queue' \in Seq(Callers) /\ h \in Callers /\ h = queue[1]
      /\ 1 \in 1..Len(queue) /\ Len(queue') = Len(queue) - 1
      /\ \A i \in 1..Len(queue') :
            i + 1 \in 1..Len(queue) /\ queue'[i] = queue[i + 1]
  BY TailEntries DEF TypeOK
<1>b. /\ woken' \in Seq(Callers) /\ Len(woken') = Len(woken) + 1
      /\ \A i \in 1..Len(woken') :
            woken'[i] = IF i <= Len(woken) THEN woken[i] ELSE h
  BY <1>a, AppendEntries DEF TypeOK
<1>c. pc[h] = "waiting" /\ h # c
  BY <1>a DEF Placed
<1>d. \A d \in Callers : pc'[d] = IF d = h THEN "woken"
                                  ELSE IF d = c THEN "idle" ELSE pc[d]
  BY <1>a, <1>c DEF TypeOK
<1> HIDE DEF h
<1>1. TypeOK'
  <2>1. current' \in Nat
    BY DEF TypeOK, Dec
  <2>2. pc' \in [Callers -> {"idle", "waiting", "woken", "held"}]
    BY DEF TypeOK
  <2> QED
    BY <1>a, <1>b, <2>1, <2>2 DEF TypeOK
<1>2. /\ Cardinality(Holders') = Cardinality(Holders) - 1
      /\ Cardinality(Holders) \in Nat \ {0}
  <2>1. pc[c] = "held" /\ TypeOK
    OBVIOUS
  <2> HIDE DEF IInv, ReleaseWake
  <2>2. \A d \in Callers : pc'[d] = "held" <=> d # c /\ pc[d] = "held"
    BY <1>c, <1>d, <2>1
  <2> QED
    BY <2>1, <2>2, HoldersLoss
<1>3. Placed'
  <2>1. \A i \in 1..Len(queue') : pc'[queue'[i]] = "waiting"
    <3> SUFFICES ASSUME NEW i \in 1..Len(queue')
                 PROVE  pc'[queue'[i]] = "waiting"
      OBVIOUS
    <3>1. queue'[i] \in Callers /\ pc[queue'[i]] = "waiting" /\ queue'[i] # h
      BY <1>a DEF Placed, Once, TypeOK
    <3> QED
      BY <3>1, <1>d
  <2>2. \A i \in 1..Len(woken') : pc'[woken'[i]] = "woken"
    <3> SUFFICES ASSUME NEW i \in 1..Len(woken')
                 PROVE  pc'[woken'[i]] = "woken"
      OBVIOUS
    <3>1. CASE i <= Len(woken)
      BY <3>1, <1>b, <1>c, <1>d DEF Placed, TypeOK
    <3>2. CASE ~(i <= Len(woken))
      BY <3>2, <1>a, <1>b, <1>d
    <3> QED
      BY <3>1, <3>2
  <2> QED
    BY <2>1, <2>2 DEF Placed
<1>4. Once'
  <2>1. \A i, j \in 1..Len(queue') : queue'[i] = queue'[j] => i = j
    BY <1>a DEF Once, TypeOK
  <2>2. \A i \in 1..Len(woken) : woken[i] # h
    BY <1>c DEF Placed
  <2>3. \A i, j \in 1..Len(woken') : woken'[i] = woken'[j] => i = j
    BY <1>b, <2>2 DEF Once, TypeOK
  <2> QED
    BY <2>1, <2>3 DEF Once
<1>5. CountIsHolders'
  BY <1>2 DEF CountIsHolders, Dec
<1>6. NoLostWakeup'
  BY <1>2, <1>b, LimitAssumption DEF NoLostWakeup, CountIsHolders, Dec, TypeOK
<1> QED
  BY <1>1, <1>3, <1>4, <1>5, <1>6

\* The continuation that counts the woken caller in.
LEMMA ResumeIInv ==
    ASSUME IInv, Resume
    PROVE  IInv'
<1> USE DEF IInv, Resume
<1> DEFINE h == Head(woken)
<1>a. /\ woken' \in Seq(Callers) /\ h \in Callers /\ h = woken[1]
      /\ 1 \in 1..Len(woken) /\ Len(woken') = Len(woken) - 1
      /\ \A i \in 1..Len(woken') :
            i + 1 \in 1..Len(woken) /\ woken'[i] = woken[i + 1]
  BY TailEntries DEF TypeOK
<1>b. pc[h] = "woken"
  BY <1>a DEF Placed
<1>c. /\ pc' \in [Callers -> {"idle", "waiting", "woken", "held"}]
      /\ \A d \in Callers : pc'[d] = IF d = h THEN "held" ELSE pc[d]
  BY <1>a DEF TypeOK
<1> HIDE DEF h
<1>1. TypeOK'
  <2>1. current' \in Nat
    BY DEF TypeOK
  <2> QED
    BY <1>a, <1>c, <2>1 DEF TypeOK
<1>2. Cardinality(Holders') = Cardinality(Holders) + 1
  BY <1>a, <1>b, <1>c, HoldersGain
<1>3. Placed'
  <2>1. \A i \in 1..Len(queue') : pc'[queue'[i]] = "waiting"
    BY <1>b, <1>c DEF Placed, TypeOK
  <2>2. \A i \in 1..Len(woken') : pc'[woken'[i]] = "woken"
    <3> SUFFICES ASSUME NEW i \in 1..Len(woken')
                 PROVE  pc'[woken'[i]] = "woken"
      OBVIOUS
    <3>1. woken'[i] \in Callers /\ pc[woken'[i]] = "woken" /\ woken'[i] # h
      BY <1>a DEF Placed, Once, TypeOK
    <3> QED
      BY <3>1, <1>c
  <2> QED
    BY <2>1, <2>2 DEF Placed
<1>4. Once'
  BY <1>a DEF Once, TypeOK
<1>5. CountIsHolders'
  BY <1>2 DEF CountIsHolders
<1>6. NoLostWakeup'
  BY <1>a, LimitAssumption DEF NoLostWakeup, TypeOK
<1> QED
  BY <1>1, <1>3, <1>4, <1>5, <1>6

\* Every step keeps the invariant.
LEMMA StepIInv == IInv /\ [Next]_vars => IInv'
<1> SUFFICES ASSUME IInv, [Next]_vars PROVE IInv'
  OBVIOUS
<1>1. ASSUME NEW c \in Callers, Acquire(c) PROVE IInv'
  BY <1>1, AcquireNowIInv, AcquireWaitIInv DEF Acquire
<1>2. ASSUME NEW c \in Callers, Release(c) PROVE IInv'
  BY <1>2, ReleaseIdleIInv, ReleaseWakeIInv DEF Release
<1>3. CASE Resume
  BY <1>3, ResumeIInv
<1>4. CASE UNCHANGED vars
  BY <1>4 DEF vars, IInv, TypeOK, Placed, Once, CountIsHolders, Holders,
              NoLostWakeup
<1> QED
  BY <1>1, <1>2, <1>3, <1>4 DEF Next

\* The strengthened invariant: where pc places a caller is where it is.
THEOREM Invariance == Spec => []IInv
BY InitIInv, StepIInv, PTL DEF Spec

\* semaphore.ts keeps its fields' types, for any callers and limit.
THEOREM TypeCorrect == Spec => []TypeOK
<1>1. IInv => TypeOK
  BY DEF IInv
<1> QED
  BY <1>1, Invariance, PTL

\* `current` counts the callers that hold a permit: Math.max(0, ...) never
\* hides an unmatched release.
THEOREM CounterIsExact == Spec => []CountIsHolders
<1>1. IInv => CountIsHolders
  BY DEF IInv
<1> QED
  BY <1>1, Invariance, PTL

\* release() never leaves a caller queued while permits are free.
THEOREM NoWakeupLost == Spec => []NoLostWakeup
<1>1. IInv => NoLostWakeup
  BY DEF IInv
<1> QED
  BY <1>1, Invariance, PTL

\* Both at once: no caller of acquire() waits beside a permit, whether it is
\* `current` that counts it or a wake-up on its way.
THEOREM PermitsCounted == Spec => []PermitsAreCounted
<1>1. CountIsHolders /\ NoLostWakeup => PermitsAreCounted
  BY DEF PermitsAreCounted
<1> QED
  BY <1>1, CounterIsExact, NoWakeupLost, PTL

----------------------------------------------------------------------------
(* Debounce and throttle.                                                  *)
(*                                                                         *)
(* What PaceIsKept bounds is the wait so far of the oldest call that has   *)
(* not been served; what the code keeps is a timer.  Paced relates the     *)
(* two: the wait so far and the time left on the timer stay within the     *)
(* bound together, since a timer is never started for longer than the      *)
(* last run, which is no younger than that call, allows.                   *)

Age == Nat \cup {Never}
TimedRecord ==
    [kind : {"debounce", "throttle"}, leading : BOOLEAN, trailing : BOOLEAN, max : Age,
     aborted : BOOLEAN, timer : Age, call : Age, invoke : Age, args : BOOLEAN,
     ran : Age, gap : Age, owed : Age]

Most(t) == IF t.kind = "throttle" \/ t.max < Wait THEN Wait ELSE t.max

\* A call has arguments as long as no run has served it, and then a timer.
CallsTimed(t) ==
    /\ t.args <=> t.owed # Never
    /\ t.trailing /\ t.args => t.timer # Never
    /\ t.trailing /\ t.args /\ (t.kind = "throttle" \/ t.max # Never)
          => t.owed + t.timer <= Most(t)

DebouncePaced(t) ==
    /\ t.invoke = Never => t.timer = Never /\ t.call = Never
    /\ t.trailing /\ t.args => t.owed <= t.invoke
    /\ t.timer # Never => t.timer <= Wait

\* A throttle's timer is due when its interval is over.
ThrottlePaced(t) ==
    /\ t.ran # Never => t.ran = t.invoke
    /\ t.timer # Never =>
          /\ t.args /\ t.invoke # Never
          /\ t.invoke + t.timer >= Wait \/ t.invoke >= Wait
    /\ t.gap # Never => t.gap >= Wait

Paced(t) ==
    /\ t \in TimedRecord
    /\ CallsTimed(t)
    /\ t.kind = "debounce" => DebouncePaced(t)
    /\ t.kind = "throttle" => ThrottlePaced(t)

\* What a call, a run and a timer without calls write.
LEMMA NotedIs ==
    ASSUME NEW t \in TimedRecord
    PROVE  LET r == Noted(t)
           IN  /\ r \in TimedRecord
               /\ r.kind = t.kind /\ r.trailing = t.trailing /\ r.max = t.max
               /\ r.leading = t.leading /\ r.timer = t.timer /\ r.invoke = t.invoke
               /\ r.ran = t.ran /\ r.gap = t.gap /\ r.args = TRUE /\ r.call = 0
               /\ r.owed = IF t.owed = Never THEN 0 ELSE t.owed
<1> DEFINE o == IF t.owed = Never THEN 0 ELSE t.owed
           r == [t EXCEPT !.args = TRUE, !.call = 0, !.owed = o]
<1>1. o \in Age /\ 0 \in Age
  BY DEF TimedRecord, Age, Never
<1> HIDE DEF o
<1>2. /\ r \in TimedRecord
      /\ r.kind = t.kind /\ r.trailing = t.trailing /\ r.max = t.max
      /\ r.leading = t.leading /\ r.timer = t.timer /\ r.invoke = t.invoke
      /\ r.ran = t.ran /\ r.gap = t.gap /\ r.args = TRUE /\ r.call = 0
      /\ r.owed = o
  BY <1>1 DEF TimedRecord
<1>3. Noted(t) = r
  BY DEF Noted, o
<1> HIDE DEF r
<1> QED
  BY <1>2, <1>3 DEF o

LEMMA InvokeIs ==
    ASSUME NEW t \in TimedRecord
    PROVE  LET r == Invoke(t)
           IN  /\ r \in TimedRecord
               /\ r.kind = t.kind /\ r.trailing = t.trailing /\ r.max = t.max
               /\ r.timer = t.timer /\ r.call = t.call
               /\ r.invoke = 0 /\ r.args = FALSE /\ r.owed = Never
               /\ r.ran = 0 /\ r.gap = t.ran
BY DEF Invoke, TimedRecord, Age, Never

LEMMA ForgottenIs ==
    ASSUME NEW t \in TimedRecord
    PROVE  LET r == Forgotten(t)
           IN  /\ r \in TimedRecord
               /\ r.kind = t.kind /\ r.trailing = t.trailing /\ r.max = t.max
               /\ r.timer = t.timer /\ r.call = t.call /\ r.invoke = t.invoke
               /\ r.ran = t.ran /\ r.gap = t.gap
               /\ r.args = FALSE /\ r.owed = Never
BY DEF Forgotten, TimedRecord, Age, Never

\* A timer is set or cleared.
LEMMA TimerIs ==
    ASSUME NEW t \in TimedRecord, NEW n \in Age
    PROVE  LET r == [t EXCEPT !.timer = n]
           IN  /\ r \in TimedRecord
               /\ r.kind = t.kind /\ r.trailing = t.trailing /\ r.max = t.max
               /\ r.leading = t.leading
               /\ r.timer = n /\ r.call = t.call /\ r.invoke = t.invoke
               /\ r.ran = t.ran /\ r.gap = t.gap /\ r.args = t.args /\ r.owed = t.owed
BY DEF TimedRecord

\* A run leaves no call behind.
LEMMA RunPaces ==
    ASSUME NEW t \in TimedRecord,
           t.kind = "debounce" /\ t.timer # Never => t.timer <= Wait,
           t.kind = "throttle" => t.timer = Never /\ (t.ran # Never => t.ran >= Wait)
    PROVE  Paced(Invoke(t))
<1> DEFINE r == Invoke(t)
<1>1. /\ r \in TimedRecord
      /\ r.kind = t.kind /\ r.timer = t.timer
      /\ r.invoke = 0 /\ r.args = FALSE /\ r.owed = Never
      /\ r.ran = 0 /\ r.gap = t.ran
  BY InvokeIs
<1> HIDE DEF r
<1>2. Paced(r)
  BY <1>1 DEF Paced, CallsTimed, DebouncePaced, ThrottlePaced, Never
<1> QED
  BY <1>2 DEF r

\* A timer that ends without a run forgets its calls.
LEMMA ForgetPaces ==
    ASSUME NEW t, Paced(t)
    PROVE  Paced(Forgotten([t EXCEPT !.timer = Never]))
<1> DEFINE u == [t EXCEPT !.timer = Never]
           r == Forgotten(u)
<1>1. t \in TimedRecord /\ Never \in Age
  BY DEF Paced, Age
<1>2. /\ u \in TimedRecord
      /\ u.kind = t.kind /\ u.timer = Never /\ u.call = t.call /\ u.invoke = t.invoke
      /\ u.ran = t.ran /\ u.gap = t.gap
  BY <1>1, TimerIs
<1> HIDE DEF u
<1>3. /\ r \in TimedRecord
      /\ r.kind = u.kind /\ r.timer = u.timer /\ r.call = u.call /\ r.invoke = u.invoke
      /\ r.ran = u.ran /\ r.gap = u.gap /\ r.args = FALSE /\ r.owed = Never
  BY <1>2, ForgottenIs
<1> HIDE DEF r
<1>4. Paced(r)
  BY <1>2, <1>3 DEF Paced, CallsTimed, DebouncePaced, ThrottlePaced, Never
<1> QED
  BY <1>4 DEF r, u

\* The trailing edge runs the function or forgets the calls.
LEMMA TrailingEdgePaces ==
    ASSUME NEW t, Paced(t), t.kind = "debounce"
    PROVE  Paced(TrailingEdge(t))
<1> DEFINE u == [t EXCEPT !.timer = Never]
<1>1. u \in TimedRecord /\ u.kind = "debounce" /\ u.timer = Never
  BY TimerIs DEF Paced, Age
<1>2. Paced(Invoke(u))
  BY <1>1, RunPaces
<1>3. Paced(Forgotten(u))
  BY ForgetPaces
<1> QED
  BY <1>2, <1>3 DEF TrailingEdge

\* A debounced call starts the timer, or leaves it to the calls before.
LEMMA DebouncedPaces ==
    ASSUME NEW t, Paced(t), t.kind = "debounce"
    PROVE  Paced(Debounced(t))
<1> DEFINE n == Noted(t)
<1>1. t \in TimedRecord /\ Wait \in Nat /\ Wait \in Age /\ Never \in Age
  BY TimedAssumption DEF Paced, Age
<1>2. /\ n \in TimedRecord
      /\ n.kind = "debounce" /\ n.trailing = t.trailing /\ n.max = t.max
      /\ n.leading = t.leading /\ n.timer = t.timer /\ n.invoke = t.invoke
      /\ n.args = TRUE /\ n.call = 0
      /\ n.owed = IF t.owed = Never THEN 0 ELSE t.owed
  BY <1>1, NotedIs
<1> HIDE DEF n
<1>3. ASSUME ShouldInvoke(t), t.timer = Never
      PROVE  Paced(LeadingEdge(n))
  <2> DEFINE s == [n EXCEPT !.invoke = 0, !.timer = Wait]
  <2>1. /\ s \in TimedRecord
        /\ s.kind = "debounce" /\ s.trailing = t.trailing /\ s.max = t.max
        /\ s.timer = Wait /\ s.call = 0 /\ s.invoke = 0 /\ s.args = TRUE
        /\ s.owed = n.owed
    BY <1>1, <1>2 DEF TimedRecord, Age
  <2> HIDE DEF s
  <2>2. t.trailing => n.owed = 0
    BY <1>2, <1>3 DEF Paced, CallsTimed
  <2>3. Paced(s)
    BY <1>1, <2>1, <2>2, <1>2 DEF Paced, CallsTimed, DebouncePaced, Most, TimedRecord, Age, Never
  <2>4. Paced(Invoke(s))
    BY <1>1, <2>1, RunPaces
  <2> QED
    BY <1>2, <2>3, <2>4 DEF LeadingEdge, s
<1>4. Paced(Invoke([n EXCEPT !.timer = Wait]))
  <2> DEFINE s == [n EXCEPT !.timer = Wait]
  <2>1. s \in TimedRecord /\ s.kind = "debounce" /\ s.timer = Wait
    BY <1>1, <1>2, TimerIs
  <2> HIDE DEF s
  <2>2. Paced(Invoke(s))
    BY <1>1, <2>1, RunPaces
  <2> QED
    BY <2>2 DEF s
<1>5. ASSUME ~(ShouldInvoke(t) /\ t.timer = Never)
      PROVE  Paced([n EXCEPT !.timer = IF @ = Never THEN Wait ELSE @])
  <2> DEFINE w == IF n.timer = Never THEN Wait ELSE n.timer
             s == [n EXCEPT !.timer = w]
  <2>1. w \in Age
    BY <1>1, <1>2 DEF TimedRecord
  <2>2. /\ s \in TimedRecord
        /\ s.kind = "debounce" /\ s.trailing = t.trailing /\ s.max = t.max
        /\ s.timer = w /\ s.call = 0 /\ s.invoke = t.invoke /\ s.args = TRUE
        /\ s.owed = n.owed
    BY <1>2, <2>1, TimerIs
  <2> HIDE DEF s
  <2>3. t.invoke # Never
    BY <1>5 DEF Paced, DebouncePaced, ShouldInvoke
  <2>4. /\ w \in Nat /\ w <= Wait /\ n.owed \in Nat /\ t.invoke \in Nat
        /\ t.trailing /\ t.timer = Never => n.owed = 0
        /\ t.timer # Never => w = t.timer
    BY <1>1, <1>2, <2>3 DEF Paced, CallsTimed, DebouncePaced, TimedRecord, Age, Never
  <2>5. t.trailing => n.owed <= t.invoke
    BY <1>1, <1>2, <2>4 DEF Paced, CallsTimed, DebouncePaced, TimedRecord, Age, Never
  <2>6. t.trailing /\ t.max # Never => n.owed + w <= Most(t)
    BY <1>1, <1>2, <2>4 DEF Paced, CallsTimed, DebouncePaced, TimedRecord, Age, Never, Most
  <2>7. Most(s) = Most(t)
    BY <1>1, <2>2 DEF Most
  <2> HIDE DEF w
  <2>8. Paced(s)
    BY <1>1, <2>2, <2>3, <2>4, <2>5, <2>6, <2>7 DEF Paced, CallsTimed, DebouncePaced, Never
  <2> QED
    BY <2>8 DEF s, w
<1> QED
  BY <1>3, <1>4, <1>5 DEF Debounced, n

\* A timer that fires too early for a run is started for the rest of the wait.
LEMMA ExpiredPaces ==
    ASSUME NEW t, Paced(t), t.kind = "debounce"
    PROVE  Paced(Expired(t))
<1>1. t \in TimedRecord /\ Wait \in Nat /\ Never \in Age
  BY TimedAssumption DEF Paced, Age
<1>2. ASSUME ~t.args
      PROVE  Paced([t EXCEPT !.timer = Never])
  <2> DEFINE s == [t EXCEPT !.timer = Never]
  <2>1. /\ s \in TimedRecord
        /\ s.kind = "debounce" /\ s.trailing = t.trailing /\ s.max = t.max
        /\ s.timer = Never /\ s.call = t.call /\ s.invoke = t.invoke /\ s.args = t.args
        /\ s.owed = t.owed
    BY <1>1, TimerIs
  <2> HIDE DEF s
  <2>2. Paced(s)
    BY <1>2, <2>1 DEF Paced, CallsTimed, DebouncePaced
  <2> QED
    BY <2>2 DEF s
<1>3. ASSUME t.args, ~ShouldInvoke(t)
      PROVE  Paced([t EXCEPT !.timer = RemainingWait(t)])
  <2> DEFINE w == RemainingWait(t)
             s == [t EXCEPT !.timer = w]
  <2>1. /\ t.call \in Nat /\ t.call < Wait /\ t.invoke \in Nat /\ t.owed \in Nat
        /\ t.max # Never => t.max \in Nat /\ t.invoke < t.max
    BY <1>1, <1>3 DEF Paced, CallsTimed, DebouncePaced, ShouldInvoke, TimedRecord, Age, Never
  <2>2. /\ w \in Nat /\ w <= Wait
        /\ t.max # Never => t.invoke + w <= t.max
    BY <1>1, <2>1 DEF RemainingWait, Least, Never
  <2> HIDE DEF w
  <2>3. /\ s \in TimedRecord
        /\ s.kind = "debounce" /\ s.trailing = t.trailing /\ s.max = t.max
        /\ s.timer = w /\ s.call = t.call /\ s.invoke = t.invoke /\ s.args = t.args
        /\ s.owed = t.owed
    BY <1>1, <2>2, TimerIs DEF Age
  <2> HIDE DEF s
  <2>4. t.trailing => t.owed <= t.invoke
    BY <1>3 DEF Paced, DebouncePaced
  <2>5. t.max # Never => t.max <= Most(t)
    BY <1>1, <2>1 DEF Most
  <2>6. Most(s) = Most(t)
    BY <1>1, <2>3 DEF Most
  <2>7. t.trailing /\ t.max # Never => t.owed + w <= Most(t)
    BY <1>1, <2>1, <2>2, <2>4, <2>5 DEF Most
  <2>8. Paced(s)
    BY <1>1, <1>3, <2>1, <2>2, <2>3, <2>4, <2>6, <2>7
       DEF Paced, CallsTimed, DebouncePaced, Never
  <2> QED
    BY <2>8 DEF s, w
<1>4. Paced(TrailingEdge(t))
  BY TrailingEdgePaces
<1> QED
  BY <1>2, <1>3, <1>4 DEF Expired, Paced, TimedRecord

\* A throttled call runs at once, or at the end of the interval under way.
LEMMA ThrottledPaces ==
    ASSUME NEW t, Paced(t), t.kind = "throttle"
    PROVE  Paced(Throttled(t))
<1> DEFINE b == IF t.invoke = Never /\ ~t.leading THEN [t EXCEPT !.invoke = 0] ELSE t
           n == Noted(b)
<1>1. t \in TimedRecord /\ Wait \in Nat /\ Never \in Age
  BY TimedAssumption DEF Paced, Age
<1>2. /\ b \in TimedRecord
      /\ b.kind = "throttle" /\ b.trailing = t.trailing /\ b.max = t.max
      /\ b.timer = t.timer /\ b.ran = t.ran /\ b.gap = t.gap /\ b.owed = t.owed
      /\ t.invoke # Never => b.invoke = t.invoke
      /\ t.invoke = Never => b.invoke \in {Never, 0}
  BY <1>1 DEF TimedRecord, Age, Never
<1> HIDE DEF b
<1>3. /\ n \in TimedRecord
      /\ n.kind = "throttle" /\ n.trailing = t.trailing /\ n.max = t.max
      /\ n.timer = t.timer /\ n.invoke = b.invoke /\ n.ran = t.ran /\ n.gap = t.gap
      /\ n.args = TRUE /\ n.call = 0
      /\ n.owed = IF t.owed = Never THEN 0 ELSE t.owed
  BY <1>2, NotedIs
<1> HIDE DEF n
<1>4. /\ t.ran # Never => t.ran = n.invoke
      /\ t.timer # Never => t.args /\ n.invoke = t.invoke /\ t.invoke # Never
  BY <1>2, <1>3 DEF Paced, ThrottlePaced
<1>5. ASSUME n.invoke = Never \/ n.invoke >= Wait
      PROVE  Paced(Invoke([n EXCEPT !.timer = Never]))
  <2> DEFINE s == [n EXCEPT !.timer = Never]
  <2>1. s \in TimedRecord /\ s.kind = "throttle" /\ s.timer = Never /\ s.ran = t.ran
    BY <1>1, <1>3, TimerIs
  <2> HIDE DEF s
  <2>2. t.ran # Never => t.ran >= Wait
    BY <1>4, <1>5
  <2>3. Paced(Invoke(s))
    BY <2>1, <2>2, RunPaces
  <2> QED
    BY <2>3 DEF s
<1>6. ASSUME n.invoke # Never, n.invoke < Wait, n.trailing, n.timer = Never
      PROVE  Paced([n EXCEPT !.timer = Wait - n.invoke])
  <2> DEFINE w == Wait - n.invoke
             s == [n EXCEPT !.timer = w]
  <2>1. n.invoke \in Nat /\ w \in Nat /\ w <= Wait /\ n.invoke + w = Wait
    BY <1>1, <1>3, <1>6 DEF TimedRecord, Age, Never
  <2> HIDE DEF w
  <2>2. /\ s \in TimedRecord
        /\ s.kind = "throttle" /\ s.trailing = t.trailing /\ s.max = t.max
        /\ s.timer = w /\ s.invoke = n.invoke /\ s.args = TRUE /\ s.owed = n.owed
        /\ s.ran = t.ran /\ s.gap = t.gap
    BY <1>3, <2>1, TimerIs DEF Age
  <2> HIDE DEF s
  <2>3. n.owed = 0
    BY <1>3, <1>6 DEF Paced, CallsTimed
  <2>4. t.gap # Never => t.gap >= Wait
    BY DEF Paced, ThrottlePaced
  <2>5. Paced(s)
    BY <1>1, <1>4, <2>1, <2>2, <2>3, <2>4
       DEF Paced, CallsTimed, ThrottlePaced, Most, Never
  <2> QED
    BY <2>5 DEF s, w
<1>7. ASSUME ~(n.trailing /\ n.timer = Never)
      PROVE  Paced(n)
  <2>1. /\ n.owed # Never
        /\ n.timer # Never => n.owed = t.owed
    BY <1>1, <1>3, <1>4 DEF Paced, CallsTimed, TimedRecord, Age, Never
  <2>2. Most(n) = Most(t)
    BY <1>3 DEF Most
  <2>3. CallsTimed(n)
    BY <1>3, <1>4, <1>7, <2>1, <2>2 DEF Paced, CallsTimed
  <2>4. ThrottlePaced(n)
    BY <1>3, <1>4 DEF Paced, ThrottlePaced
  <2> QED
    BY <1>3, <2>3, <2>4 DEF Paced
<1>8. n.invoke = Never \/ n.invoke >= Wait \/ (n.invoke # Never /\ n.invoke < Wait)
  BY <1>1, <1>3 DEF TimedRecord, Age, Never
<1> QED
  BY <1>5, <1>6, <1>7, <1>8 DEF Throttled, n, b

\* A throttle's timer fires when its interval is over.
LEMMA ThrottleEdgePaces ==
    ASSUME NEW t, Paced(t), t.kind = "throttle", t.timer = 0
    PROVE  Paced(ThrottleEdge(t))
<1> DEFINE u == [t EXCEPT !.timer = Never]
<1>1. /\ u \in TimedRecord /\ u.kind = "throttle" /\ u.timer = Never /\ u.ran = t.ran
  BY TimerIs DEF Paced, Age
<1>2. t.ran # Never => t.ran >= Wait
  BY TimedAssumption DEF Paced, ThrottlePaced, TimedRecord, Age, Never
<1>3. Paced(Invoke(u))
  <2> HIDE DEF u
  <2> QED
    BY <1>1, <1>2, RunPaces
<1>4. Paced(Forgotten(u))
  BY ForgetPaces
<1> QED
  BY <1>3, <1>4 DEF ThrottleEdge

LEMMA CancelledPaces ==
    ASSUME NEW t, Paced(t)
    PROVE  Paced(Cancelled(t))
<1> DEFINE u == [t EXCEPT !.timer = Never, !.call = Never, !.invoke = Never, !.ran = Never]
           r == Forgotten(u)
<1>1. /\ u \in TimedRecord
      /\ u.kind = t.kind /\ u.timer = Never /\ u.call = Never /\ u.invoke = Never
      /\ u.ran = Never /\ u.gap = t.gap
  BY DEF Paced, TimedRecord, Age
<1> HIDE DEF u
<1>2. /\ r \in TimedRecord
      /\ r.kind = t.kind /\ r.timer = Never /\ r.call = Never /\ r.invoke = Never
      /\ r.ran = Never /\ r.gap = t.gap /\ r.args = FALSE /\ r.owed = Never
  BY <1>1, ForgottenIs
<1> HIDE DEF r
<1>3. Paced(r)
  BY <1>2 DEF Paced, CallsTimed, DebouncePaced, ThrottlePaced
<1> QED
  BY <1>3 DEF Cancelled, r, u

LEMMA AbortedPaces ==
    ASSUME NEW t, Paced(t)
    PROVE  Paced([t EXCEPT !.aborted = TRUE])
<1> DEFINE r == [t EXCEPT !.aborted = TRUE]
<1>1. /\ r \in TimedRecord
      /\ r.kind = t.kind /\ r.trailing = t.trailing /\ r.max = t.max
      /\ r.timer = t.timer /\ r.call = t.call /\ r.invoke = t.invoke
      /\ r.ran = t.ran /\ r.gap = t.gap /\ r.args = t.args /\ r.owed = t.owed
  BY DEF Paced, TimedRecord
<1> HIDE DEF r
<1>2. Paced(r)
  BY <1>1 DEF Paced, CallsTimed, DebouncePaced, ThrottlePaced, Most
<1> QED
  BY <1>2 DEF r

\* Ages grow together, up to MaxAge.
LEMMA LaterIs ==
    ASSUME NEW a \in Age, NEW b \in Age
    PROVE  /\ Later(a) \in Age
           /\ Later(a) = Never <=> a = Never
           /\ a # Never => Later(a) >= a /\ Later(a) <= a + 1
           /\ a # Never /\ a >= MaxAge => Later(a) >= MaxAge
           /\ a # Never /\ a < MaxAge => Later(a) = a + 1
           /\ a # Never /\ a <= b => Later(a) <= Later(b)
BY TimedAssumption DEF Later, Age, Never

\* While the clock moves, the wait so far takes what leaves the timer.
LEMMA PassPaces ==
    ASSUME NEW t, Paced(t), t.timer # 0
    PROVE  Paced([t EXCEPT
                !.timer = IF @ = Never THEN @ ELSE @ - 1, !.call = Later(@),
                !.invoke = Later(@), !.ran = Later(@), !.owed = Later(@)])
<1> DEFINE w == IF t.timer = Never THEN t.timer ELSE t.timer - 1
           c == Later(t.call)
           i == Later(t.invoke)
           a == Later(t.ran)
           o == Later(t.owed)
           r == [t EXCEPT !.timer = w, !.call = c, !.invoke = i, !.ran = a, !.owed = o]
<1>1. /\ t \in TimedRecord /\ Wait \in Nat /\ MaxAge \in Nat /\ Wait <= MaxAge
      /\ t.timer \in Age /\ t.call \in Age /\ t.invoke \in Age /\ t.ran \in Age
      /\ t.owed \in Age /\ t.max \in Age
  BY TimedAssumption DEF Paced, TimedRecord
<1>2. /\ w \in Age
      /\ w = Never <=> t.timer = Never
      /\ t.timer # Never => w = t.timer - 1
  BY <1>1 DEF Age, Never
<1>3. /\ c \in Age /\ i \in Age /\ a \in Age /\ o \in Age
      /\ c = Never <=> t.call = Never
      /\ i = Never <=> t.invoke = Never
      /\ a = Never <=> t.ran = Never
      /\ o = Never <=> t.owed = Never
      /\ t.ran = t.invoke => a = i
      /\ t.owed # Never => o <= t.owed + 1
      /\ t.owed # Never /\ t.owed <= t.invoke => o <= i
      /\ t.invoke # Never => i >= t.invoke
      /\ t.invoke # Never /\ t.invoke >= MaxAge => i >= MaxAge
      /\ t.invoke # Never /\ t.invoke < MaxAge => i = t.invoke + 1
  BY <1>1, LaterIs
<1> HIDE DEF w, c, i, a, o
<1>4. /\ r \in TimedRecord
      /\ r.kind = t.kind /\ r.trailing = t.trailing /\ r.max = t.max
      /\ r.timer = w /\ r.call = c /\ r.invoke = i
      /\ r.ran = a /\ r.gap = t.gap /\ r.args = t.args /\ r.owed = o
  BY <1>1, <1>2, <1>3 DEF TimedRecord
<1> HIDE DEF r
<1>5. Most(r) = Most(t) /\ Most(t) \in Int
  BY <1>1, <1>4 DEF Most, Age, Never
<1>6. t.trailing /\ t.args => t.owed # Never /\ t.timer # Never
  BY DEF Paced, CallsTimed
<1>7. CallsTimed(r)
  BY <1>1, <1>2, <1>3, <1>4, <1>5, <1>6 DEF Paced, CallsTimed, Age, Never
<1>8. ASSUME t.kind = "debounce"
      PROVE  DebouncePaced(r)
  BY <1>1, <1>2, <1>3, <1>4, <1>6, <1>8 DEF Paced, DebouncePaced, Age, Never
<1>9. ASSUME t.kind = "throttle"
      PROVE  ThrottlePaced(r)
  <2>1. t.timer # Never => i + w >= Wait \/ i >= Wait
    BY <1>1, <1>2, <1>3, <1>9 DEF Paced, ThrottlePaced, Age, Never
  <2> QED
    BY <1>2, <1>3, <1>4, <1>9, <2>1 DEF Paced, ThrottlePaced
<1>10. Paced(r)
  BY <1>4, <1>7, <1>8, <1>9 DEF Paced
<1> QED
  BY <1>10 DEF r, w, c, i, a, o

LEMMA TimedStartsPaced == TimedInit => Paced(timed)
BY TimedAssumption
   DEF TimedInit, Paced, CallsTimed, DebouncePaced, ThrottlePaced, TimedRecord, Age, Never

LEMMA TimedStaysPaced == Paced(timed) /\ [TimedNext]_timed => Paced(timed')
<1> SUFFICES ASSUME Paced(timed), [TimedNext]_timed
             PROVE  Paced(timed')
  OBVIOUS
<1>1. timed.kind = "debounce" \/ timed.kind = "throttle"
  BY DEF Paced, TimedRecord
<1>2. CASE Invoked
  BY <1>1, <1>2, DebouncedPaces, ThrottledPaces, CancelledPaces DEF Invoked
<1>3. CASE Fire
  BY <1>1, <1>3, ExpiredPaces, ThrottleEdgePaces DEF Fire
<1>4. CASE Cancel
  BY <1>4, CancelledPaces DEF Cancel
<1>5. CASE Flush
  BY <1>5, TrailingEdgePaces DEF Flush
<1>6. CASE Abort
  BY <1>6, AbortedPaces DEF Abort
<1>7. CASE Pass
  BY <1>7, PassPaces DEF Pass
<1>8. CASE UNCHANGED timed
  BY <1>8
<1> QED
  BY <1>2, <1>3, <1>4, <1>5, <1>6, <1>7, <1>8 DEF TimedNext

LEMMA PacedKeepsPace == Paced(timed) => PaceIsKept
<1> SUFFICES ASSUME Paced(timed)
             PROVE  PaceIsKept
  OBVIOUS
<1>1. timed \in TimedRecord /\ Wait \in Nat
  BY TimedAssumption DEF Paced
<1>2. /\ timed.trailing /\ timed.args => timed.timer # Never
      /\ timed.trailing /\ timed.args /\ (timed.kind = "throttle" \/ timed.max # Never)
            => timed.owed <= Most(timed)
  <2>1. Most(timed) \in Int /\ timed.owed \in Int /\ timed.timer \in Age
    BY <1>1 DEF Most, TimedRecord, Age, Never
  <2> QED
    BY <2>1 DEF Paced, CallsTimed, Age, Never
<1>3. timed.kind = "throttle" /\ timed.gap # Never => timed.gap >= Wait
  BY DEF Paced, ThrottlePaced
<1> QED
  BY <1>2, <1>3 DEF PaceIsKept, Most

\* Debounce and throttle serve the last call in time, and a throttled function
\* does not run twice within its interval.
THEOREM TimersKeepPace == TimedSpec => []PaceIsKept
<1>1. TimedInit => Paced(timed)
  BY TimedStartsPaced
<1>2. Paced(timed) /\ [TimedNext]_timed => Paced(timed)'
  BY TimedStaysPaced
<1> QED
  BY <1>1, <1>2, PacedKeepsPace, PTL DEF TimedSpec

----------------------------------------------------------------------------
(* The rate limiter.                                                       *)
(*                                                                         *)
(* RateIsKept bounds what was let through since any instant.  Metered adds *)
(* to it the tokens that are left, which makes the bound inductive, counts *)
(* the intervals up to the last refill only, and has the span begin less   *)
(* than an interval after that refill if anything was let through since    *)
(* without one.                                                            *)

LimiterRecord ==
    [rate : Nat, tokens : 0..Capacity, last : Nat, queue : Seq(Nat),
     due : Nat \cup {NoTimer}, now : Nat, asked : Nat, since : Nat, granted : Nat]

Bill(m) == m.granted * Cost + m.tokens

Metered(m) ==
    /\ m.last <= m.now /\ m.since <= m.now
    /\ m.last >= m.since =>
          Bill(m) <= Capacity + ((m.last - m.since) \div RefillInterval + 1) * m.rate
    /\ m.last < m.since =>
          /\ Bill(m) <= Capacity
          /\ m.granted = 0 \/ m.since - m.last < RefillInterval

\* The waiters are the last Len(m.queue) of the first n callers.
Lined(m, n) ==
    /\ \A i \in 1..Len(m.queue) : m.queue[i] = n - Len(m.queue) + i
    /\ m.queue # <<>> => m.tokens < Cost

Rated(m) ==
    /\ m \in LimiterRecord
    /\ Metered(m)
    /\ Lined(m, m.asked)
    /\ m.queue # <<>> <=> m.due # NoTimer

\* Quotients and the products with the rate and the cost.
LEMMA QuotientIs ==
    ASSUME NEW x \in Nat, NEW d \in Nat \ {0}
    PROVE  /\ x \div d \in Nat
           /\ (x \div d) * d <= x /\ x < (x \div d) * d + d
OBVIOUS

LEMMA ProductGrows ==
    ASSUME NEW a \in Int, NEW b \in Int, NEW r \in Nat, a <= b
    PROVE  /\ a * r \in Int /\ b * r \in Int
           /\ a * r <= b * r
OBVIOUS

LEMMA ProductAdds ==
    ASSUME NEW a \in Int, NEW b \in Int, NEW r \in Nat
    PROVE  /\ a * r \in Int /\ b * r \in Int
           /\ (a + b) * r = a * r + b * r
OBVIOUS

\* If k of d fit in x, k is at most the quotient.
LEMMA QuotientLeast ==
    ASSUME NEW x \in Nat, NEW d \in Nat \ {0}, NEW k \in Int, k * d < x + 1
    PROVE  k <= x \div d
<1> DEFINE q == x \div d
<1>1. q \in Nat /\ x < q * d + d
  BY QuotientIs
<1> HIDE DEF q
<1>2. SUFFICES ASSUME q + 1 <= k
               PROVE  FALSE
  BY <1>1 DEF q
<1>3. (q + 1) * d <= k * d /\ (q + 1) * d \in Int /\ k * d \in Int
  BY <1>1, <1>2, ProductGrows
<1>4. (q + 1) * d = q * d + d
  BY <1>1
<1> QED
  BY <1>1, <1>3, <1>4

\* The intervals of two spans fit into the span of both.
LEMMA QuotientsAdd ==
    ASSUME NEW x \in Nat, NEW y \in Nat, NEW d \in Nat \ {0}
    PROVE  x \div d + y \div d <= (x + y) \div d
<1> DEFINE p == x \div d
           q == y \div d
<1>1. p \in Nat /\ p * d <= x /\ q \in Nat /\ q * d <= y
  BY QuotientIs
<1> HIDE DEF p, q
<1>2. (p + q) * d = p * d + q * d /\ p * d \in Int /\ q * d \in Int
  BY <1>1
<1>3. (p + q) * d < x + y + 1
  BY <1>1, <1>2
<1>4. p + q <= (x + y) \div d
  BY <1>1, <1>3, QuotientLeast
<1> QED
  BY <1>4 DEF p, q

LEMMA QuotientGrows ==
    ASSUME NEW x \in Nat, NEW y \in Nat, NEW d \in Nat \ {0}, x <= y
    PROVE  x \div d <= y \div d
<1> DEFINE p == x \div d
<1>1. p \in Nat /\ p * d <= x /\ p * d \in Int
  BY QuotientIs
<1> HIDE DEF p
<1>2. p <= y \div d
  BY <1>1, QuotientLeast
<1> QED
  BY <1>2 DEF p

\* Less than an interval more is at most one quotient more.
LEMMA QuotientNext ==
    ASSUME NEW x \in Nat, NEW y \in Nat, NEW d \in Nat \ {0}, x < y + d
    PROVE  x \div d <= y \div d + 1
<1> DEFINE p == x \div d
<1>1. p \in Nat /\ p * d <= x /\ p * d \in Int
  BY QuotientIs
<1> HIDE DEF p
<1>2. (p - 1) * d = p * d - d
  BY <1>1
<1>3. p - 1 <= y \div d
  BY <1>1, <1>2, QuotientLeast
<1>4. y \div d \in Nat
  BY QuotientIs
<1> QED
  BY <1>1, <1>3, <1>4 DEF p

\* What letting waiters through keeps: whoever is let through pays a token.
LEMMA FlushedIs ==
    ASSUME NEW m \in LimiterRecord, NEW n \in Nat,
           \A i \in 1..Len(m.queue) : m.queue[i] = n - Len(m.queue) + i
    PROVE  LET r == Flushed(m)
           IN  /\ r \in LimiterRecord
               /\ Bill(r) = Bill(m)
               /\ r.rate = m.rate /\ r.last = m.last /\ r.now = m.now
               /\ r.asked = m.asked /\ r.since = m.since
               /\ m.granted <= r.granted
               /\ Lined(r, n)
               /\ r.queue = <<>> => r.due = NoTimer
               /\ r.queue # <<>> => r.due = m.due /\ m.queue # <<>>
<1> DEFINE k == Least(m.tokens \div Cost, Len(m.queue))
           q == SubSeq(m.queue, k + 1, Len(m.queue))
           u == IF k = Len(m.queue) THEN NoTimer ELSE m.due
           r == Flushed(m)
<1>1. /\ Cost \in Nat \ {0} /\ Capacity \in Nat
      /\ m.tokens \in 0..Capacity /\ m.granted \in Nat /\ m.queue \in Seq(Nat)
      /\ Len(m.queue) \in Nat /\ m.due \in Nat \cup {NoTimer}
  BY LimiterAssumption DEF LimiterRecord
<1>2. /\ m.tokens \div Cost \in Nat
      /\ (m.tokens \div Cost) * Cost <= m.tokens
      /\ m.tokens < (m.tokens \div Cost) * Cost + Cost
  <2>1. m.tokens \in Nat
    BY <1>1
  <2> QED
    BY <1>1, <2>1, QuotientIs
<1>3. /\ k \in Nat /\ k <= Len(m.queue) /\ k <= m.tokens \div Cost
      /\ k = Len(m.queue) \/ k = m.tokens \div Cost
  BY <1>1, <1>2 DEF Least
<1> HIDE DEF k
<1>4. k * Cost \in Nat /\ k * Cost <= m.tokens
  <2> DEFINE a == m.tokens \div Cost
  <2>1. a \in Nat /\ k <= a /\ a * Cost <= m.tokens
    BY <1>2, <1>3
  <2> HIDE DEF a
  <2>2. k * Cost <= a * Cost /\ k * Cost \in Int /\ a * Cost \in Int
    BY <1>1, <1>3, <2>1, ProductGrows
  <2>3. 0 * Cost <= k * Cost /\ 0 * Cost = 0
    BY <1>1, <1>3, ProductGrows
  <2>4. m.tokens \in Int
    BY <1>1
  <2> DEFINE c == k * Cost
             d == a * Cost
  <2>5. c <= d /\ c \in Int /\ d \in Int /\ d <= m.tokens /\ 0 <= c
    BY <2>1, <2>2, <2>3
  <2> HIDE DEF c, d
  <2>6. c \in Nat /\ c <= m.tokens
    BY <2>4, <2>5
  <2> QED
    BY <2>6 DEF c
<1>5. /\ q \in Seq(Nat) /\ Len(q) = Len(m.queue) - k
      /\ \A i \in 1..Len(q) : q[i] = m.queue[k + i]
  <2>1. \A i \in (k + 1)..Len(m.queue) : m.queue[i] \in Nat
    BY <1>1, <1>3
  <2>2. /\ q \in Seq(Nat)
        /\ Len(q) = IF k + 1 <= Len(m.queue) THEN Len(m.queue) - (k + 1) + 1 ELSE 0
        /\ \A i \in 1..(Len(m.queue) - (k + 1) + 1) : q[i] = m.queue[k + 1 + i - 1]
    <3> DEFINE p == m.queue
    <3>1. k + 1 \in Int /\ Len(p) \in Int /\ \A i \in (k + 1)..Len(p) : p[i] \in Nat
      BY <1>1, <1>3, <2>1
    <3> HIDE DEF p
    <3>2. /\ SubSeq(p, k + 1, Len(p)) \in Seq(Nat)
          /\ Len(SubSeq(p, k + 1, Len(p)))
                = IF k + 1 <= Len(p) THEN Len(p) - (k + 1) + 1 ELSE 0
          /\ \A i \in 1..(Len(p) - (k + 1) + 1) :
                SubSeq(p, k + 1, Len(p))[i] = p[k + 1 + i - 1]
      BY <3>1, SubSeqProperties
    <3> QED
      BY <3>2 DEF p
  <2> HIDE DEF q
  <2>3. Len(q) = Len(m.queue) - k
    BY <1>1, <1>3, <2>2
  <2>4. ASSUME NEW i \in 1..Len(q)
        PROVE  q[i] = m.queue[k + i]
    <3>1. i \in 1..(Len(m.queue) - (k + 1) + 1) /\ k + 1 + i - 1 = k + i
      BY <1>1, <1>3, <2>3
    <3> QED
      BY <2>2, <3>1
  <2> QED
    BY <2>2, <2>3, <2>4
<1> HIDE DEF q
<1>6. q = <<>> <=> k = Len(m.queue)
  BY <1>1, <1>3, <1>5
<1>7. u \in Nat \cup {NoTimer}
  BY <1>1
<1>8. m.tokens - k * Cost \in 0..Capacity /\ m.granted + k \in Nat
  <2> DEFINE c == k * Cost
  <2>1. c \in Nat /\ c <= m.tokens
    BY <1>4
  <2> HIDE DEF c
  <2>2. m.tokens - c \in 0..Capacity
    BY <1>1, <2>1
  <2> QED
    BY <1>1, <1>3, <2>2 DEF c
<1>9. /\ r \in LimiterRecord
      /\ r.tokens = m.tokens - k * Cost /\ r.granted = m.granted + k
      /\ r.queue = q /\ r.due = u
      /\ r.rate = m.rate /\ r.last = m.last /\ r.now = m.now
      /\ r.asked = m.asked /\ r.since = m.since
  <2>1. r = [m EXCEPT !.tokens = m.tokens - k * Cost, !.granted = m.granted + k,
                      !.queue = q, !.due = u]
    BY DEF Flushed, k, q
  <2> HIDE DEF r, u
  <2> QED
    BY <1>5, <1>7, <1>8, <2>1 DEF LimiterRecord
<1> HIDE DEF r
<1>10. Bill(r) = Bill(m)
  <2> DEFINE c == k * Cost
             g == m.granted * Cost
             h == (m.granted + k) * Cost
             x == m.tokens
  <2>1. h = g + c /\ g \in Int /\ c \in Int
    BY <1>1, <1>3, ProductAdds
  <2>2. Bill(m) = g + x /\ Bill(r) = h + (x - c)
    BY <1>9 DEF Bill
  <2>3. x \in Int
    BY <1>1
  <2> HIDE DEF c, g, h, x
  <2>4. h + (x - c) = g + x
    BY <2>1, <2>3
  <2> QED
    BY <2>2, <2>4
<1>11. ASSUME NEW i \in 1..Len(q)
       PROVE  q[i] = n - Len(q) + i
  <2>1. k + i \in 1..Len(m.queue)
    <3> DEFINE l == Len(m.queue)
    <3>1. l \in Nat /\ i \in 1..(l - k)
      BY <1>1, <1>5
    <3> HIDE DEF l
    <3>2. k + i \in 1..l
      BY <1>3, <3>1
    <3> QED
      BY <3>2 DEF l
  <2>2. m.queue[k + i] = n - Len(m.queue) + (k + i)
    BY <2>1
  <2>3. q[i] = m.queue[k + i] /\ Len(q) = Len(m.queue) - k /\ i \in Int
    BY <1>5
  <2> QED
    BY <1>1, <1>3, <2>2, <2>3
<1>12. q # <<>> => m.tokens - k * Cost < Cost /\ u = m.due /\ m.queue # <<>>
  BY <1>1, <1>2, <1>3, <1>4, <1>6
<1>13. q = <<>> => u = NoTimer
  BY <1>6
<1>14. m.granted <= m.granted + k
  BY <1>1, <1>3
<1> QED
  BY <1>9, <1>10, <1>11, <1>12, <1>13, <1>14 DEF Lined, r

\* What the refill of the intervals since the last one brings fits into the span.
LEMMA RefillMetered ==
    ASSUME NEW m \in LimiterRecord, Metered(m), NEW k, NEW v \in 0..Capacity,
           k = (m.now - m.last) \div RefillInterval,
           v <= m.tokens + k * m.rate
    PROVE  Metered([m EXCEPT !.tokens = v, !.last = m.now])
<1> DEFINE u == [m EXCEPT !.tokens = v, !.last = m.now]
           b == (m.now - m.since) \div RefillInterval
           g == m.granted * Cost
<1>1. /\ RefillInterval \in Nat \ {0} /\ Cost \in Nat \ {0} /\ Capacity \in Nat
      /\ m.tokens \in 0..Capacity /\ m.granted \in Nat /\ m.rate \in Nat
      /\ m.now \in Nat /\ m.last \in Nat /\ m.since \in Nat
      /\ m.last <= m.now /\ m.since <= m.now
  BY LimiterAssumption DEF LimiterRecord, Metered
<1>2. /\ m.now - m.last \in Nat /\ m.now - m.since \in Nat
      /\ k \in Nat /\ b \in Nat
  <2>1. m.now - m.last \in Nat /\ m.now - m.since \in Nat
    BY <1>1
  <2> QED
    BY <1>1, <2>1, QuotientIs
<1>3. /\ u.tokens = v /\ u.last = m.now /\ u.granted = m.granted /\ u.rate = m.rate
      /\ u.now = m.now /\ u.since = m.since
  BY DEF LimiterRecord
<1> HIDE DEF u
<1>4. g \in Int
  BY <1>1
<1>5. k * m.rate \in Int /\ (b + 1) * m.rate \in Int /\ 0 <= (b + 1) * m.rate
  <2>1. k * m.rate \in Int /\ (b + 1) * m.rate \in Int
    <3> HIDE DEF b
    <3> QED
      BY <1>1, <1>2
  <2>2. 0 * m.rate <= (b + 1) * m.rate /\ 0 * m.rate = 0
    <3> HIDE DEF b
    <3> QED
      BY <1>1, <1>2, ProductGrows
  <2> QED
    BY <2>1, <2>2
<1>6. g + v <= Capacity + (b + 1) * m.rate
  <2>1. CASE m.last >= m.since
    <3> DEFINE a == (m.last - m.since) \div RefillInterval
    <3>1. m.last - m.since \in Nat
      BY <1>1, <2>1
    <3>2. (m.last - m.since) + (m.now - m.last) = m.now - m.since
      BY <1>1
    <3>3. a \in Nat
      BY <1>1, <3>1, QuotientIs
    <3>4. a + k <= b
      BY <1>1, <1>2, <3>1, <3>2, QuotientsAdd
    <3>5. g + m.tokens <= Capacity + (a + 1) * m.rate
      BY <2>1 DEF Metered, Bill
    <3> HIDE DEF a, b, g
    <3>6. /\ (a + 1 + k) * m.rate <= (b + 1) * m.rate
          /\ (a + 1 + k) * m.rate \in Int
      <4>1. a + 1 + k \in Int /\ b + 1 \in Int /\ a + 1 + k <= b + 1
        BY <1>2, <3>3, <3>4
      <4> QED
        BY <1>1, <4>1, ProductGrows
    <3>7. (a + 1 + k) * m.rate = (a + 1) * m.rate + k * m.rate /\ (a + 1) * m.rate \in Int
      <4> DEFINE x == a + 1
      <4>1. x \in Int /\ k \in Int /\ m.rate \in Nat
        BY <1>1, <1>2, <3>3
      <4> HIDE DEF x
      <4>2. (x + k) * m.rate = x * m.rate + k * m.rate /\ x * m.rate \in Int
        BY <4>1, ProductAdds
      <4> QED
        BY <4>2 DEF x
    <3> QED
      BY <1>1, <1>4, <1>5, <3>5, <3>6, <3>7
  <2>2. CASE m.last < m.since /\ m.granted = 0
    <3>1. g = 0
      BY <1>1, <2>2
    <3> HIDE DEF g, b
    <3> QED
      BY <1>1, <1>5, <3>1
  <2>3. CASE m.last < m.since /\ m.granted # 0
    <3>1. m.since - m.last < RefillInterval /\ g + m.tokens <= Capacity
      BY <2>3 DEF Metered, Bill
    <3>2. m.now - m.last < (m.now - m.since) + RefillInterval
      BY <1>1, <3>1
    <3>3. k <= b + 1
      BY <1>1, <1>2, <3>2, QuotientNext
    <3> HIDE DEF b, g
    <3>4. k * m.rate <= (b + 1) * m.rate
      <4>1. k \in Int /\ b + 1 \in Int
        BY <1>2
      <4> QED
        BY <1>1, <3>3, <4>1, ProductGrows
    <3> QED
      BY <1>1, <1>4, <1>5, <3>1, <3>4
  <2>4. \/ m.last >= m.since
        \/ m.last < m.since /\ m.granted = 0
        \/ m.last < m.since /\ m.granted # 0
    BY <1>1
  <2> QED
    BY <2>1, <2>2, <2>3, <2>4
<1>7. Bill(u) = g + v
  BY <1>3 DEF Bill
<1>8. Metered(u)
  BY <1>1, <1>3, <1>6, <1>7 DEF Metered
<1> QED
  BY <1>8 DEF u

\* What a refill keeps; afterwards the last one is less than an interval ago.
LEMMA RefilledIs ==
    ASSUME NEW m \in LimiterRecord, NEW n \in Nat, Metered(m), Lined(m, n)
    PROVE  LET r == Refilled(m)
           IN  /\ r \in LimiterRecord
               /\ Metered(r)
               /\ Lined(r, n)
               /\ r.now = m.now /\ r.asked = m.asked
               /\ r.now - r.last < RefillInterval
               /\ r.queue = <<>> => r.due = NoTimer \/ (m.queue = <<>> /\ r.due = m.due)
               /\ r.queue # <<>> => r.due = m.due /\ m.queue # <<>>
<1> DEFINE k == (m.now - m.last) \div RefillInterval
           v == Least(Capacity, m.tokens + k * m.rate)
           u == [m EXCEPT !.tokens = v, !.last = m.now]
           r == Refilled(m)
<1>1. /\ RefillInterval \in Nat \ {0} /\ Capacity \in Nat
      /\ m.tokens \in 0..Capacity /\ m.rate \in Nat /\ m.granted \in Nat
      /\ m.now \in Nat /\ m.last \in Nat /\ m.last <= m.now /\ m.now - m.last \in Nat
  BY LimiterAssumption DEF LimiterRecord, Metered
<1>2. k \in Nat /\ m.now - m.last < k * RefillInterval + RefillInterval
  BY <1>1, QuotientIs
<1>3. CASE k <= 0
  <2>1. r = m
    BY <1>3 DEF Refilled
  <2>2. m.now - m.last < RefillInterval
    <3> HIDE DEF k
    <3>1. k = 0
      BY <1>2, <1>3
    <3>2. k * RefillInterval = 0
      BY <1>1, <3>1
    <3> QED
      BY <1>1, <1>2, <3>2
  <2> HIDE DEF r
  <2>3. /\ r.queue = <<>> => r.due = NoTimer \/ (m.queue = <<>> /\ r.due = m.due)
        /\ r.queue # <<>> => r.due = m.due /\ m.queue # <<>>
    BY <2>1
  <2>4. r \in LimiterRecord /\ Metered(r) /\ Lined(r, n) /\ r.now = m.now /\ r.asked = m.asked
        /\ r.now - r.last < RefillInterval
    BY <2>1, <2>2
  <2> QED
    BY <2>3, <2>4 DEF r
<1>4. CASE ~(k <= 0)
  <2>1. k * m.rate \in Int /\ 0 <= k * m.rate
    <3> HIDE DEF k
    <3>1. 0 * m.rate <= k * m.rate /\ 0 * m.rate = 0 /\ k * m.rate \in Int
      BY <1>1, <1>2, ProductGrows
    <3> QED
      BY <3>1
  <2>2. v \in 0..Capacity /\ v <= m.tokens + k * m.rate
    <3> DEFINE w == k * m.rate
    <3> HIDE DEF w
    <3> QED
      BY <1>1, <2>1 DEF Least, w
  <2>3. Metered(u)
    BY <2>2, RefillMetered
  <2>4. r = Flushed(u)
    BY <1>4 DEF Refilled
  <2> HIDE DEF v
  <2>5. /\ u \in LimiterRecord
        /\ u.last = m.now /\ u.now = m.now /\ u.queue = m.queue /\ u.due = m.due
        /\ u.asked = m.asked
    BY <1>1, <2>2 DEF LimiterRecord
  <2> HIDE DEF u, k, r
  <2>6. \A i \in 1..Len(u.queue) : u.queue[i] = n - Len(u.queue) + i
    BY <2>5 DEF Lined
  <2>7. /\ r \in LimiterRecord
        /\ Bill(r) = Bill(u)
        /\ r.rate = u.rate /\ r.last = u.last /\ r.now = u.now
        /\ r.asked = u.asked /\ r.since = u.since
        /\ Lined(r, n)
        /\ r.queue = <<>> => r.due = NoTimer
        /\ r.queue # <<>> => r.due = u.due /\ u.queue # <<>>
    BY <2>4, <2>5, <2>6, FlushedIs
  <2>8. m.since <= m.now /\ u.since = m.since /\ m.since \in Nat
    BY <2>3, <2>5 DEF Metered, LimiterRecord, u
  <2>9. Metered(r)
    BY <1>1, <2>3, <2>5, <2>7, <2>8 DEF Metered
  <2>10. r.now - r.last < RefillInterval
    BY <1>1, <2>5, <2>7
  <2>11. ASSUME r.queue = <<>>
         PROVE  r.due = NoTimer
    BY <2>7, <2>11
  <2>12. ASSUME r.queue # <<>>
         PROVE  r.due = m.due /\ m.queue # <<>>
    <3>1. r.due = u.due /\ u.queue # <<>>
      BY <2>7, <2>12
    <3> QED
      BY <2>5, <3>1
  <2>13. r.now = m.now /\ r.asked = m.asked
    BY <2>5, <2>7
  <2> QED
    BY <2>7, <2>9, <2>10, <2>11, <2>12, <2>13 DEF r
<1> QED
  BY <1>3, <1>4

\* The timer is set while there are waiters.
LEMMA EnsureTimerIs ==
    ASSUME NEW m \in LimiterRecord, Metered(m), Lined(m, m.asked),
           m.queue = <<>> => m.due = NoTimer
    PROVE  Rated(EnsureTimer(m))
<1> DEFINE w == m.now + RefillInterval
           r == [m EXCEPT !.due = w]
<1>1. w \in Nat /\ w # NoTimer
  <2>1. m.now \in Nat
    BY DEF LimiterRecord
  <2>2. RefillInterval \in Nat
    BY LimiterAssumption
  <2> QED
    BY <2>1, <2>2 DEF NoTimer
<1> HIDE DEF w
<1>2. CASE m.due # NoTimer \/ m.queue = <<>>
  BY <1>2 DEF EnsureTimer, Rated
<1>3. CASE m.due = NoTimer /\ m.queue # <<>>
  <2>1. /\ r \in LimiterRecord
        /\ r.rate = m.rate /\ r.tokens = m.tokens /\ r.last = m.last /\ r.queue = m.queue
        /\ r.due = w /\ r.now = m.now /\ r.asked = m.asked /\ r.since = m.since
        /\ r.granted = m.granted
    BY <1>1 DEF LimiterRecord
  <2> HIDE DEF r
  <2>2. Metered(r)
    BY <2>1 DEF Metered, Bill
  <2>3. Lined(r, r.asked)
    BY <2>1 DEF Lined
  <2>4. Rated(r)
    BY <1>1, <1>3, <2>1, <2>2, <2>3 DEF Rated
  <2> QED
    BY <1>3, <2>4 DEF EnsureTimer, r, w
<1> QED
  BY <1>2, <1>3

LEMMA TakeRated == Rated(limiter) /\ Take => Rated(limiter')
<1> SUFFICES ASSUME Rated(limiter), Take
             PROVE  Rated(limiter')
  OBVIOUS
<1> DEFINE u == [limiter EXCEPT !.asked = @ + 1]
           n == limiter.asked
           m == Refilled(u)
<1>1. /\ limiter \in LimiterRecord /\ n \in Nat
      /\ Cost \in Nat \ {0} /\ Capacity \in Nat /\ RefillInterval \in Nat \ {0}
  BY LimiterAssumption DEF Rated, LimiterRecord
<1>2. /\ u \in LimiterRecord
      /\ u.rate = limiter.rate /\ u.tokens = limiter.tokens /\ u.last = limiter.last
      /\ u.queue = limiter.queue /\ u.due = limiter.due /\ u.now = limiter.now
      /\ u.asked = n + 1 /\ u.since = limiter.since /\ u.granted = limiter.granted
  <2>1. n + 1 \in Nat
    BY <1>1
  <2>2. u = [limiter EXCEPT !.asked = n + 1]
    OBVIOUS
  <2> HIDE DEF u, n
  <2> QED
    BY <1>1, <2>1, <2>2 DEF LimiterRecord
<1> HIDE DEF u
<1>3. Metered(u) /\ Lined(u, n)
  BY <1>2 DEF Rated, Metered, Lined, Bill
<1>4. /\ m \in LimiterRecord
      /\ Metered(m)
      /\ Lined(m, n)
      /\ m.now = u.now /\ m.asked = n + 1
      /\ m.now - m.last < RefillInterval
      /\ m.queue = <<>> => m.due = NoTimer \/ (u.queue = <<>> /\ m.due = u.due)
      /\ m.queue # <<>> => m.due = u.due /\ u.queue # <<>>
  BY <1>1, <1>2, <1>3, RefilledIs
<1> HIDE DEF m
<1>5. m.queue # <<>> <=> m.due # NoTimer
  BY <1>2, <1>4 DEF Rated
<1>6. CASE m.tokens >= Cost
  <2> DEFINE r == [m EXCEPT !.tokens = @ - Cost, !.granted = @ + 1]
  <2>1. /\ m.tokens \in 0..Capacity /\ m.granted \in Nat /\ m.now \in Nat
        /\ m.last \in Nat /\ m.since \in Nat /\ m.since <= m.now
        /\ m.tokens - Cost \in 0..Capacity /\ m.granted + 1 \in Nat
    <3>1. /\ m.tokens \in 0..Capacity /\ m.granted \in Nat /\ m.now \in Nat
          /\ m.last \in Nat /\ m.since \in Nat
      BY <1>4 DEF LimiterRecord
    <3>2. m.since <= m.now
      BY <1>4 DEF Metered
    <3> QED
      BY <1>1, <1>6, <3>1, <3>2
  <2>2. /\ r \in LimiterRecord
        /\ r.rate = m.rate /\ r.tokens = m.tokens - Cost /\ r.last = m.last
        /\ r.queue = m.queue /\ r.due = m.due /\ r.now = m.now /\ r.asked = m.asked
        /\ r.since = m.since /\ r.granted = m.granted + 1
    BY <1>4, <2>1 DEF LimiterRecord
  <2> HIDE DEF r
  <2>3. m.queue = <<>>
    BY <1>1, <1>4, <1>6, <2>1 DEF Lined
  <2>4. Bill(r) = Bill(m)
    <3>1. (m.granted + 1) * Cost = m.granted * Cost + Cost /\ m.granted * Cost \in Int
      BY <1>1, <2>1
    <3> QED
      BY <1>1, <2>1, <2>2, <3>1 DEF Bill
  <2>5. m.last < m.since => m.since - m.last < RefillInterval
    BY <1>1, <1>4, <2>1
  <2>6. Metered(r)
    BY <1>4, <2>2, <2>4, <2>5 DEF Metered
  <2>7. Lined(r, r.asked)
    BY <2>2, <2>3 DEF Lined
  <2>8. Rated(r)
    BY <1>5, <2>2, <2>6, <2>7 DEF Rated
  <2> QED
    BY <1>6, <2>8 DEF Take, m, u, r
<1>7. CASE ~(m.tokens >= Cost)
  <2> DEFINE q == Append(m.queue, m.asked)
             r == [m EXCEPT !.queue = q]
  <2>1. /\ m.queue \in Seq(Nat) /\ m.asked \in Nat /\ m.tokens \in 0..Capacity
        /\ Len(m.queue) \in Nat
    BY <1>4 DEF LimiterRecord
  <2>2. /\ q \in Seq(Nat) /\ Len(q) = Len(m.queue) + 1 /\ q # <<>>
        /\ q[Len(m.queue) + 1] = n + 1
        /\ \A i \in 1..Len(m.queue) : q[i] = m.queue[i]
    <3>1. /\ q \in Seq(Nat) /\ Len(q) = Len(m.queue) + 1 /\ q # <<>>
          /\ q[Len(m.queue) + 1] = m.asked
          /\ \A i \in 1..Len(m.queue) : q[i] = m.queue[i]
      <4> DEFINE a == m.asked
                 p == m.queue
      <4>1. p \in Seq(Nat) /\ a \in Nat
        BY <2>1
      <4> HIDE DEF a, p
      <4>2. /\ Append(p, a) \in Seq(Nat)
            /\ Append(p, a) # << >>
            /\ Len(Append(p, a)) = Len(p) + 1
            /\ \A i \in 1..Len(p) : Append(p, a)[i] = p[i]
            /\ Append(p, a)[Len(p) + 1] = a
        BY <4>1, AppendProperties
      <4> QED
        BY <4>2 DEF a, p
    <3> HIDE DEF q
    <3> QED
      BY <1>4, <3>1
  <2> HIDE DEF q
  <2>3. /\ r \in LimiterRecord
        /\ r.rate = m.rate /\ r.tokens = m.tokens /\ r.last = m.last
        /\ r.queue = q /\ r.due = m.due /\ r.now = m.now /\ r.asked = n + 1
        /\ r.since = m.since /\ r.granted = m.granted
    BY <1>4, <2>2 DEF LimiterRecord
  <2> HIDE DEF r
  <2>4. Metered(r)
    BY <1>4, <2>3 DEF Metered, Bill
  <2>5. ASSUME NEW i \in 1..Len(q)
        PROVE  q[i] = (n + 1) - Len(q) + i
    <3>1. CASE i = Len(m.queue) + 1
      BY <1>1, <2>1, <2>2, <3>1
    <3>2. CASE i \in 1..Len(m.queue)
      <4>1. q[i] = m.queue[i] /\ m.queue[i] = n - Len(m.queue) + i
        BY <1>4, <2>2, <3>2 DEF Lined
      <4> QED
        BY <1>1, <2>1, <2>2, <3>2, <4>1
    <3> QED
      BY <2>1, <2>2, <3>1, <3>2
  <2>6. m.tokens < Cost
    BY <1>1, <1>7, <2>1
  <2>7. Lined(r, r.asked)
    BY <2>3, <2>5, <2>6 DEF Lined
  <2>8. Rated(EnsureTimer(r))
    BY <2>2, <2>3, <2>4, <2>7, EnsureTimerIs
  <2> QED
    BY <1>7, <2>8 DEF Take, m, u, r, q
<1> QED
  BY <1>6, <1>7

LEMMA TimerRefillsRated == Rated(limiter) /\ TimerRefills => Rated(limiter')
<1> SUFFICES ASSUME Rated(limiter), TimerRefills
             PROVE  Rated(limiter')
  OBVIOUS
<1> DEFINE u == [limiter EXCEPT !.due = NoTimer]
           m == Refilled(u)
<1>1. limiter \in LimiterRecord /\ limiter.asked \in Nat
  BY DEF Rated, LimiterRecord
<1>2. /\ u \in LimiterRecord
      /\ u.rate = limiter.rate /\ u.tokens = limiter.tokens /\ u.last = limiter.last
      /\ u.queue = limiter.queue /\ u.due = NoTimer /\ u.now = limiter.now
      /\ u.asked = limiter.asked /\ u.since = limiter.since
      /\ u.granted = limiter.granted
  BY <1>1 DEF LimiterRecord
<1> HIDE DEF u
<1>3. Metered(u) /\ Lined(u, limiter.asked)
  BY <1>2 DEF Rated, Metered, Lined, Bill
<1>4. /\ m \in LimiterRecord
      /\ Metered(m)
      /\ Lined(m, limiter.asked)
      /\ m.asked = limiter.asked
      /\ m.queue = <<>> => m.due = NoTimer
  BY <1>1, <1>2, <1>3, RefilledIs
<1> HIDE DEF m
<1>5. Rated(EnsureTimer(m))
  BY <1>4, EnsureTimerIs
<1> QED
  BY <1>5 DEF TimerRefills, m, u

LEMMA LimiterTickRated == Rated(limiter) /\ LimiterTick => Rated(limiter')
<1> SUFFICES ASSUME Rated(limiter), LimiterTick
             PROVE  Rated(limiter')
  OBVIOUS
<1>1. limiter \in LimiterRecord
  BY DEF Rated
<1>2. /\ limiter' \in LimiterRecord
      /\ limiter'.rate = limiter.rate /\ limiter'.tokens = limiter.tokens
      /\ limiter'.last = limiter.last /\ limiter'.queue = limiter.queue
      /\ limiter'.due = limiter.due /\ limiter'.now = limiter.now + 1
      /\ limiter'.asked = limiter.asked /\ limiter'.since = limiter.since
      /\ limiter'.granted = limiter.granted
  <2> DEFINE w == limiter.now + 1
  <2>1. w \in Nat
    BY <1>1 DEF LimiterRecord
  <2>2. limiter' = [limiter EXCEPT !.now = w]
    BY DEF LimiterTick
  <2> HIDE DEF w
  <2>3. /\ limiter' \in LimiterRecord
        /\ limiter'.rate = limiter.rate /\ limiter'.tokens = limiter.tokens
        /\ limiter'.last = limiter.last /\ limiter'.queue = limiter.queue
        /\ limiter'.due = limiter.due /\ limiter'.now = w
        /\ limiter'.asked = limiter.asked /\ limiter'.since = limiter.since
        /\ limiter'.granted = limiter.granted
    BY <1>1, <2>1, <2>2 DEF LimiterRecord
  <2> QED
    BY <2>3 DEF w
<1>3. limiter.last \in Nat /\ limiter.now \in Nat /\ limiter.since \in Nat
  BY <1>1 DEF LimiterRecord
<1>4. Bill(limiter') = Bill(limiter)
  BY <1>2 DEF Bill
<1>5. Metered(limiter')
  BY <1>2, <1>3, <1>4 DEF Rated, Metered
<1>6. Lined(limiter', limiter'.asked)
  BY <1>2 DEF Rated, Lined
<1> QED
  BY <1>2, <1>5, <1>6 DEF Rated

LEMMA WatchFromRated == Rated(limiter) /\ WatchFrom => Rated(limiter')
<1> SUFFICES ASSUME Rated(limiter), WatchFrom
             PROVE  Rated(limiter')
  OBVIOUS
<1> DEFINE l == limiter'
<1>1. limiter \in LimiterRecord /\ Capacity \in Nat /\ Cost \in Nat
      /\ RefillInterval \in Nat \ {0}
  BY LimiterAssumption DEF Rated
<1>2. /\ l \in LimiterRecord
      /\ l.rate = limiter.rate /\ l.tokens = limiter.tokens
      /\ l.last = limiter.last /\ l.queue = limiter.queue
      /\ l.due = limiter.due /\ l.now = limiter.now
      /\ l.asked = limiter.asked /\ l.since = limiter.now
      /\ l.granted = 0
  BY <1>1 DEF LimiterRecord, WatchFrom
<1>3. /\ limiter.last \in Nat /\ limiter.now \in Nat /\ limiter.last <= limiter.now
      /\ limiter.tokens \in 0..Capacity /\ limiter.rate \in Nat
  BY <1>1 DEF Rated, Metered, LimiterRecord
<1> HIDE DEF l
<1>4. Bill(l) = limiter.tokens
  BY <1>1, <1>2, <1>3 DEF Bill
<1>5. ASSUME l.last >= l.since
      PROVE  Bill(l) <= Capacity + ((l.last - l.since) \div RefillInterval + 1) * l.rate
  <2> DEFINE a == (l.last - l.since) \div RefillInterval
  <2>1. l.last - l.since \in Nat
    BY <1>2, <1>3, <1>5
  <2>2. a \in Nat
    BY <1>1, <2>1, QuotientIs
  <2> HIDE DEF a
  <2>3. 0 * l.rate <= (a + 1) * l.rate /\ 0 * l.rate = 0 /\ (a + 1) * l.rate \in Int
    BY <1>2, <1>3, <2>2, ProductGrows
  <2>4. Bill(l) <= Capacity + (a + 1) * l.rate
    BY <1>1, <1>3, <1>4, <2>3
  <2> QED
    BY <2>4 DEF a
<1>6. Metered(l)
  BY <1>1, <1>2, <1>3, <1>4, <1>5 DEF Metered
<1>7. Lined(l, l.asked)
  BY <1>2 DEF Rated, Lined
<1>8. Rated(l)
  BY <1>2, <1>6, <1>7 DEF Rated
<1> QED
  BY <1>8 DEF l

LEMMA LimiterStartsRated == LimiterInit => Rated(limiter)
<1> SUFFICES ASSUME LimiterInit
             PROVE  Rated(limiter)
  OBVIOUS
<1>1. /\ Capacity \in Nat /\ Cost \in Nat \ {0} /\ RefillInterval \in Nat \ {0}
      /\ Bursts \subseteq Nat /\ RefillRates \subseteq Nat
  BY LimiterAssumption
<1>2. PICK burst \in Bursts, rate \in RefillRates :
          limiter = [rate |-> rate, tokens |-> Least(burst, Capacity), last |-> 0,
                     queue |-> <<>>, due |-> NoTimer, now |-> 0, asked |-> 0,
                     since |-> 0, granted |-> 0]
  BY DEF LimiterInit
<1>3. Least(burst, Capacity) \in 0..Capacity
  BY <1>1 DEF Least
<1>4. /\ limiter \in LimiterRecord
      /\ limiter.rate \in Nat /\ limiter.tokens \in 0..Capacity /\ limiter.last = 0
      /\ limiter.queue = <<>> /\ limiter.due = NoTimer /\ limiter.now = 0
      /\ limiter.asked = 0 /\ limiter.since = 0 /\ limiter.granted = 0
  BY <1>1, <1>2, <1>3 DEF LimiterRecord
<1>5. (0 - 0) \div RefillInterval = 0
  BY <1>1
<1>6. Metered(limiter)
  BY <1>1, <1>4, <1>5 DEF Metered, Bill
<1>7. Lined(limiter, limiter.asked)
  BY <1>4 DEF Lined
<1> QED
  BY <1>4, <1>6, <1>7 DEF Rated

LEMMA RatedKeepsRate == Rated(limiter) => RateIsKept
<1> SUFFICES ASSUME Rated(limiter)
             PROVE  RateIsKept
  OBVIOUS
<1> DEFINE b == (limiter.now - limiter.since) \div RefillInterval
           g == limiter.granted * Cost
<1>1. /\ Capacity \in Nat /\ Cost \in Nat \ {0} /\ RefillInterval \in Nat \ {0}
      /\ limiter.tokens \in 0..Capacity /\ limiter.rate \in Nat
      /\ limiter.granted \in Nat /\ limiter.queue \in Seq(Nat)
      /\ limiter.last \in Nat /\ limiter.now \in Nat /\ limiter.since \in Nat
      /\ limiter.last <= limiter.now /\ limiter.since <= limiter.now
  BY LimiterAssumption DEF Rated, Metered, LimiterRecord
<1>2. limiter.now - limiter.since \in Nat
  BY <1>1
<1>3. b \in Nat
  BY <1>1, <1>2, QuotientIs
<1>4. g \in Int
  BY <1>1
<1>5. (b + 1) * limiter.rate \in Int /\ 0 <= (b + 1) * limiter.rate
  <2> HIDE DEF b
  <2>1. 0 * limiter.rate <= (b + 1) * limiter.rate /\ 0 * limiter.rate = 0
        /\ (b + 1) * limiter.rate \in Int
    BY <1>1, <1>3, ProductGrows
  <2> QED
    BY <2>1
<1>6. g <= Capacity + (b + 1) * limiter.rate
  <2>1. CASE limiter.last >= limiter.since
    <3> DEFINE a == (limiter.last - limiter.since) \div RefillInterval
    <3>1. /\ limiter.last - limiter.since \in Nat
          /\ limiter.last - limiter.since <= limiter.now - limiter.since
      BY <1>1, <2>1
    <3>2. a \in Nat /\ a <= b
      BY <1>1, <1>2, <3>1, QuotientIs, QuotientGrows
    <3>3. g + limiter.tokens <= Capacity + (a + 1) * limiter.rate
      BY <2>1 DEF Rated, Metered, Bill
    <3> HIDE DEF a, b, g
    <3>4. (a + 1) * limiter.rate <= (b + 1) * limiter.rate /\ (a + 1) * limiter.rate \in Int
      <4>1. a + 1 \in Int /\ b + 1 \in Int /\ a + 1 <= b + 1
        BY <1>3, <3>2
      <4> QED
        BY <1>1, <4>1, ProductGrows
    <3> QED
      BY <1>1, <1>4, <1>5, <3>3, <3>4
  <2>2. CASE limiter.last < limiter.since
    <3>1. g + limiter.tokens <= Capacity
      BY <2>2 DEF Rated, Metered, Bill
    <3> HIDE DEF b, g
    <3> QED
      BY <1>1, <1>4, <1>5, <3>1
  <2> QED
    BY <1>1, <2>1, <2>2
<1>7. /\ Len(limiter.queue) \in Nat
      /\ Len(limiter.queue) > 0 <=> limiter.queue # <<>>
  BY <1>1
<1>8. limiter.queue = [i \in 1..Len(limiter.queue) |-> limiter.asked - Len(limiter.queue) + i]
  <2> DEFINE q == limiter.queue
  <2>1. \A i \in 1..Len(q) : q[i] = limiter.asked - Len(q) + i
    BY DEF Rated, Lined
  <2>2. q \in Seq(Nat)
    BY <1>1
  <2> HIDE DEF q
  <2>3. q = [i \in 1..Len(q) |-> q[i]]
    BY <2>2
  <2>4. q = [i \in 1..Len(q) |-> limiter.asked - Len(q) + i]
    BY <2>1, <2>3, Zenon
  <2> QED
    BY <2>4 DEF q
<1> HIDE DEF b, g
<1>9. /\ Len(limiter.queue) > 0 => limiter.tokens < Cost
      /\ Len(limiter.queue) > 0 <=> limiter.due # NoTimer
  BY <1>7 DEF Rated, Lined
<1> QED
  BY <1>1, <1>6, <1>8, <1>9 DEF RateIsKept, b, g

\* The rate limiter of a job lets no more callers through, in any span of time,
\* than the capacity and the refills of that span allow, and in their order.
THEOREM LimiterKeepsRate == LimiterSpec => []RateIsKept
<1>1. LimiterInit => Rated(limiter)
  BY LimiterStartsRated
<1>2. Rated(limiter) /\ [LimiterNext]_limiter => Rated(limiter)'
  <2>1. Rated(limiter) /\ UNCHANGED limiter => Rated(limiter')
    OBVIOUS
  <2> QED
    BY <2>1, TakeRated, TimerRefillsRated, LimiterTickRated, WatchFromRated DEF LimiterNext
<1> QED
  BY <1>1, <1>2, RatedKeepsRate, PTL DEF LimiterSpec

----------------------------------------------------------------------------
(* The rrule planner.  Besides the types it takes that no moment between   *)
(* the last argument and the cursor suits the rule: the search may begin   *)
(* on the day of the cursor.                                               *)

LEMMA EarliestIs ==
    ASSUME NEW S \in SUBSET Nat, S # {}
    PROVE  Min(S) \in S /\ \A n \in S : Min(S) <= n
<1> DEFINE R == {ss \in Nat \X Nat : ss[1] < ss[2]}
<1>1. IsWellFoundedOn(R, Nat)
  BY NatLessThanWellFounded, Zenon DEF OpToRel
<1> HIDE DEF R
<1>2. PICK m \in S : \A n \in S : ~ (<<n, m>> \in R)
  BY <1>1, WFMin
<1>3. \A n \in S : m <= n
  <2> SUFFICES ASSUME NEW n \in S PROVE m <= n
    OBVIOUS
  <2>1. ~ (<<n, m>> \in R)
    BY <1>2
  <2>2. n < m => <<n, m>> \in R
    BY DEF R
  <2> QED
    BY <2>1, <2>2
<1> QED
  BY <1>3 DEF Min

\* The moments a rule allows, each looked at on its own day.
Moments == 0..(MaxDay + 1) * DayHours - 1
Suiting(rule) == {m \in Moments : Suits(m, rule) /\ m \in DayCandidates(Day(m), rule)}

\* The hours of a day.
LEMMA HoursOfDays ==
    /\ \A d \in Nat, h \in 0..(DayHours - 1) :
          /\ d * DayHours + h \in Nat /\ Day(d * DayHours + h) = d
          /\ d <= MaxDay => d * DayHours + h \in Moments
    /\ \A m \in Moments : Day(m) \in 0..MaxDay
    /\ \A m, n \in Nat : m <= n => Day(m) <= Day(n)
    /\ \A m \in Nat : Day(m) \in Nat /\ m % DayHours \in 0..(DayHours - 1)
<1>1. DayHours \in Nat \ {0} /\ MaxDay \in Nat
  BY CalendarAssumption
<1>2. ASSUME NEW m \in Nat
      PROVE  /\ Day(m) \in Nat /\ Day(m) * DayHours \in Nat
             /\ Day(m) * DayHours <= m /\ m < Day(m) * DayHours + DayHours
  BY <1>1 DEF Day
<1>3. ASSUME NEW m \in Nat PROVE m % DayHours \in 0..(DayHours - 1)
  BY <1>1
<1>4. ASSUME NEW a \in Nat, NEW b \in Nat, a * DayHours < b * DayHours + DayHours
      PROVE  a <= b
  <2> SUFFICES ASSUME b + 1 <= a PROVE FALSE
    OBVIOUS
  <2>1. (b + 1) * DayHours <= a * DayHours
    BY <1>1
  <2>2. (b + 1) * DayHours = b * DayHours + DayHours /\ b * DayHours \in Nat /\ a * DayHours \in Nat
    BY <1>1
  <2> QED
    BY <1>1, <1>4, <2>1, <2>2
<1>5. ASSUME NEW m \in Nat, NEW n \in Nat, m <= n PROVE Day(m) <= Day(n)
  <2>1. Day(m) * DayHours < Day(n) * DayHours + DayHours
    BY <1>1, <1>2, <1>5
  <2> QED
    BY <1>2, <1>4, <2>1
<1>6. ASSUME NEW d \in Nat, NEW h \in 0..(DayHours - 1)
      PROVE  /\ d * DayHours + h \in Nat /\ Day(d * DayHours + h) = d
             /\ d <= MaxDay => d * DayHours + h \in Moments
  <2> DEFINE m == d * DayHours + h
             q == Day(m)
  <2>1. d * DayHours \in Nat /\ h \in Nat /\ h < DayHours /\ m \in Nat
    BY <1>1
  <2>2. q \in Nat /\ q * DayHours \in Nat /\ q * DayHours <= m /\ m < q * DayHours + DayHours
    BY <1>2, <2>1
  <2>3. m = d * DayHours + h
    OBVIOUS
  <2> HIDE DEF m, q
  <2>4. q <= d
    BY <1>1, <1>4, <2>1, <2>2, <2>3
  <2>5. d <= q
    BY <1>1, <1>4, <2>1, <2>2, <2>3
  <2>6. d <= MaxDay => m \in Moments
    <3> SUFFICES ASSUME d <= MaxDay PROVE m \in Moments
      OBVIOUS
    <3>1. d * DayHours <= MaxDay * DayHours /\ MaxDay * DayHours \in Nat
      BY <1>1
    <3>2. (MaxDay + 1) * DayHours = MaxDay * DayHours + DayHours
      BY <1>1
    <3>3. m <= (MaxDay + 1) * DayHours - 1
      BY <1>1, <2>1, <2>3, <3>1, <3>2
    <3> QED
      BY <1>1, <2>1, <3>2, <3>1, <3>3 DEF Moments
  <2>7. q = d
    BY <2>1, <2>2, <2>4, <2>5
  <2>8. m \in Nat /\ q = d /\ (d <= MaxDay => m \in Moments)
    BY <2>1, <2>6, <2>7
  <2> QED
    BY <2>8, Zenon DEF m, q
<1>7. ASSUME NEW m \in Moments PROVE Day(m) \in 0..MaxDay
  <2>1. (MaxDay + 1) * DayHours = MaxDay * DayHours + DayHours /\ MaxDay * DayHours \in Nat
    BY <1>1
  <2>2. m \in Nat /\ m < MaxDay * DayHours + DayHours
    BY <1>1, <2>1 DEF Moments
  <2>3. Day(m) * DayHours < MaxDay * DayHours + DayHours
    BY <1>1, <1>2, <2>1, <2>2
  <2> QED
    BY <1>1, <1>2, <1>4, <2>2, <2>3
<1> QED
  BY <1>2, <1>3, <1>5, <1>6, <1>7

\* The candidates of a day are moments of it.
LEMMA CandidatesOfDay ==
    ASSUME NEW rule \in Rules, NEW d \in Nat
    PROVE  \A m \in DayCandidates(d, rule) :
                m \in Nat /\ Day(m) = d /\ (d <= MaxDay => m \in Moments)
<1> DEFINE H == IF rule.byHour # {} THEN 0..DayHours - 1 ELSE {rule.start % DayHours}
<1>1. H \subseteq 0..(DayHours - 1)
  <2>1. rule.start \in Nat
    BY CalendarAssumption
  <2>2. rule.start % DayHours \in 0..(DayHours - 1)
    BY <2>1, HoursOfDays
  <2> QED
    BY <2>2, Zenon
<1>2. DayCandidates(d, rule) = {d * DayHours + h : h \in H}
  BY DEF DayCandidates
<1> HIDE DEF H
<1> SUFFICES ASSUME NEW m \in DayCandidates(d, rule)
             PROVE  m \in Nat /\ Day(m) = d /\ (d <= MaxDay => m \in Moments)
  OBVIOUS
<1>3. PICK h \in H : m = d * DayHours + h
  BY <1>2
<1> QED
  BY <1>1, <1>3, HoursOfDays

\* The days that are searched have their candidates among the moments.
LEMMA CandidatesAre ==
    ASSUME NEW rule \in Rules, NEW first \in Nat, NEW last \in Nat, last <= MaxDay
    PROVE  \A m : m \in UNION {DayCandidates(d, rule) : d \in first..last}
                      <=> /\ m \in Moments /\ m \in DayCandidates(Day(m), rule)
                          /\ first <= Day(m) /\ Day(m) <= last
<1>1. ASSUME NEW d \in 0..MaxDay, NEW m \in DayCandidates(d, rule)
      PROVE  m \in Moments /\ Day(m) = d
  BY CandidatesOfDay, CalendarAssumption
<1>2. ASSUME NEW d \in first..last, NEW m \in DayCandidates(d, rule)
      PROVE  /\ m \in Moments /\ m \in DayCandidates(Day(m), rule)
             /\ first <= Day(m) /\ Day(m) <= last
  <2>1. d \in 0..MaxDay /\ first <= d /\ d <= last
    BY CalendarAssumption
  <2>2. m \in Moments /\ Day(m) = d
    BY <1>1, <2>1
  <2> QED
    BY <2>1, <2>2
<1>3. ASSUME NEW m \in Moments, m \in DayCandidates(Day(m), rule), first <= Day(m), Day(m) <= last
      PROVE  \E d \in first..last : m \in DayCandidates(d, rule)
  <2>1. Day(m) \in 0..MaxDay
    BY HoursOfDays
  <2>2. Day(m) \in first..last
    BY <1>3, <2>1
  <2> QED
    BY <1>3, <2>2
<1> QED
  BY <1>2, <1>3

\* Between two calls.
PlanType ==
    plan \in [kind : {"tokens", "rrule"}, month : Months, rule : Rules, emitted : Nat,
              cursor : Nat \cup {NoMoment}, after : Nat \cup {NoMoment},
              answer : Nat \cup {NoMoment, GaveUp}, calls : Nat]

CursorInv ==
    /\ PlanType
    /\ plan.emitted <= plan.rule.maxRuns
    /\ plan.cursor # NoMoment =>
          \A m \in Suiting(plan.rule) : m > plan.after => plan.cursor <= m

\* What next finds is what it should, on the days from the first one on.
LEMMA SearchFindsAll ==
    ASSUME CursorInv, plan.kind = "rrule", NEW after \in Nat, after >= plan.after,
           LastDay(plan, after) <= MaxDay
    PROVE  /\ FirstDay(plan, after) \in Nat /\ LastDay(plan, after) \in Nat
           /\ FirstDay(plan, after) <= LastDay(plan, after)
           /\ {m \in UNION {DayCandidates(d, plan.rule) :
                             d \in FirstDay(plan, after)..LastDay(plan, after)} :
                m > after /\ Suits(m, plan.rule)}
               = {m \in Suiting(plan.rule) : m > after /\ Day(m) <= LastDay(plan, after)}
<1> DEFINE rule == plan.rule
           first == FirstDay(plan, after)
           last == LastDay(plan, after)
           U == UNION {DayCandidates(d, rule) : d \in first..last}
<1>1. /\ rule \in Rules /\ rule.start \in Nat
      /\ plan.after \in Nat \cup {NoMoment} /\ plan.cursor \in Nat \cup {NoMoment}
      /\ plan.cursor # NoMoment => \A m \in Suiting(rule) : m > plan.after => plan.cursor <= m
  BY CalendarAssumption DEF CursorInv, PlanType
<1>2. first \in Nat /\ \A m \in Suiting(rule) : m > after => first <= Day(m)
  <2>1. CASE plan.cursor # NoMoment
    <3>1. first = Day(plan.cursor) /\ plan.cursor \in Nat
      BY <1>1, <2>1 DEF FirstDay
    <3>2. ASSUME NEW m \in Suiting(rule), m > after PROVE first <= Day(m)
      <4>1. m \in Nat /\ m > plan.after
        BY <1>1, <3>2, CalendarAssumption DEF Suiting, Moments, NoMoment
      <4>2. plan.cursor <= m
        BY <1>1, <2>1, <4>1
      <4> QED
        BY <3>1, <4>1, <4>2, HoursOfDays
    <3> QED
      BY <3>1, <3>2, HoursOfDays
  <2>2. CASE plan.cursor = NoMoment
    <3> DEFINE x == Max({after + 1, rule.start})
    <3>1. x = IF after + 1 >= rule.start THEN after + 1 ELSE rule.start
      <4>1. \E y \in {after + 1, rule.start} : \A z \in {after + 1, rule.start} : y >= z
        BY <1>1
      <4>2. x \in {after + 1, rule.start} /\ \A z \in {after + 1, rule.start} : x >= z
        BY <4>1 DEF Max
      <4> HIDE DEF x
      <4> QED
        BY <1>1, <4>2
    <3>2. first = Day(x)
      BY <2>2 DEF FirstDay
    <3> HIDE DEF x
    <3>3. x \in Nat
      BY <1>1, <3>1
    <3>4. ASSUME NEW m \in Suiting(rule), m > after PROVE first <= Day(m)
      <4>1. m \in Nat /\ m >= rule.start
        BY CalendarAssumption DEF Suiting, Moments, Suits
      <4>2. x <= m
        BY <1>1, <3>1, <3>4, <4>1
      <4> QED
        BY <3>2, <3>3, <4>1, <4>2, HoursOfDays
    <3> QED
      BY <3>2, <3>3, <3>4, HoursOfDays
  <2> QED
    BY <2>1, <2>2
<1>3. last = first + SearchDays - 1
  BY DEF LastDay
<1> HIDE DEF first
<1>4. last \in Nat /\ first <= last
  BY <1>2, <1>3, CalendarAssumption
<1>5. last <= MaxDay
  OBVIOUS
<1> HIDE DEF last
<1>6. \A m : m \in U <=> /\ m \in Moments /\ m \in DayCandidates(Day(m), rule)
                         /\ first <= Day(m) /\ Day(m) <= last
  BY <1>1, <1>2, <1>4, <1>5, CandidatesAre
<1> HIDE DEF U
<1>7. \A m : m \in Suiting(rule) <=>
                m \in Moments /\ Suits(m, rule) /\ m \in DayCandidates(Day(m), rule)
  BY DEF Suiting
<1>8. \A m : m \in U /\ m > after /\ Suits(m, rule)
                <=> m \in Suiting(rule) /\ m > after /\ Day(m) <= last
  BY <1>2, <1>6, <1>7
<1>9. {m \in U : m > after /\ Suits(m, rule)}
          = {m \in Suiting(rule) : m > after /\ Day(m) <= last}
  BY <1>8
<1> QED
  BY <1>2, <1>4, <1>9 DEF U, first, last

\* What next should find: the moments after its argument, and those in time.
Ahead(rule, after) == {m \in Suiting(rule) : m > after}
InTime(rule, after) == {m \in Ahead(rule, after) : m <= rule.endAt}

Within(rule, after, last) == {m \in Ahead(rule, after) : Day(m) <= last}

\* The answer of next, in those terms.
LEMMA AnswerIs ==
    ASSUME CursorInv, plan.kind = "rrule", NEW after \in Nat, after >= plan.after,
           LastDay(plan, after) <= MaxDay
    PROVE  LET last == LastDay(plan, after)
               B == Within(plan.rule, after, last)
           IN  /\ RRuleNext(plan, after) =
                     CASE plan.emitted >= plan.rule.maxRuns -> NoMoment
                       [] plan.emitted < plan.rule.maxRuns /\ B # {} ->
                            IF Min(B) > plan.rule.endAt THEN NoMoment ELSE Min(B)
                       [] OTHER ->
                            IF \E d \in FirstDay(plan, after)..last : PastEnd(d, plan, after)
                            THEN NoMoment ELSE GaveUp
               /\ B # {} => Min(B) \in B /\ \A m \in B : Min(B) <= m
<1> DEFINE rule == plan.rule
           last == LastDay(plan, after)
           F == {m \in UNION {DayCandidates(d, rule) : d \in FirstDay(plan, after)..last} :
                    m > after /\ Suits(m, rule)}
           B == Within(rule, after, last)
<1>1. F = B
  <2>1. \A m : m \in B <=> m \in Suiting(rule) /\ m > after /\ Day(m) <= last
    BY DEF Ahead, Within
  <2>2. F = {m \in Suiting(rule) : m > after /\ Day(m) <= last}
    BY SearchFindsAll
  <2> HIDE DEF F, B
  <2> QED
    BY <2>1, <2>2
<1>2. RRuleNext(plan, after) =
          CASE plan.emitted >= plan.rule.maxRuns -> NoMoment
            [] plan.emitted < plan.rule.maxRuns /\ F # {} ->
                 IF Min(F) > plan.rule.endAt THEN NoMoment ELSE Min(F)
            [] OTHER ->
                 IF \E d \in FirstDay(plan, after)..last : PastEnd(d, plan, after)
                 THEN NoMoment ELSE GaveUp
  BY DEF RRuleNext
<1>3. B \in SUBSET Nat
  BY CalendarAssumption DEF Ahead, Within, Suiting, Moments
<1> HIDE DEF F, B
<1>4. B # {} => Min(B) \in B /\ \A m \in B : Min(B) <= m
  BY <1>3, EarliestIs
<1> QED
  BY <1>1, <1>2, <1>4 DEF B

\* A day that is past endAt, or has a candidate that is, has nothing in time
\* after it.
LEMMA PastEndEnds ==
    ASSUME NEW rule \in Rules, plan.rule = rule, NEW after \in Nat, NEW d \in Nat,
           PastEnd(d, plan, after), NEW n \in Nat, d < Day(n)
    PROVE  n > rule.endAt
<1>1. rule.endAt \in Nat /\ DayHours \in Nat \ {0}
  BY CalendarAssumption
<1>2. ASSUME NEW c \in Nat, Day(c) = d, c > rule.endAt PROVE n > rule.endAt
  <2>1. ~ (n <= c)
    <3>1. n <= c => Day(n) <= Day(c)
      BY HoursOfDays
    <3>2. Day(n) \in Nat
      BY HoursOfDays
    <3> QED
      BY <1>2, <3>1, <3>2
  <2> QED
    BY <1>1, <1>2, <2>1
<1>3. d * DayHours \in Nat /\ Day(d * DayHours) = d
  <2>1. d * DayHours + 0 \in Nat /\ Day(d * DayHours + 0) = d
    <3>1. 0 \in 0..(DayHours - 1)
      BY <1>1
    <3> QED
      BY <3>1, HoursOfDays
  <2>2. d * DayHours + 0 = d * DayHours
    BY <1>1
  <2> QED
    BY <2>1, <2>2
<1>4. \/ d * DayHours > rule.endAt
      \/ \E m \in DayCandidates(d, rule) : m > rule.endAt
  BY DEF PastEnd
<1>5. \A m \in DayCandidates(d, rule) : m \in Nat /\ Day(m) = d
  BY CandidatesOfDay
<1> QED
  BY <1>2, <1>3, <1>4, <1>5

\* The set the property speaks of.
LEMMA InTimeIs ==
    ASSUME PlanType
    PROVE  {m \in 0..(MaxDay + 1) * DayHours - 1 :
               /\ m > plan.after /\ m <= plan.rule.endAt /\ Suits(m, plan.rule)
               /\ m \in DayCandidates(Day(m), plan.rule)} = InTime(plan.rule, plan.after)
  BY DEF InTime, Ahead, Suiting, Moments

\* A call keeps the invariant and is answered as it should.
LEMMA CallIsSound ==
    ASSUME CursorInv, NEW after \in Afters, CallNextRRule(after)
    PROVE  CursorInv' /\ CursorIsSound'
<1> DEFINE rule == plan.rule
           first == FirstDay(plan, after)
           last == LastDay(plan, after)
           A == Ahead(rule, after)
           B == Within(rule, after, last)
           m == RRuleNext(plan, after)
           past == \E d \in first..last : PastEnd(d, plan, after)
<1>1. /\ after \in Nat /\ plan.kind = "rrule" /\ after >= plan.after /\ last <= MaxDay
      /\ rule \in Rules /\ rule.maxRuns \in Nat /\ rule.endAt \in Nat
      /\ plan.emitted \in Nat /\ plan.emitted <= rule.maxRuns /\ plan.after \in Nat \cup {NoMoment}
      /\ plan.cursor \in Nat \cup {NoMoment}
  BY CalendarAssumption DEF CursorInv, PlanType, CallNextRRule
<1>2. plan' = [plan EXCEPT !.calls = @ + 1, !.after = after, !.answer = m,
                   !.cursor = IF m \in Nat THEN m ELSE @,
                   !.emitted = IF m \in Nat THEN @ + 1 ELSE @]
  BY Zenon DEF CallNextRRule
<1>3. /\ m = CASE plan.emitted >= rule.maxRuns -> NoMoment
              [] plan.emitted < rule.maxRuns /\ B # {} ->
                   IF Min(B) > rule.endAt THEN NoMoment ELSE Min(B)
              [] OTHER -> IF past THEN NoMoment ELSE GaveUp
      /\ B # {} => Min(B) \in B /\ \A n \in B : Min(B) <= n
  BY <1>1, AnswerIs
<1>4. first \in Nat /\ last \in Nat /\ first <= last
  BY <1>1, SearchFindsAll
<1>5. /\ A \subseteq Nat /\ \A n : n \in A <=> n \in Suiting(rule) /\ n > after
      /\ B \subseteq A /\ \A n : n \in B <=> n \in A /\ Day(n) <= last
  BY CalendarAssumption DEF Ahead, Within, Suiting, Moments
<1>6. \A n \in A, k \in Nat : Day(n) \in Nat /\ (n <= k => Day(n) <= Day(k))
  BY <1>5, HoursOfDays
<1>7. \A n : n \in InTime(rule, after) <=> n \in A /\ n <= rule.endAt
  BY DEF InTime
<1>8. past /\ B = {} => InTime(rule, after) = {}
  <2> SUFFICES ASSUME past, B = {}, NEW n \in InTime(rule, after) PROVE FALSE
    OBVIOUS
  <2>1. n \in A /\ n <= rule.endAt /\ n \in Nat /\ Day(n) \in Nat
    BY <1>5, <1>6, <1>7
  <2>2. last < Day(n)
    BY <1>4, <1>5, <2>1
  <2>3. PICK d \in first..last : PastEnd(d, plan, after)
    OBVIOUS
  <2>4. d \in Nat /\ d < Day(n)
    BY <1>4, <2>1, <2>2
  <2>5. n > rule.endAt
    BY <1>1, <2>1, <2>3, <2>4, PastEndEnds
  <2> QED
    BY <1>1, <2>1, <2>5
<1>9. ~past => last * DayHours <= rule.endAt
  <2>1. ~past => ~PastEnd(last, plan, after)
    BY <1>4
  <2>2. last * DayHours \in Nat
    BY <1>4, CalendarAssumption
  <2> QED
    BY <1>1, <2>1, <2>2 DEF PastEnd
<1> HIDE DEF A, B, first, m, past
<1>10. /\ m \in Nat \cup {NoMoment, GaveUp}
       /\ m \in Nat => /\ m \in A /\ m <= rule.endAt /\ plan.emitted < rule.maxRuns
                       /\ \A n \in A : m <= n
       /\ m = NoMoment => plan.emitted = rule.maxRuns \/ InTime(rule, after) = {}
       /\ m = GaveUp => B = {} /\ last * DayHours <= rule.endAt
  <2>1. CASE plan.emitted >= rule.maxRuns
    <3>1. m = NoMoment
      BY <1>1, <1>3, <2>1
    <3> QED
      BY <1>1, <2>1, <3>1 DEF NoMoment, GaveUp
  <2>2. CASE plan.emitted < rule.maxRuns /\ B # {}
    <3> DEFINE low == Min(B)
    <3>1. low \in B /\ low \in Nat /\ low \in A /\ Day(low) <= last /\ \A n \in B : low <= n
      BY <1>3, <1>5, <2>2
    <3>2. m = IF low > rule.endAt THEN NoMoment ELSE low
      BY <1>1, <1>3, <2>2
    <3> HIDE DEF low
    <3>3. ASSUME NEW n \in A PROVE low <= n
      <4>1. CASE n \in B
        BY <3>1, <4>1
      <4>2. CASE n \notin B
        <5>1. n \in Nat /\ Day(n) \in Nat /\ Day(low) \in Nat /\ ~ (Day(n) <= last)
          BY <1>5, <1>6, <3>1, <4>2
        <5>2. ~ (Day(n) <= Day(low))
          BY <1>4, <3>1, <5>1
        <5>3. ~ (n <= low)
          BY <1>6, <3>1, <5>2
        <5> QED
          BY <3>1, <5>1, <5>3
      <4> QED
        BY <4>1, <4>2
    <3>4. CASE low > rule.endAt
      <4>1. m = NoMoment
        BY <3>2, <3>4
      <4>2. ASSUME NEW n \in InTime(rule, after) PROVE FALSE
        <5>1. n \in A /\ n <= rule.endAt /\ n \in Nat /\ low <= n
          BY <1>5, <1>7, <3>3
        <5> QED
          BY <1>1, <3>1, <3>4, <5>1
      <4> QED
        BY <4>1, <4>2 DEF NoMoment, GaveUp
    <3>5. CASE ~ (low > rule.endAt)
      <4>1. m = low /\ low <= rule.endAt
        BY <1>1, <3>1, <3>2, <3>5
      <4> QED
        BY <2>2, <3>1, <3>3, <4>1 DEF NoMoment, GaveUp
    <3> QED
      BY <3>4, <3>5
  <2>3. CASE plan.emitted < rule.maxRuns /\ B = {}
    <3>1. m = IF past THEN NoMoment ELSE GaveUp
      BY <1>1, <1>3, <2>3
    <3> QED
      BY <1>8, <1>9, <2>3, <3>1 DEF NoMoment, GaveUp
  <2> QED
    BY <1>1, <2>1, <2>2, <2>3
<1>11. /\ plan'.kind = "rrule" /\ plan'.rule = rule /\ plan'.after = after /\ plan'.answer = m
       /\ plan'.cursor = (IF m \in Nat THEN m ELSE plan.cursor)
       /\ plan'.emitted = (IF m \in Nat THEN plan.emitted + 1 ELSE plan.emitted)
  BY <1>1, <1>2 DEF CursorInv, PlanType
<1>12. PlanType'
  <2>1. PlanType
    BY DEF CursorInv
  <2> DEFINE cursor == IF m \in Nat THEN m ELSE plan.cursor
             emitted == IF m \in Nat THEN plan.emitted + 1 ELSE plan.emitted
             calls == plan.calls + 1
  <2>2. calls \in Nat
    BY <2>1 DEF PlanType
  <2>3. cursor \in Nat \cup {NoMoment} /\ emitted \in Nat
    BY <1>1, <1>10
  <2>4. plan' = [plan EXCEPT !.calls = calls, !.after = after, !.answer = m,
                     !.cursor = cursor, !.emitted = emitted]
    BY <1>2, <2>1 DEF PlanType
  <2> HIDE DEF cursor, emitted, calls
  <2> QED
    BY <1>1, <1>10, <2>1, <2>2, <2>3, <2>4 DEF PlanType
<1>13. plan'.emitted <= rule.maxRuns
  BY <1>1, <1>10, <1>11
<1>14. ASSUME plan'.cursor # NoMoment, NEW n \in Suiting(rule), n > after
       PROVE  plan'.cursor <= n
  <2>1. n \in A /\ n \in Nat
    BY <1>5, <1>14
  <2>2. CASE m \in Nat
    BY <1>10, <1>11, <2>1, <2>2
  <2>3. CASE m \notin Nat
    <3>1. plan'.cursor = plan.cursor /\ n > plan.after
      BY <1>1, <1>11, <1>14, <2>1, <2>3 DEF NoMoment
    <3> QED
      BY <1>14, <3>1 DEF CursorInv
  <2> QED
    BY <2>2, <2>3
<1>15. CursorInv'
  BY <1>11, <1>12, <1>13, <1>14 DEF CursorInv
<1>16. m \in Nat => m = Min(InTime(rule, after))
  <2> SUFFICES ASSUME m \in Nat PROVE m = Min(InTime(rule, after))
    OBVIOUS
  <2>1. m \in InTime(rule, after) /\ \A n \in InTime(rule, after) : m <= n
    BY <1>7, <1>10
  <2>2. InTime(rule, after) \in SUBSET Nat /\ InTime(rule, after) # {}
    BY <1>5, <1>7, <2>1
  <2>3. /\ Min(InTime(rule, after)) \in InTime(rule, after)
        /\ \A n \in InTime(rule, after) : Min(InTime(rule, after)) <= n
    BY <2>2, EarliestIs
  <2> QED
    BY <2>1, <2>2, <2>3
<1>17. m = GaveUp => LastDay(plan', plan'.after) = last
  <2>1. m = GaveUp => plan'.cursor = plan.cursor
    BY <1>11 DEF GaveUp
  <2> QED
    BY <1>11, <2>1 DEF LastDay, FirstDay, first
<1>18. CursorIsSound'
  <2> DEFINE all == {n \in 0..(MaxDay + 1) * DayHours - 1 :
                        /\ n > plan'.after /\ n <= plan'.rule.endAt /\ Suits(n, plan'.rule)
                        /\ n \in DayCandidates(Day(n), plan'.rule)}
             lastNow == LastDay(plan', plan'.after)
  <2>1. all = InTime(rule, after)
    BY <1>11 DEF InTime, Ahead, Suiting, Moments
  <2> HIDE DEF all
  <2>2. m = GaveUp => \A n \in all : last < Day(n)
    <3> SUFFICES ASSUME m = GaveUp, NEW n \in all PROVE last < Day(n)
      OBVIOUS
    <3>1. n \in A /\ n \notin B /\ Day(n) \in Nat
      BY <1>6, <1>7, <1>10, <2>1
    <3> QED
      BY <1>4, <1>5, <3>1
  <2>3. m = GaveUp => lastNow = last
    BY <1>17
  <2> HIDE DEF lastNow, last
  <2>4. /\ plan'.emitted <= plan'.rule.maxRuns
        /\ plan'.answer \in Nat => plan'.answer = Min(all)
        /\ plan'.answer = NoMoment => all = {} \/ plan'.emitted = plan'.rule.maxRuns
        /\ plan'.answer = GaveUp =>
              lastNow * DayHours <= plan'.rule.endAt /\ \A n \in all : lastNow < Day(n)
    BY <1>10, <1>11, <1>13, <1>16, <2>1, <2>2, <2>3 DEF NoMoment
  <2> QED
    BY <2>4 DEF CursorIsSound, all, lastNow
<1> QED
  BY <1>15, <1>18

\* The cursor of the rrule planner loses no moment: while time does not go
\* back, next answers with the first moment after its argument that the rule
\* and the calendars allow, and with no more of them than maxRuns; it answers
\* with none, or throws, only where there is none up to endAt, or in its days.
THEOREM RRuleCursorIsSound == CalendarSpec => []CursorIsSound
<1>1. CalendarInit => CursorInv /\ CursorIsSound
  <2> SUFFICES ASSUME CalendarInit PROVE CursorInv /\ CursorIsSound
    OBVIOUS
  <2>1. PICK kind \in {"tokens", "rrule"}, month \in Months, rule \in Rules :
            plan = PlanOf(kind, month, rule)
    BY DEF CalendarInit
  <2>2. /\ PlanType /\ plan.rule = rule /\ plan.emitted = 0
        /\ plan.cursor = NoMoment /\ plan.calls = 0
    BY <2>1 DEF PlanOf, PlanType
  <2>3. 0 <= rule.maxRuns
    BY CalendarAssumption
  <2>4. CursorInv
    BY <2>2, <2>3 DEF CursorInv
  <2>5. CursorIsSound
    BY <2>2 DEF CursorIsSound
  <2> QED
    BY <2>4, <2>5
<1>2. CursorInv /\ CursorIsSound /\ [CalendarNext]_plan => CursorInv' /\ CursorIsSound'
  <2>1. ASSUME CursorInv, CalendarNext PROVE CursorInv' /\ CursorIsSound'
    BY <2>1, CallIsSound DEF CalendarNext
  <2>2. ASSUME CursorInv, CursorIsSound, UNCHANGED plan PROVE CursorInv' /\ CursorIsSound'
    <3>1. CursorInv'
      BY <2>2 DEF CursorInv, PlanType
    <3>2. CursorIsSound'
      BY <2>2 DEF CursorIsSound
    <3> QED
      BY <3>1, <3>2
  <2> QED
    BY <2>1, <2>2
<1> QED
  BY <1>1, <1>2, PTL DEF CalendarSpec
=============================================================================
