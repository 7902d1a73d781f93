----------------------------- MODULE Listeners -----------------------------
(***************************************************************************)
(* The three emitters: CacheEventEmitter of shareds/cache, the EventBus of *)
(* packages/cron and mitt of shareds/async.  A listener may call the       *)
(* emitter back: what happens between two deliveries is done by the        *)
(* listener called last.  An emission inside another one is not modelled.  *)
(***************************************************************************)
EXTENDS Naturals, Sequences, SequencesExt, FiniteSets

CONSTANTS
    Events,       \* "*" hears of every event, except on the cron's bus
    Plain, Onces, \* listeners given to on and to once
    MaxBuckets,   \* bound on the buckets made
    MaxHandles,   \* bound on the unsubscribe functions given out
    MaxHeard      \* bound on the listeners one emission calls

VARIABLE bus
\* kind: which emitter; bucket: the bucket of each event, 0 for none;
\* buckets: the listeners of each, in order; handles: the unsubscribe
\* functions given out; emission: the last one

NoEmission ==
    [event |-> "", bucket |-> 0, todo |-> <<>>, called |-> <<>>, staying |-> {},
     threw |-> FALSE]

BusInit ==
    \E kind \in {"cache", "cron", "mitt"} :
        bus = [kind |-> kind, bucket |-> [e \in Events |-> 0], buckets |-> <<>>,
               handles |-> {}, emission |-> NoEmission]

Listening(b, e) == IF b.bucket[e] = 0 THEN <<>> ELSE b.buckets[b.bucket[e]]
Heeds(b, i) == b.kind # "mitt" /\ b.emission.bucket = i

\* A Set that is walked shows what is added to it and hides what is deleted;
\* mitt walks a copy of its array.
Add(b, e, l) ==
    LET old == Listening(b, e)
        i == IF b.bucket[e] = 0 THEN Len(b.buckets) + 1 ELSE b.bucket[e]
        new == Append(old, l)
    IN  IF b.kind # "mitt" /\ Contains(old, l) THEN b
        ELSE [b EXCEPT
            !.bucket[e] = i,
            !.buckets = IF i > Len(@) THEN Append(@, new) ELSE [@ EXCEPT ![i] = new],
            !.emission.todo = IF Heeds(b, i) THEN Append(@, l) ELSE @]

Delete(b, i, l) ==
    [b EXCEPT
        !.buckets[i] = RemoveFirst(@, l),
        !.emission.todo = IF Heeds(b, i) THEN RemoveFirst(@, l) ELSE @,
        !.emission.staying = IF b.emission.bucket = i THEN @ \ {l} ELSE @]

\* Mutant of Drop: a walk by index, which a deletion moves past the next one.
DropShifting(b, e, i, l) ==
    LET d == Delete(b, i, l)
    IN  [d EXCEPT
            !.bucket[e] = IF b.kind # "mitt" /\ d.buckets[i] = <<>> THEN 0 ELSE @,
            !.emission.todo = IF Heeds(b, i) /\ @ = b.emission.todo /\ @ # <<>>
                              THEN Tail(@) ELSE @]

\* An event whose bucket became empty loses it, whichever bucket that was.
Drop(b, e, i, l) ==
    LET d == Delete(b, i, l)
    IN  [d EXCEPT
            !.bucket[e] = IF b.kind # "mitt" /\ d.buckets[i] = <<>> THEN 0 ELSE @]

OffFrom(b, e, l) ==
    IF b.bucket[e] = 0 THEN b ELSE Drop(b, e, b.bucket[e], l)

\* The cron's handle calls off; the cache's keeps the bucket it knew.
Leave(b, h) ==
    IF b.kind = "cron" THEN OffFrom(b, h.event, h.listener)
    ELSE Drop(b, h.event, h.bucket, h.listener)

----------------------------------------------------------------------------
\* Once all were called, what is left of an emission is which event it was of.
Quiet ==
    IF bus.emission.todo # <<>> THEN bus
    ELSE [bus EXCEPT !.emission = [NoEmission EXCEPT !.event = bus.emission.event,
                                                     !.threw = bus.emission.threw]]

Handle(b, e, l) == [event |-> e, bucket |-> b.bucket[e], listener |-> l]

\* on and once; mitt has no once and gives no handle.
On(e, l) ==
    /\ l \in Onces => bus.kind # "mitt"
    /\ ~Contains(Listening(bus, e), l)
    /\ bus.bucket[e] = 0 => Len(bus.buckets) < MaxBuckets
    /\ Len(bus.emission.called) + Len(bus.emission.todo) < MaxHeard
    /\ Cardinality(bus.handles) < MaxHandles
    /\ LET b == Add(Quiet, e, l)
       IN  bus' = IF b.kind = "mitt" THEN b
                  ELSE [b EXCEPT !.handles = @ \cup {Handle(b, e, l)}]

Off(e, l) == bus.bucket[e] # 0 /\ bus' = OffFrom(Quiet, e, l)

Unsubscribe(h) == bus' = Leave(Quiet, h)

\* removeAllListeners of one event, and off of mitt without a handler: the
\* bucket is left to those who still walk it.
RemoveAll(e) ==
    /\ bus.bucket[e] # 0
    /\ IF bus.kind = "mitt" THEN Len(bus.buckets) < MaxBuckets ELSE TRUE
    /\ bus' = [Quiet EXCEPT
            !.bucket[e] = IF bus.kind = "mitt" THEN Len(bus.buckets) + 1 ELSE 0,
            !.buckets = IF bus.kind = "mitt" THEN Append(@, <<>>) ELSE @,
            !.emission.staying = IF bus.emission.bucket = bus.bucket[e] THEN {} ELSE @]

\* One listener is called.  The cron's once leaves before its listener runs,
\* the cache's after it returned; only the cache catches what is thrown.
Called(b, throws) ==
    LET e == b.emission.event
        l == Head(b.emission.todo)
        now == [b EXCEPT !.emission.todo = Tail(@), !.emission.called = Append(@, l)]
        left == IF l \notin Onces \/ (b.kind = "cache" /\ throws) THEN now
                ELSE Leave(now, [event |-> e, bucket |-> b.emission.bucket, listener |-> l])
    IN  IF throws /\ b.kind # "cache"
        THEN [left EXCEPT !.emission.todo = <<>>, !.emission.threw = TRUE]
        ELSE left

Walks(e) ==
    [bus EXCEPT !.emission =
        [event |-> e, bucket |-> bus.bucket[e], todo |-> Listening(bus, e),
         called |-> <<>>, staying |-> Range(Listening(bus, e)), threw |-> FALSE]]

\* emit walks the listeners of its event, then those of "*".
Emit(e, throws) ==
    /\ bus.emission.todo = <<>>
    /\ \/ e # "*"
       \/ bus.kind # "cron" /\ ~bus.emission.threw /\ bus.emission.event \notin {"", "*"}
    /\ Listening(bus, e) # <<>>
    /\ bus' = Called(Walks(e), throws)

Deliver(throws) ==
    bus.emission.todo # <<>> /\ bus' = Called(bus, throws)

BusNext ==
    \/ \E e \in Events :
          \/ \E l \in Plain \cup Onces : On(e, l) \/ Off(e, l)
          \/ RemoveAll(e)
          \/ \E throws \in BOOLEAN : Emit(e, throws)
    \/ \E h \in bus.handles : Unsubscribe(h)
    \/ \E throws \in BOOLEAN : Deliver(throws)

BusSpec == BusInit /\ [][BusNext]_bus

----------------------------------------------------------------------------
\* Whoever is registered when an emission starts and stays so is called, and
\* once, whatever the listeners called before add, remove and, in the cache,
\* throw.
EveryoneHears ==
    LET m == bus.emission
        times(l) == Cardinality({i \in DOMAIN m.called : m.called[i] = l})
    IN  m.todo = <<>> /\ ~m.threw => \A l \in m.staying : times(l) = 1
=============================================================================
