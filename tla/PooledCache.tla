---------------------------- MODULE PooledCache ----------------------------
(***************************************************************************)
(* OptimizedLruTtlCache and FlatArrayCache of shareds/cache: the LRU store *)
(* over recycled objects.  What both recycle is called a slot here: an     *)
(* Entry with its LRUNode from two pools that fill and drain together, or  *)
(* an index of FlatEntryStorage with its IndexNode.  The linked list, the  *)
(* same code as in LruTtlCache, is the sequence it stands for.             *)
(*                                                                         *)
(* A value is the key it was set under.  A listener may delete the key of  *)
(* each "hit" or "evict" event it hears of, in the middle of the call.     *)
(***************************************************************************)
EXTENDS Integers, Sequences, SequencesExt, FiniteSets, FiniteSetsExt, Functions

CONSTANTS
    PoolKeys,
    PoolEntries, PoolSize,          \* maxEntries and maxSize
    PoolSizes, PoolTtls, PoolSlidings  \* what set is given; NoTime for none

VARIABLE pooled
\* flat: which of the two; hears: the event the listener deletes on, or "";
\* order: the keys, the one used last in front; slot: of each of them;
\* slots: what each slot holds; free: the released ones, a stack; total;
\* threw: the last call ended in an exception

NoTime == -1
FreeSlot == [of |-> "", sz |-> 0, left |-> NoTime, sl |-> NoTime, idle |-> 0]

PooledInit ==
    \E flat \in BOOLEAN, hears \in {"", "hit", "evict"} :
        pooled = [flat |-> flat, hears |-> hears, order |-> <<>>, slot |-> <<>>,
                  slots |-> <<>>, free |-> <<>>, total |-> 0, threw |-> FALSE]

Entry(c, k) == c.slots[c.slot[k]]

\* The flat store takes a sliding time of 0 for one; the other for none.
Outdated(c, k) ==
    LET e == Entry(c, k)
    IN  \/ e.left = 0
        \/ e.sl # NoTime /\ (c.flat \/ e.sl > 0) /\ e.idle >= e.sl

Known(c) == DOMAIN c.slot
Without(s, k) == SelectSeq(s, LAMBDA j : j # k)
ToHead(s, k) == <<k>> \o Without(s, k)

----------------------------------------------------------------------------
\* Mutant of Release: a slot is released before it is wiped, and once more.
ReleaseTwice(c, i) ==
    [c EXCEPT !.slots[i] = FreeSlot, !.free = @ \o <<i, i>>]

\* entryPool.release and nodePool.release, storage.free.
Release(c, i) ==
    IF ~c.flat /\ Len(c.free) >= PoolEntries THEN c
    ELSE [c EXCEPT !.slots[i] = FreeSlot, !.free = Append(@, i)]

\* acquire and allocate: the slot released last, or a new one.
Acquire(c, k, entry) ==
    LET i == IF c.free = <<>> THEN Len(c.slots) + 1 ELSE Last(c.free)
    IN  [c EXCEPT
            !.free = IF @ = <<>> THEN @ ELSE Front(@),
            !.slots = IF i > Len(@) THEN Append(@, entry) ELSE [@ EXCEPT ![i] = entry],
            !.slot = [j \in DOMAIN @ \cup {k} |-> IF j = k THEN i ELSE @[j]]]

\* removeNode, and what deleteMany does in its place.
Unlink(c, k) ==
    Release([c EXCEPT !.order = Without(@, k), !.slot = Restrict(@, DOMAIN @ \ {k}),
                      !.total = @ - Entry(c, k).sz],
            c.slot[k])

Heard(c, event, k) ==
    IF c.hears = event /\ k \in Known(c) THEN Unlink(c, k) ELSE c

\* evictLRU looks the tail up again once its event was heard.
EvictLRU(c) ==
    LET heard == Heard(c, "evict", Last(c.order))
    IN  IF c.order = <<>> THEN c
        ELSE IF heard.order = <<>> THEN [heard EXCEPT !.threw = TRUE]
        ELSE Unlink(heard, Last(heard.order))

\* One eviction for the number of entries, then as many as the size needs.
MakeRoom(c, sz) ==
    LET first == IF Len(c.order) >= PoolEntries THEN EvictLRU(c) ELSE c
    IN  FoldLeft(LAMBDA d, i :
                    IF d.total + sz > PoolSize /\ d.order # <<>> /\ ~d.threw
                    THEN EvictLRU(d) ELSE d,
                 first, c.order)

\* set of an entry that is known evicts nothing, however large it becomes.
Put(c, k, entry) ==
    IF k \in Known(c)
    THEN [c EXCEPT !.slots[c.slot[k]] = entry,
                   !.total = @ - Entry(c, k).sz + entry.sz,
                   !.order = ToHead(@, k)]
    ELSE LET room == MakeRoom(c, entry.sz)
         IN  IF room.threw THEN room
             ELSE [Acquire(room, k, entry) EXCEPT
                        !.total = @ + entry.sz, !.order = <<k>> \o @]

DropOutdated(c, k) ==
    IF k \in Known(c) THEN IF Outdated(c, k) THEN Unlink(c, k) ELSE c ELSE c

\* What get does but for events, and getMany for each of its keys.
Touch(c, k) ==
    LET d == DropOutdated(c, k)
    IN  IF k \in Known(d)
        THEN [d EXCEPT !.slots[d.slot[k]].idle = 0, !.order = ToHead(@, k)]
        ELSE d

----------------------------------------------------------------------------
Now == [pooled EXCEPT !.threw = FALSE]

\* The pooled get reads the value from the node after the event; a node that
\* was released meanwhile has no entry.
PooledGet(k) ==
    LET d == Touch(Now, k)
        heard == Heard(d, "hit", k)
    IN  pooled' = [heard EXCEPT !.threw = ~heard.flat /\ heard # d]

PooledSet(k, entry) == pooled' = Put(Now, k, entry)
PooledHas(k) == pooled' = DropOutdated(Now, k)
PooledDel(k) == k \in Known(pooled) /\ pooled' = Unlink(Now, k)

GetMany(keys) == pooled' = FoldLeft(Touch, Now, keys)
SetMany(keys, entry) ==
    pooled' = FoldLeft(LAMBDA c, k :
                    IF c.threw THEN c ELSE Put(c, k, [entry EXCEPT !.of = k]), Now, keys)

PooledSweep == pooled' = FoldSet(LAMBDA k, c : DropOutdated(c, k), Now, Known(Now))

PooledClear ==
    pooled' = IF pooled.flat
              THEN [Now EXCEPT !.order = <<>>, !.slot = <<>>, !.slots = <<>>,
                               !.free = <<>>, !.total = 0]
              ELSE FoldSet(LAMBDA k, c : Unlink(c, k), Now, Known(Now))

PooledTick ==
    pooled' = [Now EXCEPT !.slots =
        [i \in DOMAIN @ |->
            IF @[i] = FreeSlot THEN FreeSlot
            ELSE [@[i] EXCEPT !.left = IF @ > 0 THEN @ - 1 ELSE @,
                              !.idle = IF @ < Max(PoolSlidings) THEN @ + 1 ELSE @]]]

NewEntries(k) ==
    [of : {k}, sz : PoolSizes, left : PoolTtls, sl : PoolSlidings, idle : {0}]

PooledNext ==
    \/ \E k \in PoolKeys :
          \/ PooledGet(k) \/ PooledHas(k) \/ PooledDel(k)
          \/ \E entry \in NewEntries(k) : PooledSet(k, entry)
    \/ \E keys \in {<<j, k>> : j, k \in PoolKeys} :
          \/ GetMany(keys)
          \/ \E entry \in NewEntries("") : SetMany(keys, entry)
    \/ PooledSweep \/ PooledClear \/ PooledTick

----------------------------------------------------------------------------
\* Recycling is safe after every sequence of calls, with a listener that
\* deletes in the middle of them: no two keys share a slot, none stands in a
\* released one, each holds the value set under its key; the total is exact,
\* and maxEntries slots are enough, so that FlatEntryStorage never overflows.
RecyclingIsSafe ==
    LET c == pooled
    IN  /\ Range(c.order) = Known(c) /\ IsInjective(c.order)
        /\ IsInjective(c.slot) /\ IsInjective(c.free)
        /\ Range(c.slot) \cup Range(c.free) = DOMAIN c.slots
        /\ Range(c.slot) \cap Range(c.free) = {}
        /\ \A k \in Known(c) : Entry(c, k).of = k
        /\ c.total = MapThenSumSet(LAMBDA k : Entry(c, k).sz, Known(c))
        /\ Len(c.slots) <= PoolEntries

\* A cache that is "API-compatible with LruTtlCache" keeps within maxSize.
SizeIsBounded == pooled.total <= PoolSize
=============================================================================
