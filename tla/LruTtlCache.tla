---------------------------- MODULE LruTtlCache ----------------------------
(***************************************************************************)
(* LruTtlCache of shareds/cache/src/cache.ts: a map from keys to the nodes *)
(* of a doubly linked list, with expiry and a running total of sizes.      *)
(* Every method runs to its end, so that it is one step, which is a        *)
(* function of the cache to the cache.  A node is named by its key, as the *)
(* map holds one node per key; the pointers of a removed node are garbage  *)
(* and are cleared.  Values, statistics and events are left out; listeners *)
(* that call the cache back are not modelled.                              *)
(*                                                                         *)
(* Two fields are the model's own and decide nothing.  used is the key of  *)
(* the last get or set, if that was the last call, which tells a get that  *)
(* does nothing from none; newer holds the pairs of keys of which the      *)
(* first was put in front after the second was.                            *)
(* An entry holds the time that is left to its expiry in place of the      *)
(* instant: `exp <= now()` is left = 0.                                    *)
(***************************************************************************)
EXTENDS Integers, FiniteSets, Functions

CONSTANTS
    CacheKeys, Nil,
    MaxEntries, MaxSize,
    Sizes, Ttls, Slidings,  \* see LruList
    MaxChecks               \* batchedSweep's bound, 10 in the code

ASSUME StoreAssumption ==
    /\ IsFiniteSet(CacheKeys) /\ Nil \notin CacheKeys
    /\ MaxEntries \in Nat /\ MaxSize \in Nat /\ MaxChecks \in Nat
    /\ Sizes \subseteq Nat /\ Ttls \subseteq Int /\ Slidings \subseteq Int

VARIABLE cache  \* [head, tail, next, prev, map, total, lazy, used, newer]

Never == -1
Gone == [left |-> Never, sl |-> 0, sz |-> 0, gone |-> TRUE]
Entries == [left : Ttls, sl : Slidings, sz : Sizes, gone : {FALSE}]

IsExpired(x) == x.left = 0
Aged(x) == [x EXCEPT !.left = IF @ > 0 THEN @ - 1 ELSE @]
Stored(c) == {k \in CacheKeys : c.map[k] # Gone}

Blank == [k \in CacheKeys |-> Nil]
EmptyCache(lazyExpiration) ==
    [lazy |-> lazyExpiration, head |-> Nil, tail |-> Nil, next |-> Blank, prev |-> Blank,
     map |-> [k \in CacheKeys |-> Gone], total |-> 0, used |-> Nil, newer |-> {}]

CacheInit == \E b \in BOOLEAN : cache = EmptyCache(b)

----------------------------------------------------------------------------
(* The linked list *)

Among(R, S) == {p \in R : p[1] \in S /\ p[2] \in S}
InFront(R, k, S) == Among(R, S \ {k}) \cup ({k} \X (S \ {k}))

AddToFront(c, k) ==
    [c EXCEPT
        !.next[k] = c.head,
        !.prev = [x \in CacheKeys |->
                    IF x = k THEN Nil ELSE IF x = c.head THEN k ELSE @[x]],
        !.head = k,
        !.tail = IF @ = Nil THEN k ELSE @,
        !.newer = InFront(@, k, Stored(c))]

RemoveNode(c, k) ==
    LET p == c.prev[k]
        n == c.next[k]
    IN  [c EXCEPT
            !.next = [x \in CacheKeys |->
                        IF x = k THEN Nil ELSE IF x = p THEN n ELSE @[x]],
            !.prev = [x \in CacheKeys |->
                        IF x = k THEN Nil ELSE IF x = n THEN p ELSE @[x]],
            !.head = IF p = Nil THEN n ELSE @,
            !.tail = IF n = Nil THEN p ELSE @,
            !.map[k] = Gone,
            !.total = @ - c.map[k].sz,
            !.newer = Among(@, Stored(c) \ {k})]

MoveToFront(c, k) ==
    IF c.head = k THEN c
    ELSE LET p == c.prev[k]
             n == c.next[k]
         IN  [c EXCEPT
                !.next = [x \in CacheKeys |->
                            IF x = k THEN c.head ELSE IF x = p THEN n ELSE @[x]],
                !.prev = [x \in CacheKeys |->
                            IF x = k THEN Nil ELSE IF x = c.head THEN k
                            ELSE IF x = n THEN p ELSE @[x]],
                !.head = k,
                !.tail = IF n = Nil THEN p ELSE @,
                !.newer = InFront(@, k, Stored(c))]

----------------------------------------------------------------------------
(* Eviction *)

RemoveIfExpired(c, k) == IF IsExpired(c.map[k]) THEN RemoveNode(c, k) ELSE c

\* batchedSweep(): from the tail, by pointers read before a node is removed.
BatchedSweep(c) ==
    LET walk[i \in 0..MaxChecks] ==
            IF i = 0 THEN [c |-> c, at |-> c.tail]
            ELSE LET w == walk[i - 1]
                 IN  IF w.at = Nil THEN w
                     ELSE [c |-> RemoveIfExpired(w.c, w.at), at |-> w.c.prev[w.at]]
    IN  walk[MaxChecks].c

\* sweep(): from the head, the whole list.
FullSweep(c) ==
    LET n == Cardinality(CacheKeys)
        walk[i \in 0..n] ==
            IF i = 0 THEN [c |-> c, at |-> c.head]
            ELSE LET w == walk[i - 1]
                 IN  IF w.at = Nil THEN w
                     ELSE [c |-> RemoveIfExpired(w.c, w.at), at |-> w.c.next[w.at]]
    IN  walk[n].c

OverSize(c) == c.total > MaxSize
OverCount(c) == Cardinality(Stored(c)) > MaxEntries

Over(c, limit) == IF limit = "size" THEN OverSize(c) ELSE OverCount(c)

\* A while loop of evict(): the tail goes as long as the limit is exceeded.
TrimTail(c, limit) ==
    LET n == Cardinality(CacheKeys)
        trim[i \in 0..n] ==
            IF i = 0 THEN c
            ELSE LET d == trim[i - 1]
                 IN  IF Over(d, limit) /\ d.tail # Nil THEN RemoveNode(d, d.tail) ELSE d
    IN  trim[n]

\* Mutant: of too many entries, the most recently used one goes.
EvictHead(c) ==
    IF OverCount(c) THEN RemoveNode(c, c.head) ELSE TrimTail(c, "size")

Evict(c) ==
    LET swept == IF c.lazy
                 THEN IF OverSize(c) \/ OverCount(c) THEN BatchedSweep(c) ELSE c
                 ELSE FullSweep(c)
    IN  TrimTail(TrimTail(swept, "size"), "count")

----------------------------------------------------------------------------
(* Methods; has, getMany, setMany and deleteMany are made of these. *)

\* A call that is neither a hit nor a set.
CacheCalled == [cache EXCEPT !.used = Nil]

GetHit(k) ==
    /\ k \in Stored(cache)
    /\ ~IsExpired(cache.map[k])
    /\ cache' = MoveToFront(
                   [cache EXCEPT !.used = k, !.map[k].left =
                       IF cache.map[k].sl > 0 THEN cache.map[k].sl ELSE @], k)

GetExpired(k) ==
    /\ k \in Stored(cache)
    /\ IsExpired(cache.map[k])
    /\ cache' = RemoveNode(CacheCalled, k)

SetKey(k, x) ==
    LET old == cache.map[k]
        c == [cache EXCEPT !.used = k, !.map[k] = x, !.total = @ - old.sz + x.sz]
    IN  cache' = Evict(IF old = Gone THEN AddToFront(c, k) ELSE MoveToFront(c, k))

DelKey(k) == k \in Stored(cache) /\ cache' = RemoveNode(CacheCalled, k)

ClearStore == Stored(cache) # {} /\ cache' = EmptyCache(cache.lazy)

\* The janitor's interval.
Janitor == cache' = FullSweep(CacheCalled) /\ cache' # CacheCalled

\* A tick of the clock.
CacheTick ==
    cache' = [cache EXCEPT !.map = [k \in CacheKeys |-> Aged(cache.map[k])]]

CacheNext ==
    \/ \E k \in CacheKeys :
          \/ GetHit(k) \/ GetExpired(k) \/ DelKey(k)
          \/ \E x \in Entries : SetKey(k, x)
    \/ ClearStore
    \/ Janitor
    \/ CacheTick

CacheSpec == CacheInit /\ [][CacheNext]_cache

----------------------------------------------------------------------------
(* Properties *)

Follows(R, S, k, n) ==
    <<k, n>> \in R /\ \A j \in S : <<k, j>> \in R => j = n \/ <<n, j>> \in R

IsOrder(R, S) ==
    /\ R \subseteq S \X S
    /\ \A j, k \in S : j # k => (<<j, k>> \in R <=> <<k, j>> \notin R)
    /\ \A k \in S : <<k, k>> \notin R
    /\ \A i, j, k \in S : <<i, j>> \in R /\ <<j, k>> \in R => <<i, k>> \in R

\* The list of c holds the keys of S in the order that R is of them.
IsList(c, R, S) ==
    /\ S = {} => c.head = Nil /\ c.tail = Nil
    /\ S # {} => c.head \in S /\ c.tail \in S
    /\ \A k \in S :
        /\ k # c.head => <<c.head, k>> \in R /\ Follows(R, S, c.prev[k], k)
        /\ k # c.tail => <<k, c.tail>> \in R /\ Follows(R, S, k, c.next[k])
        /\ k = c.head => c.prev[k] = Nil
        /\ k = c.tail => c.next[k] = Nil

\* The neighbours of each stored key, and the ends, are those of its order,
\* whatever was moved, removed or swept away before.
ListIsSound ==
    /\ IsOrder(cache.newer, Stored(cache))
    /\ IsList(cache, cache.newer, Stored(cache))

\* The running total is the sum of the sizes, and between two calls the cache
\* is within both its limits.
TotalsAreExact ==
    /\ cache.total = SumFunction([k \in CacheKeys |-> cache.map[k].sz])
    /\ cache.total <= MaxSize
    /\ Cardinality(Stored(cache)) <= MaxEntries

\* Pointers, totals, sweeps and eviction loops implement the LRU promise: what
\* leaves unexpired is the least recently used, and no more than has to.
Lru == INSTANCE LruList WITH
           newer <- cache.newer, entry <- cache.map, used <- cache.used

CacheIsLru == [](ListIsSound /\ TotalsAreExact) /\ Lru!LruSpec

============================================================================
