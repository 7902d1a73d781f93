------------------------------ MODULE LruList ------------------------------
(***************************************************************************)
(* What a bounded LRU store with expiry promises, however it is built: its *)
(* keys stand in the order of their last use, and a set() keeps the most   *)
(* recently used ones that fit, after dropping some of the expired.        *)
(***************************************************************************)
EXTENDS Integers, FiniteSets, Functions

CONSTANTS
    CacheKeys, Nil,
    MaxEntries,     \* bound of the cache on the number of entries
    MaxSize,        \* bound of the cache on their total size
    Sizes,          \* sizes of values
    Ttls,           \* times to live that set() is given, or Never
    Slidings        \* sliding times to live, 0 for none

VARIABLES
    newer,          \* the pairs of present keys of which the first was used later
    entry,          \* per key: [left, sl, sz], or Gone
    used            \* the key of the last hit or set, if that was the last call

lruVars == <<newer, entry, used>>

Never == -1         \* the entry has no expiry
Gone == [left |-> Never, sl |-> 0, sz |-> 0, gone |-> TRUE]

\* left is the time to the entry's expiry: 0 once it is reached.
Entries == [left : Ttls, sl : Slidings, sz : Sizes, gone : {FALSE}]

IsExpired(x) == x.left = 0
Aged(x) == [x EXCEPT !.left = IF @ > 0 THEN @ - 1 ELSE @]

LruInit ==
    /\ newer = {}
    /\ entry = [k \in CacheKeys |-> Gone]
    /\ used = Nil

Present == {k \in CacheKeys : entry[k] # Gone}
Expired == {k \in Present : IsExpired(entry[k])}

\* The order R on the keys of S alone, and with k before all others of S.
Among(R, S) == {p \in R : p[1] \in S /\ p[2] \in S}
InFront(R, k, S) == Among(R, S \ {k}) \cup ({k} \X (S \ {k}))

Fits(S, e) ==
    /\ Cardinality(S) <= MaxEntries
    /\ SumFunction([k \in CacheKeys |-> IF k \in S THEN e[k].sz ELSE 0]) <= MaxSize

Keep(S, R, e) ==
    /\ newer' = Among(R, S)
    /\ entry' = [k \in CacheKeys |-> IF k \in S THEN e[k] ELSE Gone]

----------------------------------------------------------------------------
Use(k) ==
    /\ k \in Present \ Expired
    /\ used' = k
    /\ newer' = InFront(newer, k, Present)
    /\ entry' = [entry EXCEPT ![k].left = IF entry[k].sl > 0 THEN entry[k].sl ELSE @]

\* A key stays if it fits together with all that are newer.
Store(k, x) ==
    /\ used' = k
    /\ LET e == [entry EXCEPT ![k] = x]
           all == Present \cup {k}
           R == InFront(newer, k, all)
       IN  \E S \in SUBSET {j \in all : IsExpired(e[j])} :
               LET upTo(j) == {i \in all \ S : i = j \/ <<i, j>> \in R}
               IN  Keep({j \in all \ S : Fits(upTo(j), e)}, R, e)

Drop(k) == k \in Present /\ used' = Nil /\ Keep(Present \ {k}, newer, entry)

DropExpired ==
    /\ used' = Nil
    /\ \E S \in SUBSET Expired : Keep(Present \ S, newer, entry)

Empty == used' = Nil /\ Keep({}, newer, entry)

Age ==
    /\ UNCHANGED <<newer, used>>
    /\ entry' = [k \in CacheKeys |-> Aged(entry[k])]

LruNext ==
    \/ \E k \in CacheKeys : Use(k) \/ Drop(k) \/ \E x \in Entries : Store(k, x)
    \/ DropExpired
    \/ Empty
    \/ Age

LruSpec == LruInit /\ [][LruNext]_lruVars

============================================================================
