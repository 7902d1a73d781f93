------------------------------- MODULE Memoize -------------------------------
(***************************************************************************)
(* memoize of shareds/cache/src/memoize.ts, for one key: a store, the      *)
(* loads of a Singleflight, and the microtasks that a stale answer defers. *)
(* A value is the version of what fn read.  The store may lose the entry   *)
(* at any time.                                                            *)
(***************************************************************************)
EXTENDS Integers, Sequences, SequencesExt

CONSTANTS
    MemoTtls,      \* ttlMs with its jitter; 0 when it is not given
    MemoSlidings,  \* slidingTtlMs
    MemoStales,    \* swrMs, 0 when it is not given
    MaxMemo        \* bound on the versions, the tasks and the open loads

VARIABLE memo

NoMemo == [ver |-> 0, left |-> 0, sl |-> 0]
OldestMemo == -(1 + CHOOSE s \in MemoStales : \A r \in MemoStales : r <= s)

\* loads: those in the Singleflight's map, up to their finally; tasks: the
\* deferred microtasks; behind: a stale answer was given and no load followed.
MemoInit ==
    \E swr \in MemoStales, errors \in BOOLEAN :
        memo = [swr |-> swr, cacheErrors |-> errors, entry |-> NoMemo, tasks |-> <<>>,
                loads |-> <<>>, ver |-> 1, before |-> 0, answered |-> 0, behind |-> FALSE]

Given(m, ver) == [m EXCEPT !.before = m.answered, !.answered = ver]

\* store.get of a fresh entry starts its sliding expiry again.
Touched(e) == [e EXCEPT !.left = IF e.sl # 0 THEN e.sl ELSE @]
IsStale(m) == m.entry # NoMemo /\ m.swr # 0 /\ m.entry.left <= 0 /\ -m.entry.left <= m.swr

\* Mutant of Load: every load runs.
LoadUnshared(m, awaits) ==
    [m EXCEPT !.loads = Append(@, [ver |-> 0, st |-> "running", awaited |-> awaits]),
              !.behind = FALSE]

\* load: sf.do joins the load in the map, or starts one.
Load(m, awaits) ==
    IF m.loads = <<>>
    THEN [m EXCEPT !.loads = <<[ver |-> 0, st |-> "running", awaited |-> awaits]>>,
                   !.behind = FALSE]
    ELSE [m EXCEPT !.loads[1].awaited = @ \/ awaits, !.behind = FALSE]

MayLoad == Len(memo.loads) < MaxMemo

\* A call that finds a fresh entry.
CallFresh ==
    /\ memo.entry.left > 0
    /\ memo' = [Given(memo, memo.entry.ver) EXCEPT !.entry = Touched(@)]

\* The entry expires before the store's get reads the clock: get drops it and
\* getOrLoad finds nothing.
CallTooLate ==
    /\ memo.entry.left = 1 /\ MayLoad
    /\ memo' = Load([memo EXCEPT !.entry = NoMemo], TRUE)

\* A stale entry within the window is answered and getOrLoad is deferred.
CallStale ==
    /\ IsStale(memo)
    /\ Len(memo.tasks) < MaxMemo
    /\ memo' = [Given(memo, memo.entry.ver) EXCEPT
                    !.tasks = Append(@, "getOrLoad"), !.behind = TRUE]

CallLoads ==
    /\ memo.entry.left <= 0 /\ ~IsStale(memo) /\ MayLoad
    /\ memo' = Load(memo, TRUE)

\* A deferred getOrLoad asks again, and may defer the load once more.
RunTask ==
    /\ memo.tasks # <<>> /\ MayLoad
    /\ LET m == [memo EXCEPT !.tasks = Tail(@)]
       IN  memo' = CASE Head(memo.tasks) = "getOrLoad" /\ m.entry.left > 0 ->
                            [m EXCEPT !.entry = Touched(@), !.behind = FALSE]
                     [] Head(memo.tasks) = "getOrLoad" /\ IsStale(m) ->
                            [m EXCEPT !.tasks = Append(@, "load")]
                     [] OTHER -> Load(m, FALSE)

\* fn reads what it answers some time before it ends.
MemoReads(i) ==
    /\ memo.loads[i].st = "running" /\ memo.loads[i].ver = 0
    /\ memo' = [memo EXCEPT !.loads[i].ver = memo.ver]

\* fn answers, or throws and cacheErrors stores the error as a value.
MemoEnds(i, ttl, sl) ==
    /\ memo.loads[i].st = "running" /\ memo.loads[i].ver # 0
    /\ memo' = [memo EXCEPT
            !.entry = [ver |-> memo.loads[i].ver, left |-> ttl, sl |-> sl],
            !.loads[i].st = "ended"]

\* fn throws: those who wait are told, and nothing is stored.
MemoFails(i) ==
    /\ memo.loads[i].st = "running" /\ ~memo.cacheErrors
    /\ memo' = [memo EXCEPT !.loads[i].st = "failed"]

\* The finally takes the load out of the map; those who wait go on.
MemoFinally(i) ==
    /\ memo.loads[i].st # "running"
    /\ LET told == memo.loads[i].awaited /\ memo.loads[i].st = "ended"
           m == IF told THEN Given(memo, memo.loads[i].ver) ELSE memo
       IN  memo' = [m EXCEPT !.loads = RemoveAt(@, i)]

\* memo.delete, memo.clear, or a loss of the entry in the store.
MemoForgets == memo.entry # NoMemo /\ memo' = [memo EXCEPT !.entry = NoMemo]

MemoChanges == memo.ver < MaxMemo /\ memo' = [memo EXCEPT !.ver = @ + 1]

\* The clock may tick at any time, between two microtasks too.
MemoTick ==
    /\ memo.entry # NoMemo /\ memo.entry.left > OldestMemo
    /\ memo' = [memo EXCEPT !.entry.left = @ - 1]

MemoNext ==
    \/ CallFresh \/ CallTooLate \/ CallStale \/ CallLoads \/ RunTask
    \/ \E i \in DOMAIN memo.loads :
        \/ MemoReads(i) \/ MemoFails(i) \/ MemoFinally(i)
        \/ \E ttl \in MemoTtls, sl \in MemoSlidings : MemoEnds(i, ttl, sl)
    \/ MemoForgets \/ MemoChanges \/ MemoTick

----------------------------------------------------------------------------
\* The answers of a memoized function never go back to an older version,
\* whatever expires, is deleted or is refreshed meanwhile; fn runs once at a
\* time; and when the microtasks are done, every stale answer has been
\* followed by a load, or by a fresh entry.
MemoIsFaithful ==
    /\ memo.before <= memo.answered
    /\ Len(memo.loads) <= 1
    /\ memo.tasks = <<>> => ~memo.behind
=============================================================================
