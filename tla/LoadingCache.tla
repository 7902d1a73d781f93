---------------------------- MODULE LoadingCache ----------------------------
(***************************************************************************)
(* LoadingCache of shareds/cache/src/loading-cache.ts, and createReadThrough*)
(* of write-through.ts: a store in front of a loader, whose loads are      *)
(* flights of a Singleflight that nobody clears.  A value is the version   *)
(* of the source that the loader read.  Of the store, an entry's expiry is *)
(* kept; that it may lose any entry (eviction, another key's sweep, the    *)
(* janitor) is Forget.                                                     *)
(*                                                                         *)
(* The readers who wait for a flight go on in the microtasks that follow   *)
(* its finally, before any load that starts later can end, so that they    *)
(* are answered in that step.                                              *)
(***************************************************************************)
EXTENDS Integers, Sequences, Singleflight

CONSTANTS
    LoadKeys,       \* the keys of the flights that are read
    LoadTtls,       \* ttlMs with its jitter, 0 when it is not given
    Stales,         \* staleWhileRevalidateMs, or NoStale
    MaxVersion      \* bound of the model on the changes of the source

ASSUME LoadingAssumption ==
    /\ LoadKeys \subseteq FlightKeys
    /\ LoadTtls \subseteq Nat

VARIABLES
    source,         \* per key: the version that a loader would read now
    stored,         \* per key: [ver, left] or Absent; left > 0 is fresh
    loads,          \* per flight: [ttl, ver, awaited], ver 0 before the read
    answered        \* per key: the version of the last answer

loadVars == <<flightVars, source, stored, loads, answered>>

NoStale == -1
Absent == [ver |-> 0, left |-> 0]
\* An entry that is this long past its expiry is as stale as any older one.
OldestLeft == -(1 + CHOOSE s \in Stales : \A r \in Stales : r <= s)

LoadInit ==
    /\ FlightInit
    /\ ~withTimeout
    /\ source = [k \in FlightKeys |-> 1]
    /\ stored = [k \in FlightKeys |-> Absent]
    /\ loads = <<>>
    /\ answered = [k \in FlightKeys |-> 0]

----------------------------------------------------------------------------
Older(e) == [e EXCEPT !.left = IF e # Absent /\ @ > OldestLeft THEN @ - 1 ELSE @]

Answer(k, v) == answered' = [answered EXCEPT ![k] = v]

\* Mutant: the no-contention path of SingleflightHybrid, which is taken by
\* every call, as it registers none.
RefreshUnshared(k, t, await) ==
    /\ Len(flights) < MaxFlights
    /\ flights' = Append(flights, Flight(k, "running"))
    /\ loads' = Append(loads, [ttl |-> t, ver |-> 0, awaited |-> await])
    /\ UNCHANGED <<inflight, withTimeout>>

\* refresh(): join the key's flight, or start one.
Refresh(k, t, await) ==
    \/ /\ inflight[k] # 0
       /\ loads' = [loads EXCEPT ![inflight[k]].awaited = @ \/ await]
       /\ UNCHANGED flightVars
    \/ /\ StartFlight(k)
       /\ loads' = Append(loads, [ttl |-> t, ver |-> 0, awaited |-> await])

\* get() of a fresh entry.
GetFresh(k) ==
    /\ stored[k].left > 0
    /\ Answer(k, stored[k].ver)
    /\ UNCHANGED <<flightVars, source, stored, loads>>

\* get() of an entry that expires between its two reads of the clock: the
\* store drops it and the answer is undefined.
GetFreshTooLate(k) ==
    /\ stored[k].left = 1
    /\ stored' = [j \in FlightKeys |-> IF j = k THEN Absent ELSE Older(stored[j])]
    /\ UNCHANGED <<flightVars, source, loads, answered>>

InWindow(e, s) == e # Absent /\ s # NoStale /\ -e.left <= s

\* get() of a stale entry within the window: answered now, refreshed behind.
GetStale(k, t, s) ==
    /\ stored[k].left <= 0
    /\ InWindow(stored[k], s)
    /\ Answer(k, stored[k].ver)
    /\ Refresh(k, t, FALSE)
    /\ UNCHANGED <<source, stored>>

\* get() that waits.
GetLoads(k, t, s) ==
    /\ stored[k].left <= 0
    /\ ~InWindow(stored[k], s)
    /\ Refresh(k, t, TRUE)
    /\ UNCHANGED <<source, stored, answered>>

\* loadFn reads the source, some time before it returns.
LoaderReads(f) ==
    /\ flights[f].st = "running"
    /\ loads[f].ver = 0
    /\ loads' = [loads EXCEPT ![f].ver = source[flights[f].key]]
    /\ UNCHANGED <<flightVars, source, stored, answered>>

\* The load ends: the value is stored, and the flight's function returns.
LoadEnds(f) ==
    /\ loads[f].ver # 0
    /\ FnSettles(f)
    /\ stored' = [stored EXCEPT ![flights[f].key] =
                    [ver |-> loads[f].ver, left |-> loads[f].ttl]]
    /\ UNCHANGED <<source, loads, answered>>

\* The load fails: nothing is stored, and those who wait get the error.
LoadFails(f) ==
    /\ FnSettles(f)
    /\ loads' = [loads EXCEPT ![f].ver = 0, ![f].awaited = FALSE]
    /\ UNCHANGED <<source, stored, answered>>

LoadFinally(f) ==
    /\ Finally(f)
    /\ IF loads[f].awaited /\ loads[f].ver # 0
       THEN Answer(flights[f].key, loads[f].ver)
       ELSE UNCHANGED answered
    /\ UNCHANGED <<source, stored, loads>>

\* del(), clear(), or a loss of the entry in the store.
Forget(k) ==
    /\ stored[k] # Absent
    /\ stored' = [stored EXCEPT ![k] = Absent]
    /\ UNCHANGED <<flightVars, source, loads, answered>>

SourceChanges(k) ==
    /\ source[k] < MaxVersion
    /\ source' = [source EXCEPT ![k] = @ + 1]
    /\ UNCHANGED <<flightVars, stored, loads, answered>>

\* A tick of the clock, with no microtask left to run.
LoadTick ==
    /\ \A f \in DOMAIN flights : flights[f].st # "settled"
    /\ stored' = [k \in FlightKeys |-> Older(stored[k])]
    /\ stored' # stored
    /\ UNCHANGED <<flightVars, source, loads, answered>>

LoadNext ==
    \/ \E k \in LoadKeys :
          \/ GetFresh(k)
          \/ GetFreshTooLate(k)
          \/ \E t \in LoadTtls, s \in Stales : GetStale(k, t, s) \/ GetLoads(k, t, s)
          \/ Forget(k)
          \/ SourceChanges(k)
    \/ \E f \in DOMAIN flights :
          LoaderReads(f) \/ LoadEnds(f) \/ LoadFails(f) \/ LoadFinally(f)
    \/ LoadTick

LoadSpec == LoadInit /\ [][LoadNext]_loadVars

----------------------------------------------------------------------------
(* Properties *)

\* The answers for a key never go back to an older version of the source:
\* not when a delete or an expiry falls into a load, nor when a stale answer
\* is given while a refresh runs, because the loads of a key do not overlap.
ReadsNeverGoBack == [][\A k \in LoadKeys : answered'[k] >= answered[k]]_answered

============================================================================
