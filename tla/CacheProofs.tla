---------------------------- MODULE CacheProofs ----------------------------
(***************************************************************************)
(* Proofs about the parts of shareds/cache and about what is built on the  *)
(* cache or like it, for any keys and any callers.                         *)
(*                                                                         *)
(* Every key of a KeyedLock is a mutex.  Besides the types it takes that a *)
(* key somebody holds is marked as held, and by one holder only: release() *)
(* unmarks the key for all.                                                *)
(*                                                                         *)
(* Flights of a Singleflight are shared.  Besides the types it takes that  *)
(* the map has a flight under that flight's own key.                       *)
(*                                                                         *)
(* The answers of a LoadingCache never go back.  What a key was answered   *)
(* with, what is stored for it and what its flight has read are versions   *)
(* in this order: no later flight begins before an earlier one is over.    *)
(*                                                                         *)
(* Emitters, the cache's and the two others, call whoever stays, and the   *)
(* evaluator of expressions, whose builds are cached, answers with what it *)
(* was asked: see there.                                                   *)
(*                                                                         *)
(* The LRU and TTL store implements LruList.  Besides the types it takes   *)
(* that the list is the order of last use and that the running total is    *)
(* the sum of the sizes.  The loops of the sweeps and of evict() keep      *)
(* both, whatever they remove.                                             *)
(***************************************************************************)
EXTENDS KeyedLock, LoadingCache, Listeners, Evaluator, LruTtlCache, SequenceTheorems,
        FiniteSetTheorems, TLAPS

----------------------------------------------------------------------------
(* KeyedLock *)

KeyedInv ==
    /\ heldKeys \subseteq LockKeys
    /\ waits \in [LockKeys -> Seq(KeyCallers)]
    /\ holders \in [LockKeys -> SUBSET KeyCallers]
    /\ \A k \in LockKeys : holders[k] # {} => k \in heldKeys
    /\ \A k \in LockKeys : \A a, b \in holders[k] : a = b

\* The keyed lock's invariant holds of an empty map,
LEMMA KeyedInvInit == KeyedInit => KeyedInv
  BY DEF KeyedInit, KeyedInv

\* Both outcomes of an attempt, from acquire() or from release(), leave the
\* key held, and by one caller if it was free of others.
LEMMA TryAcquireKeepsInv ==
    ASSUME KeyedInv, NEW c \in KeyCallers, NEW k \in LockKeys, NEW taken,
           NEW queue \in Seq(KeyCallers), NEW others \in SUBSET KeyCallers,
           others = {} \/ (taken /\ others = holders[k]),
           TryAcquire(c, k, taken, queue, others)
    PROVE  KeyedInv'
<1>1. waits' \in [LockKeys -> Seq(KeyCallers)]
  BY DEF KeyedInv, TryAcquire
<1>2. holders' \in [LockKeys -> SUBSET KeyCallers]
  BY DEF KeyedInv, TryAcquire
<1>3. heldKeys' = heldKeys \cup {k}
  BY DEF TryAcquire
<1>4. \A j \in LockKeys \ {k} : holders'[j] = holders[j]
  BY DEF KeyedInv, TryAcquire
<1>5. holders'[k] \in {others, others \cup {c}}
  BY DEF KeyedInv, TryAcquire
<1>6. taken => holders'[k] = others
  BY DEF KeyedInv, TryAcquire
<1>7. \A a, b \in holders'[k] : a = b
  <2>1. CASE others = {}
    BY <2>1, <1>5
  <2>2. CASE taken /\ others = holders[k]
    BY <2>2, <1>6 DEF KeyedInv
  <2> QED
    BY <2>1, <2>2
<1> QED
  BY <1>1, <1>2, <1>3, <1>4, <1>7 DEF KeyedInv

\* and every call, hand-over and release keeps it.
LEMMA KeyedInvNext == KeyedInv /\ [KeyedNext]_keyedVars => KeyedInv'
<1> SUFFICES ASSUME KeyedInv, [KeyedNext]_keyedVars
             PROVE  KeyedInv'
  OBVIOUS
<1>1. ASSUME NEW c \in KeyCallers, NEW k \in LockKeys, AcquireKey(c, k)
      PROVE  KeyedInv'
  <2>1. /\ waits[k] \in Seq(KeyCallers)
        /\ holders[k] \in SUBSET KeyCallers
        /\ k \notin heldKeys => holders[k] = {}
    BY DEF KeyedInv
  <2>2. CASE k \in heldKeys
    <3>1. TryAcquire(c, k, TRUE, waits[k], holders[k])
      BY <1>1, <2>2 DEF AcquireKey, TryAcquire
    <3> QED
      BY <2>1, <3>1, TryAcquireKeepsInv
  <2>3. CASE k \notin heldKeys
    <3>1. TryAcquire(c, k, FALSE, waits[k], holders[k])
      BY <1>1, <2>3 DEF AcquireKey, TryAcquire
    <3> QED
      BY <2>1, <2>3, <3>1, TryAcquireKeepsInv
  <2> QED
    BY <2>2, <2>3
<1>2. ASSUME NEW c \in KeyCallers, NEW k \in LockKeys, ReleaseToWaiter(c, k)
      PROVE  KeyedInv'
  <2>1. /\ Head(waits[k]) \in KeyCallers
        /\ Tail(waits[k]) \in Seq(KeyCallers)
        /\ holders[k] \ {c} = {}
    BY <1>2 DEF ReleaseToWaiter, KeyedInv
  <2> QED
    BY <1>2, <2>1, TryAcquireKeepsInv DEF ReleaseToWaiter
<1>3. ASSUME NEW c \in KeyCallers, NEW k \in LockKeys, ReleaseKey(c, k)
      PROVE  KeyedInv'
  <2>1. /\ holders' \in [LockKeys -> SUBSET KeyCallers]
        /\ holders'[k] = {}
        /\ \A j \in LockKeys \ {k} : holders'[j] = holders[j]
    BY <1>3 DEF ReleaseKey, KeyedInv
  <2>2. /\ heldKeys' = heldKeys \ {k}
        /\ waits' = waits
    BY <1>3 DEF ReleaseKey
  <2> QED
    BY <2>1, <2>2 DEF KeyedInv
<1>4. CASE UNCHANGED keyedVars
  BY <1>4 DEF keyedVars, KeyedInv
<1> QED
  BY <1>1, <1>2, <1>3, <1>4 DEF KeyedNext

----------------------------------------------------------------------------
\* A step of the keyed lock is a step of the mutex of its key and none of the
\* other keys' mutexes.
LEMMA StepsAreMutexSteps ==
    ASSUME KeyedInv, [KeyedNext]_keyedVars, NEW k \in LockKeys
    PROVE  [KeyMutex(k)!MutexNext]_(KeyMutex(k)!mutexVars)
<1> USE DEF KeyMutex!mutexVars
<1>1. ASSUME NEW c \in KeyCallers, NEW j \in LockKeys, j # k,
             AcquireKey(c, j) \/ ReleaseToWaiter(c, j) \/ ReleaseKey(c, j)
      PROVE  UNCHANGED KeyMutex(k)!mutexVars
  <2>1. /\ waits'[k] = waits[k]
        /\ holders'[k] = holders[k]
        /\ k \in heldKeys' <=> k \in heldKeys
    BY <1>1 DEF AcquireKey, ReleaseToWaiter, ReleaseKey, TryAcquire, KeyedInv
  <2> QED
    BY <2>1
<1>2. ASSUME NEW c \in KeyCallers, AcquireKey(c, k)
      PROVE  KeyMutex(k)!MutexNext
  <2>1. CASE k \in heldKeys
    <3>1. KeyMutex(k)!QueueUp(c)
      BY <1>2, <2>1 DEF AcquireKey, IsOut, TryAcquire, KeyedInv, KeyMutex!QueueUp
    <3> QED
      BY <3>1 DEF KeyMutex!MutexNext
  <2>2. CASE k \notin heldKeys
    <3>1. KeyMutex(k)!Lock(c)
      BY <1>2, <2>2 DEF AcquireKey, IsOut, TryAcquire, KeyedInv, KeyMutex!Lock
    <3> QED
      BY <3>1 DEF KeyMutex!MutexNext
  <2> QED
    BY <2>1, <2>2
<1>3. ASSUME NEW c \in KeyCallers, ReleaseToWaiter(c, k)
      PROVE  KeyMutex(k)!MutexNext
  <2>1. KeyMutex(k)!HandOver(c)
    BY <1>3 DEF ReleaseToWaiter, TryAcquire, KeyedInv, KeyMutex!HandOver
  <2> QED
    BY <2>1 DEF KeyMutex!MutexNext
<1>4. ASSUME NEW c \in KeyCallers, ReleaseKey(c, k)
      PROVE  KeyMutex(k)!MutexNext
  <2>1. KeyMutex(k)!Unlock(c)
    BY <1>4 DEF ReleaseKey, KeyedInv, KeyMutex!Unlock
  <2> QED
    BY <2>1 DEF KeyMutex!MutexNext
<1>5. CASE UNCHANGED keyedVars
  BY <1>5 DEF keyedVars
<1> QED
  BY <1>1, <1>2, <1>3, <1>4, <1>5 DEF KeyedNext

\* Each key is a mutex of its own, served in the order of the calls.
THEOREM KeyedLockIsMutexes == KeyedSpec => KeysAreMutexes
<1> DEFINE MutexSteps ==
        \A k \in LockKeys : [KeyMutex(k)!MutexNext]_(KeyMutex(k)!mutexVars)
<1>1. KeyedInit => \A k \in LockKeys : KeyMutex(k)!MutexInit
  <2> SUFFICES ASSUME KeyedInit, NEW k \in LockKeys
               PROVE  KeyMutex(k)!MutexInit
    OBVIOUS
  <2>1. k \notin heldKeys
    BY DEF KeyedInit
  <2>2. (k \in heldKeys) = FALSE
    BY <2>1
  <2>3. waits[k] = <<>> /\ holders[k] = {}
    BY DEF KeyedInit
  <2> QED
    BY <2>2, <2>3, Zenon DEF KeyMutex!MutexInit
<1>2. KeyedInv /\ [KeyedNext]_keyedVars => [MutexSteps]_keyedVars
  BY StepsAreMutexSteps
<1>3. KeyedInit => KeyedInv
  BY KeyedInvInit
<1>4. KeyedInv /\ [KeyedNext]_keyedVars => KeyedInv'
  BY KeyedInvNext
<1>5. KeyedSpec => [][MutexSteps]_keyedVars
  <2> HIDE DEF MutexSteps
  <2> QED
    BY <1>2, <1>3, <1>4, PTL DEF KeyedSpec
<1>6. KeyedSpec => KeyedInit
  BY DEF KeyedSpec
<1> QED
  BY <1>1, <1>5, <1>6, PTL DEF KeysAreMutexes

\* Nobody shares a key: the mutual exclusion that the lock is for.
THEOREM OneHolderPerKey ==
    KeyedSpec => [](\A k \in LockKeys : \A a, b \in holders[k] : a = b)
<1>1. KeyedInv => \A k \in LockKeys : \A a, b \in holders[k] : a = b
  BY DEF KeyedInv
<1> QED
  BY <1>1, KeyedInvInit, KeyedInvNext, PTL DEF KeyedSpec

----------------------------------------------------------------------------
(* Singleflight *)

FlightRecords ==
    [key : FlightKeys, st : {"running", "settled", "done"},
     timer : BOOLEAN, givenUp : BOOLEAN]

FlightTypeOK ==
    /\ inflight \in [FlightKeys -> Nat]
    /\ flights \in Seq(FlightRecords)
    /\ withTimeout \in BOOLEAN

\* The map's flight of a key exists and is a flight of that key.
MapIsByKey ==
    \A k \in FlightKeys :
        inflight[k] # 0 => /\ inflight[k] \in DOMAIN flights
                           /\ flights[inflight[k]].key = k

FlightInv == FlightTypeOK /\ MapIsByKey /\ FlightsAreShared

\* A new flight, running or over at once, joins those before it.
LEMMA AppendedFlight ==
    ASSUME NEW s \in Seq(FlightRecords), NEW x \in FlightRecords
    PROVE  /\ Append(s, x) \in Seq(FlightRecords)
           /\ DOMAIN Append(s, x) = DOMAIN s \cup {Len(s) + 1}
           /\ Len(s) + 1 \notin DOMAIN s
           /\ \A f \in DOMAIN s : Append(s, x)[f] = s[f]
           /\ Append(s, x)[Len(s) + 1] = x
           /\ Len(s) + 1 \in Nat \ {0}
<1>1. DOMAIN s = 1..Len(s) /\ Len(s) \in Nat
  OBVIOUS
<1>2. Append(s, x) \in Seq(FlightRecords) /\ Len(Append(s, x)) = Len(s) + 1
  OBVIOUS
<1>3. DOMAIN Append(s, x) = 1..(Len(s) + 1)
  BY <1>2
<1> QED
  BY <1>1, <1>2, <1>3

\* A step that changes some flights in place keeps their number and types.
LEMMA ChangedFlights ==
    ASSUME NEW s \in Seq(FlightRecords), NEW t,
           t = [f \in DOMAIN s |-> t[f]],
           \A f \in DOMAIN s : t[f] \in FlightRecords
    PROVE  t \in Seq(FlightRecords) /\ DOMAIN t = DOMAIN s
<1>1. DOMAIN s = 1..Len(s) /\ Len(s) \in Nat
  OBVIOUS
<1>2. t \in [1..Len(s) -> FlightRecords]
  BY <1>1
<1> QED
  BY <1>1, <1>2

\* What the steps that change flights in place have in common: a key loses its
\* flight only when the flight is over or given up, and always when it is over.
LEMMA StepInPlace ==
    ASSUME FlightInv,
           flights' = [f \in DOMAIN flights |-> flights'[f]],
           \A f \in DOMAIN flights :
              /\ flights'[f] \in FlightRecords
              /\ flights'[f].key = flights[f].key
              /\ flights'[f].st # "done" => flights[f].st # "done"
              /\ ~flights'[f].givenUp => ~flights[f].givenUp,
           inflight' \in [FlightKeys -> Nat],
           \A k \in FlightKeys :
              \/ /\ inflight'[k] = inflight[k]
                 /\ inflight[k] # 0 => flights'[inflight[k]].st # "done"
              \/ /\ inflight'[k] = 0
                 /\ \A f \in DOMAIN flights :
                       f = inflight[k] => flights'[f].st = "done" \/ flights'[f].givenUp,
           withTimeout' = withTimeout
    PROVE  FlightInv'
<1>1. flights \in Seq(FlightRecords)
  BY DEF FlightInv, FlightTypeOK
<1>2. flights' \in Seq(FlightRecords) /\ DOMAIN flights' = DOMAIN flights
  BY <1>1, ChangedFlights
<1>3. FlightTypeOK'
  BY <1>2 DEF FlightInv, FlightTypeOK
<1>4. MapIsByKey'
  BY <1>2 DEF FlightInv, MapIsByKey
<1>5. ASSUME NEW f \in DOMAIN flights, flights'[f].st # "done", ~flights'[f].givenUp
      PROVE  inflight'[flights'[f].key] = f
  <2>1. flights'[f].key = flights[f].key /\ flights[f].key \in FlightKeys
    BY <1>1 DEF FlightRecords
  <2>2. inflight[flights[f].key] = f
    BY <1>5 DEF FlightInv, FlightsAreShared
  <2> QED
    BY <1>5, <2>1, <2>2
<1>6. ASSUME NEW k \in FlightKeys, inflight'[k] # 0
      PROVE  flights'[inflight'[k]].st # "done"
  BY <1>6
<1> QED
  BY <1>2, <1>3, <1>4, <1>5, <1>6 DEF FlightInv, FlightsAreShared

\* Without flights the invariant of the single flight holds,
LEMMA FlightInvInit == FlightInit => FlightInv
  BY DEF FlightInit, FlightInv, FlightTypeOK, MapIsByKey, FlightsAreShared

\* and every call, answer and settlement keeps it.
LEMMA FlightInvNext ==
    FlightInv /\ [FlightNext]_flightVars => FlightInv'
<1> SUFFICES ASSUME FlightInv, [FlightNext]_flightVars
             PROVE  FlightInv'
  OBVIOUS
<1> USE DEF FlightInv
<1>1. ASSUME NEW k \in FlightKeys, StartFlight(k)
      PROVE  FlightInv'
  <2> DEFINE n == Len(flights) + 1
  <2>1. Flight(k, "running") \in FlightRecords
    BY DEF Flight, FlightRecords, FlightTypeOK
  <2>2. /\ flights' \in Seq(FlightRecords)
        /\ DOMAIN flights' = DOMAIN flights \cup {n}
        /\ n \notin DOMAIN flights
        /\ \A f \in DOMAIN flights : flights'[f] = flights[f]
        /\ flights'[n] = Flight(k, "running")
        /\ n \in Nat \ {0}
    BY <1>1, <2>1, AppendedFlight DEF StartFlight, FlightTypeOK
  <2>3. /\ inflight[k] = 0
        /\ inflight' = [inflight EXCEPT ![k] = n]
        /\ UNCHANGED withTimeout
    BY <1>1 DEF StartFlight
  <2> HIDE DEF n
  <2>4. FlightTypeOK'
    BY <2>2, <2>3 DEF FlightTypeOK
  <2>5. MapIsByKey'
    BY <2>2, <2>3 DEF FlightTypeOK, MapIsByKey, Flight
  <2>6. FlightsAreShared'
    <3>1. ASSUME NEW f \in DOMAIN flights',
                 flights'[f].st # "done", ~flights'[f].givenUp
          PROVE  inflight'[flights'[f].key] = f
      <4>1. CASE f = n
        BY <4>1, <2>2, <2>3 DEF Flight, FlightTypeOK
      <4>2. CASE f # n
        <5>1. f \in DOMAIN flights /\ flights'[f] = flights[f]
          BY <4>2, <2>2
        <5>2. inflight[flights[f].key] = f /\ f # 0
          BY <3>1, <5>1 DEF FlightsAreShared, FlightTypeOK
        <5>3. flights[f].key # k
          BY <5>2, <2>3
        <5> QED
          BY <5>1, <5>2, <5>3, <2>3 DEF FlightTypeOK
      <4> QED
        BY <4>1, <4>2
    <3>2. ASSUME NEW j \in FlightKeys, inflight'[j] # 0
          PROVE  flights'[inflight'[j]].st # "done"
      BY <3>2, <2>2, <2>3 DEF FlightTypeOK, FlightsAreShared, MapIsByKey, Flight
    <3> QED
      BY <3>1, <3>2 DEF FlightsAreShared
  <2> QED
    BY <2>4, <2>5, <2>6
<1>2. ASSUME NEW k \in FlightKeys, ThrowAtOnce(k)
      PROVE  FlightInv'
  <2> DEFINE n == Len(flights) + 1
  <2>1. Flight(k, "done") \in FlightRecords
    BY DEF Flight, FlightRecords, FlightTypeOK
  <2>2. /\ flights' \in Seq(FlightRecords)
        /\ DOMAIN flights' = DOMAIN flights \cup {n}
        /\ n \notin DOMAIN flights
        /\ \A f \in DOMAIN flights : flights'[f] = flights[f]
        /\ flights'[n] = Flight(k, "done")
    BY <1>2, <2>1, AppendedFlight DEF ThrowAtOnce, FlightTypeOK
  <2>3. UNCHANGED <<inflight, withTimeout>>
    BY <1>2 DEF ThrowAtOnce
  <2> HIDE DEF n
  <2>4. flights'[n].st = "done"
    BY <2>2 DEF Flight
  <2> QED
    BY <2>2, <2>3, <2>4 DEF FlightTypeOK, MapIsByKey, FlightsAreShared
<1>a. /\ \A f \in DOMAIN flights : flights[f] \in FlightRecords /\ f # 0
      /\ inflight \in [FlightKeys -> Nat]
  BY DEF FlightTypeOK
<1>3. ASSUME NEW f \in DOMAIN flights, FnSettles(f)
      PROVE  FlightInv'
  <2>1. /\ flights' = [g \in DOMAIN flights |-> flights'[g]]
        /\ \A g \in DOMAIN flights \ {f} : flights'[g] = flights[g]
        /\ flights'[f] = [flights[f] EXCEPT !.st = "settled"]
        /\ UNCHANGED <<inflight, withTimeout>>
    BY <1>3 DEF FnSettles
  <2>2. /\ flights'[f] \in FlightRecords
        /\ flights'[f].key = flights[f].key
        /\ flights'[f].st = "settled"
        /\ flights'[f].givenUp = flights[f].givenUp
    BY <1>a, <2>1 DEF FlightRecords
  <2>3. \A k \in FlightKeys : inflight[k] # 0 => flights'[inflight[k]].st # "done"
    BY <2>1, <2>2 DEF FlightsAreShared, MapIsByKey
  <2> QED
    BY <1>3, <1>a, <2>1, <2>2, <2>3, StepInPlace DEF FnSettles
<1>4. ASSUME NEW f \in DOMAIN flights, Finally(f)
      PROVE  FlightInv'
  <2>1. /\ flights' = [g \in DOMAIN flights |-> flights'[g]]
        /\ \A g \in DOMAIN flights \ {f} : flights'[g] = flights[g]
        /\ UNCHANGED withTimeout
    BY <1>4 DEF Finally
  <2>2. PICK b \in BOOLEAN :
           flights'[f] = [flights[f] EXCEPT !.st = "done", !.timer = b]
    BY <1>4, <1>a DEF Finally, FlightRecords
  <2>3. /\ flights'[f] \in FlightRecords
        /\ flights'[f].key = flights[f].key
        /\ flights'[f].st = "done"
        /\ flights'[f].givenUp = flights[f].givenUp
    BY <1>a, <2>2 DEF FlightRecords
  <2>4. /\ inflight' \in [FlightKeys -> Nat]
        /\ \A k \in FlightKeys : inflight'[k] = IF inflight[k] = f THEN 0 ELSE inflight[k]
    BY <1>4, <1>a DEF Finally, MapIsByKey
  <2>5. \A k \in FlightKeys :
           inflight[k] \notin {0, f} => flights'[inflight[k]].st # "done"
    BY <2>1 DEF FlightsAreShared, MapIsByKey
  <2> QED
    BY <1>a, <2>1, <2>3, <2>4, <2>5, StepInPlace
<1>5. ASSUME NEW f \in DOMAIN flights, TimerFires(f)
      PROVE  FlightInv'
  <2>1. /\ flights' = [g \in DOMAIN flights |-> flights'[g]]
        /\ \A g \in DOMAIN flights \ {f} : flights'[g] = flights[g]
        /\ UNCHANGED withTimeout
    BY <1>5 DEF TimerFires
  <2>2. PICK b \in BOOLEAN :
           /\ flights'[f] = [flights[f] EXCEPT !.timer = FALSE, !.givenUp = b]
           /\ flights[f].givenUp => b
           /\ inflight[flights[f].key] = f => b
    BY <1>5, <1>a DEF TimerFires, FlightRecords
  <2>3. /\ flights'[f] \in FlightRecords
        /\ flights'[f].key = flights[f].key
        /\ flights'[f].st = flights[f].st
        /\ flights'[f].givenUp = b
    BY <1>a, <2>2 DEF FlightRecords
  <2>4. /\ inflight' \in [FlightKeys -> Nat]
        /\ \A k \in FlightKeys : inflight'[k] = IF inflight[k] = f THEN 0 ELSE inflight[k]
    BY <1>5, <1>a DEF TimerFires, MapIsByKey
  <2>5. \A k \in FlightKeys :
           /\ inflight[k] # 0 => flights'[inflight[k]].st # "done"
           /\ inflight[k] = f => b
    <3>1. \A g \in DOMAIN flights : flights'[g].st = flights[g].st
      BY <2>1, <2>3
    <3>2. \A k \in FlightKeys : inflight[k] # 0 => flights'[inflight[k]].st # "done"
      BY <3>1 DEF FlightsAreShared, MapIsByKey
    <3>3. \A k \in FlightKeys : inflight[k] = f => b
      BY <1>a, <2>2 DEF MapIsByKey
    <3> QED
      BY <3>2, <3>3
  <2> QED
    BY <1>a, <2>1, <2>2, <2>3, <2>4, <2>5, StepInPlace
<1>6. ASSUME ClearFlights
      PROVE  FlightInv'
  <2>1. /\ flights' = [g \in DOMAIN flights |-> flights'[g]]
        /\ inflight' = [k \in FlightKeys |-> 0]
        /\ UNCHANGED withTimeout
    BY <1>6 DEF ClearFlights
  <2>2. \A g \in DOMAIN flights :
           flights'[g] = IF inflight[flights[g].key] = g
                         THEN [flights[g] EXCEPT !.timer = FALSE, !.givenUp = TRUE]
                         ELSE flights[g]
    BY <1>6 DEF ClearFlights
  <2>3. ASSUME NEW g \in DOMAIN flights
        PROVE  /\ flights'[g] \in FlightRecords
               /\ flights'[g].key = flights[g].key
               /\ flights'[g].st = flights[g].st
               /\ ~flights'[g].givenUp => ~flights[g].givenUp
    <3> HIDE DEF FlightInv
    <3>1. flights[g] \in FlightRecords
      BY <1>a
    <3>2. CASE inflight[flights[g].key] = g
      <4>1. flights'[g] = [flights[g] EXCEPT !.timer = FALSE, !.givenUp = TRUE]
        BY <2>2, <3>2
      <4> QED
        BY <3>1, <4>1 DEF FlightRecords
    <3>3. CASE inflight[flights[g].key] # g
      BY <2>2, <3>1, <3>3
    <3> QED
      BY <3>2, <3>3
  <2>4. ASSUME NEW k \in FlightKeys, NEW g \in DOMAIN flights, g = inflight[k]
        PROVE  flights'[g].givenUp
    <3>1. flights[g].key = k
      BY <1>a, <2>4 DEF MapIsByKey
    <3>2. flights'[g] = [flights[g] EXCEPT !.timer = FALSE, !.givenUp = TRUE]
      BY <2>2, <2>4, <3>1
    <3>3. flights'[g].givenUp = TRUE
      BY <1>a, <3>2 DEF FlightRecords
    <3> QED
      BY <3>3
  <2>5. inflight' \in [FlightKeys -> Nat]
    BY <2>1
  <2>6. \A k \in FlightKeys : inflight'[k] = 0
    BY <2>1
  <2>7. \A g \in DOMAIN flights :
           /\ flights'[g] \in FlightRecords
           /\ flights'[g].key = flights[g].key
           /\ flights'[g].st # "done" => flights[g].st # "done"
           /\ ~flights'[g].givenUp => ~flights[g].givenUp
    BY <2>3
  <2>8. \A k \in FlightKeys :
           /\ inflight'[k] = 0
           /\ \A g \in DOMAIN flights :
                 g = inflight[k] => flights'[g].st = "done" \/ flights'[g].givenUp
    BY <2>4, <2>6
  <2>9. withTimeout' = withTimeout
    BY <2>1
  <2> HIDE DEF FlightInv
  <2> QED
    BY <2>1, <2>5, <2>7, <2>8, <2>9, StepInPlace
<1>7. CASE UNCHANGED flightVars
  BY <1>7 DEF flightVars, FlightTypeOK, MapIsByKey, FlightsAreShared
<1> QED
  BY <1>1, <1>2, <1>3, <1>4, <1>5, <1>6, <1>7 DEF FlightNext

\* Whatever was given up before, the finallys and the timers that come late
\* change nothing but their own flight.
THEOREM FlightsShared == FlightSpec => []FlightsAreShared
<1>1. FlightInv => FlightsAreShared
  BY DEF FlightInv
<1> QED
  BY <1>1, FlightInvInit, FlightInvNext, PTL DEF FlightSpec

----------------------------------------------------------------------------
(* LoadingCache *)

StoredEntries == [ver : Nat, left : Int]
LoadRecords == [ttl : LoadTtls, ver : Nat, awaited : BOOLEAN]

LoadTypeOK ==
    /\ source \in [FlightKeys -> Nat]
    /\ answered \in [FlightKeys -> Nat]
    /\ stored \in [FlightKeys -> StoredEntries]
    /\ loads \in Seq(LoadRecords)
    /\ Len(loads) = Len(flights)

\* Neither clear() nor a timeout: a LoadingCache calls neither.
NobodyGivesUp == \A f \in DOMAIN flights : ~flights[f].givenUp

\* The last answer, the entry, what the flight has read and the source are in
\* the order of their versions; the flight's is the entry's once it is stored.
InOrder(k) ==
    /\ answered[k] <= source[k]
    /\ stored[k] # Absent =>
          answered[k] <= stored[k].ver /\ stored[k].ver <= source[k]
    /\ inflight[k] # 0 /\ loads[inflight[k]].ver # 0 =>
          /\ answered[k] <= loads[inflight[k]].ver
          /\ loads[inflight[k]].ver <= source[k]
          /\ stored[k] # Absent => stored[k].ver <= loads[inflight[k]].ver
          /\ stored[k] # Absent /\ flights[inflight[k]].st = "settled" =>
                stored[k].ver = loads[inflight[k]].ver

AllInOrder == \A k \in FlightKeys : InOrder(k)

LoadInv == FlightInv /\ LoadTypeOK /\ NobodyGivesUp /\ AllInOrder

\* The loading cache's invariant holds of an empty cache,
LEMMA LoadInvInit == LoadInit => LoadInv
<1> SUFFICES ASSUME LoadInit PROVE LoadInv
  OBVIOUS
<1>1. FlightInv
  BY FlightInvInit DEF LoadInit
<1>2. LoadTypeOK /\ NobodyGivesUp
  BY DEF LoadInit, FlightInit, LoadTypeOK, NobodyGivesUp, StoredEntries, Absent
<1>3. AllInOrder
  BY DEF LoadInit, FlightInit, AllInOrder, InOrder
<1> QED
  BY <1>1, <1>2, <1>3 DEF LoadInv

\* A tick ages an entry: its version stays, and it stays an entry.
LEMMA OlderEntry ==
    ASSUME NEW e \in StoredEntries
    PROVE  /\ Older(e) \in StoredEntries
           /\ Older(e).ver = e.ver
           /\ e = Absent => Older(e) = Absent
  BY DEF Older, StoredEntries, Absent

\* refresh() joins the key's flight or starts one that has read nothing; the
\* versions that flights have read stay as they are.
LEMMA RefreshEffect ==
    ASSUME LoadInv, NEW k \in FlightKeys, NEW t \in LoadTtls,
           NEW await \in BOOLEAN, Refresh(k, t, await)
    PROVE  /\ [FlightNext]_flightVars
           /\ loads' \in Seq(LoadRecords) /\ Len(loads') = Len(flights')
           /\ NobodyGivesUp'
           /\ \A j \in FlightKeys :
                 inflight'[j] # 0 /\ loads'[inflight'[j]].ver # 0 =>
                    /\ inflight'[j] = inflight[j]
                    /\ loads'[inflight'[j]].ver = loads[inflight[j]].ver
                    /\ flights'[inflight[j]].st = flights[inflight[j]].st
<1>a. /\ loads \in Seq(LoadRecords) /\ Len(loads) = Len(flights)
      /\ inflight \in [FlightKeys -> Nat]
      /\ flights \in Seq(FlightRecords)
      /\ DOMAIN flights = DOMAIN loads
      /\ \A j \in FlightKeys : inflight[j] # 0 => inflight[j] \in DOMAIN flights
  BY DEF LoadInv, LoadTypeOK, FlightInv, FlightTypeOK, MapIsByKey
<1>1. CASE /\ inflight[k] # 0
           /\ loads' = [loads EXCEPT ![inflight[k]].awaited = @ \/ await]
           /\ UNCHANGED flightVars
  <2>1. inflight[k] \in DOMAIN loads
    BY <1>a, <1>1
  <2>2. /\ loads[inflight[k]] \in LoadRecords
        /\ [loads[inflight[k]] EXCEPT !.awaited = @ \/ await] \in LoadRecords
    <3>1. loads[inflight[k]] \in LoadRecords
      BY <1>a, <2>1
    <3>2. (loads[inflight[k]].awaited \/ await) \in BOOLEAN
      OBVIOUS
    <3> QED
      BY <3>1, <3>2 DEF LoadRecords
  <2>3. loads' = [loads EXCEPT ![inflight[k]] =
                    [loads[inflight[k]] EXCEPT !.awaited = @ \/ await]]
    BY <1>1
  <2>4. loads' \in Seq(LoadRecords) /\ Len(loads') = Len(loads)
    BY <1>a, <2>1, <2>2, <2>3
  <2>5. \A f \in DOMAIN loads : loads'[f].ver = loads[f].ver
    BY <1>a, <2>1, <2>2, <2>3 DEF LoadRecords
  <2>6. inflight' = inflight /\ flights' = flights
    BY <1>1 DEF flightVars
  <2>7. NobodyGivesUp'
    BY <2>6 DEF LoadInv, NobodyGivesUp
  <2> QED
    BY <1>1, <1>a, <2>4, <2>5, <2>6, <2>7
<1>2. CASE /\ StartFlight(k)
           /\ loads' = Append(loads, [ttl |-> t, ver |-> 0, awaited |-> await])
  <2> DEFINE n == Len(flights) + 1
             x == Flight(k, "running")
             l == [ttl |-> t, ver |-> 0, awaited |-> await]
  <2>1. /\ flights' = Append(flights, x)
        /\ inflight' = [inflight EXCEPT ![k] = n]
        /\ loads' = Append(loads, l)
    BY <1>2 DEF StartFlight
  <2>2. x \in FlightRecords /\ ~x.givenUp
    BY DEF LoadInv, FlightInv, FlightTypeOK, FlightRecords, Flight
  <2>3. l \in LoadRecords /\ l.ver = 0
    BY DEF LoadRecords
  <2> HIDE DEF x, l
  <2>4. /\ \A f \in DOMAIN flights : flights'[f] = flights[f]
        /\ flights'[n] = x
        /\ DOMAIN flights' = DOMAIN flights \cup {n}
    BY <1>a, <2>1, <2>2, AppendedFlight
  <2>5. /\ loads' \in Seq(LoadRecords)
        /\ Len(loads') = Len(loads) + 1
        /\ \A f \in DOMAIN loads : loads'[f] = loads[f]
        /\ loads'[n] = l
    BY <1>a, <2>1, <2>3
  <2>6. Len(flights') = Len(flights) + 1
    BY <1>a, <2>1, <2>2
  <2>7. NobodyGivesUp'
    BY <2>2, <2>4 DEF LoadInv, NobodyGivesUp
  <2>8. FlightNext
    BY <1>2 DEF FlightNext
  <2>9. ASSUME NEW j \in FlightKeys, inflight'[j] # 0, loads'[inflight'[j]].ver # 0
        PROVE  /\ inflight'[j] = inflight[j]
               /\ loads'[inflight'[j]].ver = loads[inflight[j]].ver
               /\ flights'[inflight[j]].st = flights[inflight[j]].st
    <3>1. j # k
      BY <1>a, <2>1, <2>3, <2>5, <2>9
    <3>2. inflight'[j] = inflight[j]
      BY <1>a, <2>1, <3>1
    <3> QED
      BY <1>a, <2>4, <2>5, <2>9, <3>2
  <2> QED
    BY <1>a, <2>5, <2>6, <2>7, <2>8, <2>9
<1> QED
  BY <1>1, <1>2 DEF Refresh

\* The steps that leave the flights, their loads and the source alone: an
\* answer from the store, or an entry that is lost or ages.
LEMMA StoreStep ==
    ASSUME LoadInv, UNCHANGED <<flightVars, source, loads>>,
           stored' \in [FlightKeys -> StoredEntries],
           answered' \in [FlightKeys -> Nat],
           \A k \in FlightKeys :
              /\ stored'[k] = Absent \/ (stored[k] # Absent /\ stored'[k].ver = stored[k].ver)
              /\ answered'[k] = answered[k] \/ (stored[k] # Absent /\ answered'[k] = stored[k].ver)
    PROVE  LoadInv'
<1>1. /\ inflight' = inflight /\ flights' = flights
      /\ source' = source /\ loads' = loads
  BY DEF flightVars
<1>2. FlightInv'
  BY FlightInvNext DEF LoadInv
<1>3. LoadTypeOK' /\ NobodyGivesUp'
  BY <1>1 DEF LoadInv, LoadTypeOK, NobodyGivesUp
<1>4. ASSUME NEW k \in FlightKeys
      PROVE  InOrder(k)'
  <2> DEFINE l == loads[inflight[k]]
             settled == flights[inflight[k]].st = "settled"
  <2>1. /\ InOrder(k)
        /\ answered[k] \in Nat /\ source[k] \in Nat /\ stored[k].ver \in Nat
    BY DEF LoadInv, AllInOrder, LoadTypeOK, StoredEntries
  <2>2. inflight[k] # 0 => l.ver \in Nat
    <3> SUFFICES ASSUME inflight[k] # 0 PROVE l.ver \in Nat
      OBVIOUS
    <3>1. inflight[k] \in 1..Len(loads)
      BY DEF LoadInv, FlightInv, FlightTypeOK, MapIsByKey, LoadTypeOK
    <3>2. l \in LoadRecords
      BY <3>1 DEF LoadInv, LoadTypeOK
    <3> QED
      BY <3>2 DEF LoadRecords
  <2>3. l' = l /\ (settled' <=> settled) /\ inflight'[k] = inflight[k] /\ source'[k] = source[k]
    BY <1>1
  <2>4. /\ answered[k] <= source[k]
        /\ stored[k] # Absent =>
              answered[k] <= stored[k].ver /\ stored[k].ver <= source[k]
        /\ inflight[k] # 0 /\ l.ver # 0 =>
              /\ answered[k] <= l.ver
              /\ l.ver <= source[k]
              /\ stored[k] # Absent => stored[k].ver <= l.ver
              /\ stored[k] # Absent /\ settled => stored[k].ver = l.ver
    BY <2>1 DEF InOrder
  <2> HIDE DEF l, settled
  <2>5. /\ answered'[k] <= source[k]
        /\ stored'[k] # Absent =>
              answered'[k] <= stored'[k].ver /\ stored'[k].ver <= source[k]
        /\ inflight[k] # 0 /\ l.ver # 0 =>
              /\ answered'[k] <= l.ver
              /\ l.ver <= source[k]
              /\ stored'[k] # Absent => stored'[k].ver <= l.ver
              /\ stored'[k] # Absent /\ settled => stored'[k].ver = l.ver
    BY <2>1, <2>2, <2>4
  <2> QED
    BY <2>3, <2>5 DEF InOrder, l, settled
<1> QED
  BY <1>2, <1>3, <1>4 DEF LoadInv, AllInOrder

\* and every read, load and write keeps it.
LEMMA LoadInvNext == LoadInv /\ [LoadNext]_loadVars => LoadInv'
<1> SUFFICES ASSUME LoadInv, [LoadNext]_loadVars
             PROVE  LoadInv'
  OBVIOUS
<1>k. LoadKeys \subseteq FlightKeys
  BY LoadingAssumption
<1>a. /\ loads \in Seq(LoadRecords) /\ Len(loads) = Len(flights)
      /\ inflight \in [FlightKeys -> Nat]
      /\ flights \in Seq(FlightRecords)
      /\ DOMAIN flights = DOMAIN loads
      /\ source \in [FlightKeys -> Nat]
      /\ answered \in [FlightKeys -> Nat]
      /\ stored \in [FlightKeys -> StoredEntries]
  BY DEF LoadInv, LoadTypeOK, FlightInv, FlightTypeOK
<1>b. Absent \in StoredEntries
  BY DEF Absent, StoredEntries
<1>o. \A j \in FlightKeys : Older(stored[j]) \in StoredEntries
                          /\ Older(stored[j]).ver = stored[j].ver
                          /\ (stored[j] = Absent => Older(stored[j]) = Absent)
  BY <1>a, OlderEntry
<1>1. ASSUME NEW k \in LoadKeys, GetFresh(k)
      PROVE  LoadInv'
  <2>1. stored[k] # Absent /\ k \in FlightKeys
    BY <1>1, <1>k DEF GetFresh, Absent
  <2>2. /\ answered' = [answered EXCEPT ![k] = stored[k].ver]
        /\ UNCHANGED <<flightVars, source, stored, loads>>
    BY <1>1 DEF GetFresh, Answer
  <2>3. answered' \in [FlightKeys -> Nat]
    BY <1>a, <2>1, <2>2 DEF StoredEntries
  <2> QED
    BY <1>a, <2>1, <2>2, <2>3, StoreStep
<1>2. ASSUME NEW k \in LoadKeys, GetFreshTooLate(k)
      PROVE  LoadInv'
  <2>1. /\ stored' = [j \in FlightKeys |-> IF j = k THEN Absent ELSE Older(stored[j])]
        /\ UNCHANGED <<flightVars, source, loads, answered>>
    BY <1>2 DEF GetFreshTooLate
  <2>2. stored' \in [FlightKeys -> StoredEntries]
    BY <1>b, <1>o, <2>1
  <2> QED
    BY <1>a, <1>o, <2>1, <2>2, StoreStep
<1>3. ASSUME NEW k \in LoadKeys, Forget(k)
      PROVE  LoadInv'
  <2>1. /\ stored' = [stored EXCEPT ![k] = Absent]
        /\ UNCHANGED <<flightVars, source, loads, answered>>
    BY <1>3 DEF Forget
  <2>2. stored' \in [FlightKeys -> StoredEntries]
    BY <1>a, <1>b, <2>1
  <2> QED
    BY <1>a, <2>1, <2>2, StoreStep
<1>4. ASSUME LoadTick
      PROVE  LoadInv'
  <2>1. /\ stored' = [j \in FlightKeys |-> Older(stored[j])]
        /\ UNCHANGED <<flightVars, source, loads, answered>>
    BY <1>4 DEF LoadTick
  <2>2. stored' \in [FlightKeys -> StoredEntries]
    BY <1>o, <2>1
  <2> QED
    BY <1>a, <1>o, <2>1, <2>2, StoreStep
<1>5. ASSUME NEW k \in LoadKeys, NEW t \in LoadTtls, NEW s \in Stales,
             GetStale(k, t, s) \/ GetLoads(k, t, s)
      PROVE  LoadInv'
  <2>k. k \in FlightKeys
    BY <1>k
  <2>1. PICK await \in BOOLEAN : Refresh(k, t, await)
    BY <1>5 DEF GetStale, GetLoads
  <2>2. /\ UNCHANGED <<source, stored>>
        /\ answered' \in [FlightKeys -> Nat]
        /\ \A j \in FlightKeys :
              answered'[j] = answered[j] \/ (stored[j] # Absent /\ answered'[j] = stored[j].ver)
    <3>1. CASE GetStale(k, t, s)
      <4>1. /\ stored[k] # Absent
            /\ answered' = [answered EXCEPT ![k] = stored[k].ver]
            /\ UNCHANGED <<source, stored>>
        BY <3>1 DEF GetStale, InWindow, Answer
      <4> QED
        BY <1>a, <2>k, <4>1 DEF StoredEntries
    <3>2. CASE GetLoads(k, t, s)
      BY <1>a, <3>2 DEF GetLoads
    <3> QED
      BY <1>5, <3>1, <3>2
  <2>3. /\ [FlightNext]_flightVars
        /\ loads' \in Seq(LoadRecords) /\ Len(loads') = Len(flights')
        /\ NobodyGivesUp'
        /\ \A j \in FlightKeys :
              inflight'[j] # 0 /\ loads'[inflight'[j]].ver # 0 =>
                 /\ inflight'[j] = inflight[j]
                 /\ loads'[inflight'[j]].ver = loads[inflight[j]].ver
                 /\ flights'[inflight[j]].st = flights[inflight[j]].st
    BY <2>k, <2>1, RefreshEffect
  <2>4. FlightInv'
    BY <2>3, FlightInvNext DEF LoadInv
  <2>5. LoadTypeOK'
    BY <1>a, <2>2, <2>3 DEF LoadTypeOK
  <2>6. ASSUME NEW j \in FlightKeys
        PROVE  InOrder(j)'
    <3>1. /\ answered[j] \in Nat /\ source[j] \in Nat /\ stored[j].ver \in Nat
      BY <1>a DEF StoredEntries
    <3>2. InOrder(j)
      BY DEF LoadInv, AllInOrder
    <3>3. source'[j] = source[j] /\ stored'[j] = stored[j]
      BY <2>2
    <3>4. /\ answered'[j] <= source'[j]
          /\ stored'[j] # Absent =>
                answered'[j] <= stored'[j].ver /\ stored'[j].ver <= source'[j]
      BY <2>2, <3>1, <3>2, <3>3 DEF InOrder
    <3>5. ASSUME inflight'[j] # 0, loads'[inflight'[j]].ver # 0
          PROVE  /\ answered'[j] <= loads'[inflight'[j]].ver
                 /\ loads'[inflight'[j]].ver <= source'[j]
                 /\ stored'[j] # Absent => stored'[j].ver <= loads'[inflight'[j]].ver
                 /\ stored'[j] # Absent /\ flights'[inflight'[j]].st = "settled" =>
                       stored'[j].ver = loads'[inflight'[j]].ver
      BY <2>2, <2>3, <3>2, <3>3, <3>5 DEF InOrder
    <3> QED
      BY <3>4, <3>5 DEF InOrder
  <2> QED
    BY <2>3, <2>4, <2>5, <2>6 DEF LoadInv, AllInOrder
<1>6. ASSUME NEW k \in LoadKeys, SourceChanges(k)
      PROVE  LoadInv'
  <2>1. /\ source' = [source EXCEPT ![k] = @ + 1]
        /\ UNCHANGED <<flightVars, stored, loads, answered>>
    BY <1>6 DEF SourceChanges
  <2>2. /\ source' \in [FlightKeys -> Nat]
        /\ \A j \in FlightKeys : source[j] <= source'[j]
    BY <1>a, <1>k, <2>1
  <2>3. FlightInv'
    BY <2>1, FlightInvNext DEF LoadInv
  <2>4. LoadTypeOK' /\ NobodyGivesUp'
    BY <2>1, <2>2 DEF LoadInv, LoadTypeOK, NobodyGivesUp, flightVars
  <2>5. ASSUME NEW j \in FlightKeys
        PROVE  InOrder(j)'
    <3>1. /\ answered[j] \in Nat /\ source[j] \in Nat /\ stored[j].ver \in Nat
          /\ source'[j] \in Nat
      BY <1>a, <2>2 DEF StoredEntries
    <3>2. InOrder(j)
      BY DEF LoadInv, AllInOrder
    <3>3. inflight[j] # 0 => loads[inflight[j]].ver \in Nat
      <4>1. inflight[j] # 0 => inflight[j] \in DOMAIN loads
        BY <1>a DEF LoadInv, FlightInv, MapIsByKey
      <4>2. \A f \in DOMAIN loads : loads[f] \in LoadRecords
        BY <1>a
      <4> QED
        BY <4>1, <4>2 DEF LoadRecords
    <3>4. /\ inflight' = inflight /\ flights' = flights
          /\ loads' = loads /\ answered' = answered /\ stored' = stored
      BY <2>1 DEF flightVars
    <3> QED
      BY <2>2, <3>1, <3>2, <3>3, <3>4 DEF InOrder
  <2> QED
    BY <2>3, <2>4, <2>5 DEF LoadInv, AllInOrder
\* The flight of a step that its function takes is its key's.
<1>f. ASSUME NEW f \in DOMAIN flights, flights[f].st # "done"
      PROVE  /\ f \in Nat \ {0} /\ f \in DOMAIN loads
             /\ flights[f].key \in FlightKeys
             /\ inflight[flights[f].key] = f
             /\ \A j \in FlightKeys : inflight[j] = f => j = flights[f].key
             /\ flights[f] \in FlightRecords /\ loads[f] \in LoadRecords
             /\ loads[f].ver \in Nat /\ loads[f].ttl \in Nat
  <2>1. /\ f \in 1..Len(flights) /\ f \in DOMAIN loads
        /\ flights[f] \in FlightRecords /\ loads[f] \in LoadRecords
    BY <1>a
  <2>2. inflight[flights[f].key] = f
    BY <1>f DEF LoadInv, NobodyGivesUp, FlightInv, FlightsAreShared
  <2>3. \A j \in FlightKeys : inflight[j] = f => j = flights[f].key
    BY <2>1 DEF LoadInv, FlightInv, MapIsByKey
  <2>4. flights[f].key \in FlightKeys
    BY <2>1 DEF FlightRecords
  <2>5. loads[f].ver \in Nat /\ loads[f].ttl \in Nat
    BY <2>1, LoadingAssumption DEF LoadRecords
  <2> QED
    BY <2>1, <2>2, <2>3, <2>4, <2>5
<1>v. \A j \in FlightKeys :
         /\ answered[j] \in Nat /\ source[j] \in Nat /\ stored[j].ver \in Nat
         /\ InOrder(j)
  BY <1>a DEF StoredEntries, LoadInv, AllInOrder
<1>7. ASSUME NEW f \in DOMAIN flights, LoaderReads(f)
      PROVE  LoadInv'
  <2> DEFINE k == flights[f].key
  <2>1. /\ loads' = [loads EXCEPT ![f] = [loads[f] EXCEPT !.ver = source[k]]]
        /\ flights[f].st = "running"
        /\ inflight' = inflight /\ flights' = flights
        /\ UNCHANGED <<flightVars, source, stored, answered>>
    BY <1>7 DEF LoaderReads, flightVars
  <2>2. /\ f \in DOMAIN loads /\ k \in FlightKeys /\ inflight[k] = f
        /\ loads[f] \in LoadRecords /\ f # 0
        /\ \A j \in FlightKeys : inflight[j] = f => j = k
    BY <1>f, <2>1
  <2>3. [loads[f] EXCEPT !.ver = source[k]] \in LoadRecords
    BY <1>v, <2>2 DEF LoadRecords
  <2>4. /\ loads' \in Seq(LoadRecords) /\ Len(loads') = Len(loads)
        /\ loads'[f].ver = source[k]
        /\ \A g \in DOMAIN loads : g # f => loads'[g] = loads[g]
    BY <1>a, <2>1, <2>2, <2>3 DEF LoadRecords
  <2>5. FlightInv'
    BY <2>1, FlightInvNext DEF LoadInv
  <2>6. LoadTypeOK' /\ NobodyGivesUp'
    BY <2>1, <2>4 DEF LoadInv, LoadTypeOK, NobodyGivesUp
  <2>7. ASSUME NEW j \in FlightKeys
        PROVE  InOrder(j)'
    <3>1. CASE j = k
      BY <1>v, <2>1, <2>2, <2>4, <3>1 DEF InOrder
    <3>2. CASE j # k
      <4>1. inflight[j] # 0 => inflight[j] \in DOMAIN loads /\ inflight[j] # f
        BY <1>a, <2>2, <3>2 DEF LoadInv, FlightInv, MapIsByKey
      <4> QED
        BY <1>v, <2>1, <2>4, <4>1 DEF InOrder
    <3> QED
      BY <3>1, <3>2
  <2> QED
    BY <2>5, <2>6, <2>7 DEF LoadInv, AllInOrder
\* A load that ends or fails: its flight settles.
<1>s. ASSUME NEW f \in DOMAIN flights, FnSettles(f)
      PROVE  /\ FlightInv' /\ NobodyGivesUp'
             /\ flights[f].st = "running"
             /\ inflight' = inflight /\ Len(flights') = Len(flights)
             /\ flights'[f].st = "settled"
             /\ \A g \in DOMAIN flights : g # f => flights'[g] = flights[g]
  <2>1. FlightInv'
    BY <1>s, FlightInvNext DEF LoadInv, FlightNext
  <2>2. /\ flights' = [flights EXCEPT ![f] = [flights[f] EXCEPT !.st = "settled"]]
        /\ inflight' = inflight /\ flights[f].st = "running"
    BY <1>s DEF FnSettles
  <2>3. flights[f] \in FlightRecords
    BY <1>a
  <2>4. /\ flights'[f].st = "settled" /\ flights'[f].givenUp = flights[f].givenUp
        /\ \A g \in DOMAIN flights : g # f => flights'[g] = flights[g]
        /\ DOMAIN flights' = DOMAIN flights /\ Len(flights') = Len(flights)
    BY <1>a, <2>2, <2>3 DEF FlightRecords
  <2>5. NobodyGivesUp'
    BY <2>4 DEF LoadInv, NobodyGivesUp
  <2> QED
    BY <2>1, <2>2, <2>4, <2>5
<1>8. ASSUME NEW f \in DOMAIN flights, LoadEnds(f)
      PROVE  LoadInv'
  <2> DEFINE k == flights[f].key
             e == [ver |-> loads[f].ver, left |-> loads[f].ttl]
  <2>1. /\ FnSettles(f) /\ loads[f].ver # 0
        /\ stored' = [stored EXCEPT ![k] = e]
        /\ source' = source /\ loads' = loads /\ answered' = answered
    BY <1>8 DEF LoadEnds
  <2>s. /\ FlightInv' /\ NobodyGivesUp'
        /\ flights[f].st = "running"
        /\ inflight' = inflight /\ Len(flights') = Len(flights)
        /\ flights'[f].st = "settled"
        /\ \A g \in DOMAIN flights : g # f => flights'[g] = flights[g]
    BY <1>s, <2>1
  <2>2. /\ k \in FlightKeys /\ inflight[k] = f /\ f # 0
        /\ loads[f].ver \in Nat /\ loads[f].ttl \in Nat
        /\ \A j \in FlightKeys : inflight[j] = f => j = k
    BY <1>f, <2>s
  <2>3. e \in StoredEntries /\ e.ver = loads[f].ver
    BY <2>2 DEF StoredEntries
  <2> HIDE DEF e
  <2>4. /\ stored' \in [FlightKeys -> StoredEntries] /\ stored'[k] = e
        /\ \A j \in FlightKeys : j # k => stored'[j] = stored[j]
    BY <1>a, <2>1, <2>2, <2>3
  <2>5. LoadTypeOK'
    BY <1>a, <2>1, <2>s, <2>4 DEF LoadTypeOK
  <2>6. ASSUME NEW j \in FlightKeys
        PROVE  InOrder(j)'
    <3>1. CASE j = k
      BY <1>v, <2>1, <2>s, <2>2, <2>3, <2>4, <3>1 DEF InOrder
    <3>2. CASE j # k
      <4>1. inflight[j] # 0 => inflight[j] \in DOMAIN flights /\ inflight[j] # f
        BY <2>2, <3>2 DEF LoadInv, FlightInv, MapIsByKey
      <4> QED
        BY <1>v, <2>1, <2>s, <2>4, <3>2, <4>1 DEF InOrder
    <3> QED
      BY <3>1, <3>2
  <2> QED
    BY <2>s, <2>5, <2>6 DEF LoadInv, AllInOrder
<1>9. ASSUME NEW f \in DOMAIN flights, LoadFails(f)
      PROVE  LoadInv'
  <2> DEFINE k == flights[f].key
             l == [loads[f] EXCEPT !.ver = 0, !.awaited = FALSE]
  <2>1. /\ FnSettles(f)
        /\ loads' = [loads EXCEPT ![f].ver = 0, ![f].awaited = FALSE]
        /\ source' = source /\ stored' = stored /\ answered' = answered
    BY <1>9 DEF LoadFails
  <2>s. /\ FlightInv' /\ NobodyGivesUp'
        /\ flights[f].st = "running"
        /\ inflight' = inflight /\ Len(flights') = Len(flights)
        /\ \A g \in DOMAIN flights : g # f => flights'[g] = flights[g]
    BY <1>s, <2>1
  <2>2. /\ k \in FlightKeys /\ inflight[k] = f /\ f # 0
        /\ f \in DOMAIN loads /\ loads[f] \in LoadRecords
        /\ \A j \in FlightKeys : inflight[j] = f => j = k
    BY <1>f, <2>s
  <2>3. l \in LoadRecords /\ l.ver = 0
    BY <2>2 DEF LoadRecords
  <2>4. loads' = [loads EXCEPT ![f] = l]
    BY <1>a, <2>1, <2>2
  <2> HIDE DEF l
  <2>5. /\ loads' \in Seq(LoadRecords) /\ Len(loads') = Len(loads)
        /\ loads'[f] = l
        /\ \A g \in DOMAIN loads : g # f => loads'[g] = loads[g]
    BY <1>a, <2>2, <2>3, <2>4
  <2>6. LoadTypeOK'
    BY <1>a, <2>1, <2>s, <2>5 DEF LoadTypeOK
  <2>7. ASSUME NEW j \in FlightKeys
        PROVE  InOrder(j)'
    <3>1. CASE j = k
      BY <1>v, <2>1, <2>s, <2>2, <2>3, <2>5, <3>1 DEF InOrder
    <3>2. CASE j # k
      <4>1. inflight[j] # 0 => inflight[j] \in DOMAIN flights /\ inflight[j] # f
        BY <2>2, <3>2 DEF LoadInv, FlightInv, MapIsByKey
      <4> QED
        BY <1>a, <1>v, <2>1, <2>s, <2>5, <4>1 DEF InOrder
    <3> QED
      BY <3>1, <3>2
  <2> QED
    BY <2>s, <2>6, <2>7 DEF LoadInv, AllInOrder
<1>10. ASSUME NEW f \in DOMAIN flights, LoadFinally(f)
       PROVE  LoadInv'
  <2> DEFINE k == flights[f].key
             v == loads[f].ver
  <2>1. /\ Finally(f) /\ flights[f].st = "settled"
        /\ source' = source /\ stored' = stored /\ loads' = loads
    BY <1>10 DEF LoadFinally, Finally
  <2>2. /\ k \in FlightKeys /\ inflight[k] = f /\ f # 0
        /\ v \in Nat /\ flights[f] \in FlightRecords
        /\ \A j \in FlightKeys : inflight[j] = f => j = k
    BY <1>f, <2>1
  <2>3. answered' = answered \/ (v # 0 /\ answered' = [answered EXCEPT ![k] = v])
    BY <1>10 DEF LoadFinally, Answer
  <2>4. FlightInv'
    BY <2>1, FlightInvNext DEF LoadInv, FlightNext
  <2>5. /\ flights' = [flights EXCEPT ![f] =
                          [flights[f] EXCEPT !.st = "done", !.timer = FALSE]]
        /\ inflight' = [inflight EXCEPT ![k] = 0]
    <3>1. (flights[f].timer /\ ~(inflight[k] = f)) = FALSE
      BY <2>2
    <3>2. flights' = [flights EXCEPT ![f] =
                        [flights[f] EXCEPT !.st = "done",
                                           !.timer = @ /\ ~(inflight[k] = f)]]
      BY <2>1, Zenon DEF Finally
    <3>3. inflight' = [inflight EXCEPT ![k] = 0]
      BY <2>1, <2>2 DEF Finally
    <3> QED
      BY <3>1, <3>2, <3>3
  <2>6. /\ DOMAIN flights' = DOMAIN flights /\ Len(flights') = Len(flights)
        /\ flights'[f].givenUp = flights[f].givenUp
        /\ \A g \in DOMAIN flights : g # f => flights'[g] = flights[g]
    BY <1>a, <2>2, <2>5 DEF FlightRecords
  <2>7. NobodyGivesUp'
    BY <2>6 DEF LoadInv, NobodyGivesUp
  <2>8. LoadTypeOK'
    BY <1>a, <2>1, <2>2, <2>3, <2>6 DEF LoadTypeOK
  <2>9. ASSUME NEW j \in FlightKeys
        PROVE  InOrder(j)'
    <3>1. CASE j = k
      <4>1. inflight'[k] = 0
        BY <1>a, <2>2, <2>5
      <4>2. answered'[k] = answered[k] \/ (v # 0 /\ answered'[k] = v)
        BY <1>a, <2>2, <2>3
      <4>3. InOrder(k) /\ answered[k] \in Nat /\ stored[k].ver \in Nat /\ source[k] \in Nat
        BY <1>v, <2>2
      <4> QED
        BY <2>1, <2>2, <3>1, <4>1, <4>2, <4>3 DEF InOrder
    <3>2. CASE j # k
      <4>1. inflight[j] # 0 => inflight[j] \in DOMAIN flights /\ inflight[j] # f
        BY <2>2, <3>2 DEF LoadInv, FlightInv, MapIsByKey
      <4>2. inflight'[j] = inflight[j] /\ answered'[j] = answered[j]
        BY <1>a, <2>2, <2>3, <2>5, <3>2
      <4> QED
        BY <1>v, <2>1, <2>6, <4>1, <4>2 DEF InOrder
    <3> QED
      BY <3>1, <3>2
  <2> QED
    BY <2>4, <2>7, <2>8, <2>9 DEF LoadInv, AllInOrder
<1>11. CASE UNCHANGED loadVars
  BY <1>a, <1>11, StoreStep DEF loadVars
<1> QED
  BY <1>1, <1>2, <1>3, <1>4, <1>5, <1>6, <1>7, <1>8, <1>9, <1>10, <1>11 DEF LoadNext

\* The answers of a key never go back to an older version of its source: what
\* is answered is an entry or the result of the key's only flight.
THEOREM ReadsGoForward == LoadSpec => ReadsNeverGoBack
<1> DEFINE Forward == \A k \in LoadKeys : answered'[k] >= answered[k]
<1>1. LoadInv /\ LoadInv' /\ [LoadNext]_loadVars => [Forward]_answered
  <2> SUFFICES ASSUME LoadInv, [LoadNext]_loadVars, answered' # answered,
                      NEW j \in LoadKeys
               PROVE  answered'[j] >= answered[j]
    OBVIOUS
  <2>j. j \in FlightKeys
    BY LoadingAssumption
  <2>a. /\ answered \in [FlightKeys -> Nat] /\ InOrder(j)
        /\ stored \in [FlightKeys -> StoredEntries]
        /\ loads \in Seq(LoadRecords) /\ DOMAIN flights = DOMAIN loads
    BY <2>j DEF LoadInv, LoadTypeOK, AllInOrder, FlightInv, FlightTypeOK
  <2>1. ASSUME NEW k \in LoadKeys, stored[k] # Absent, Answer(k, stored[k].ver)
        PROVE  answered'[j] >= answered[j]
    BY <2>1, <2>a, <2>j DEF Answer, InOrder, StoredEntries
  <2>2. ASSUME NEW f \in DOMAIN flights, LoadFinally(f)
        PROVE  answered'[j] >= answered[j]
    <3>1. /\ flights[f].st = "settled" /\ loads[f].ver # 0
          /\ answered' = [answered EXCEPT ![flights[f].key] = loads[f].ver]
      BY <2>2 DEF LoadFinally, Finally, Answer
    <3>2. /\ inflight[flights[f].key] = f
          /\ f \in DOMAIN loads
      BY <3>1, <2>a DEF LoadInv, NobodyGivesUp, FlightInv, FlightsAreShared
    <3>3. loads[f] \in LoadRecords /\ f # 0
      BY <2>a, <3>2
    <3>4. loads[f].ver \in Nat
      BY <3>3 DEF LoadRecords
    <3> QED
      BY <2>a, <2>j, <3>1, <3>2, <3>3, <3>4 DEF InOrder
  <2>3. \/ \E k \in LoadKeys : stored[k] # Absent /\ Answer(k, stored[k].ver)
        \/ \E f \in DOMAIN flights : LoadFinally(f)
    <3>1. LoadNext
      BY DEF loadVars
    <3>2. \A k \in LoadKeys : ~GetFreshTooLate(k) /\ ~Forget(k) /\ ~SourceChanges(k)
      BY DEF GetFreshTooLate, Forget, SourceChanges
    <3>3. \A k \in LoadKeys, t \in LoadTtls, s \in Stales : ~GetLoads(k, t, s)
      BY DEF GetLoads
    <3>4. \A f \in DOMAIN flights : ~LoaderReads(f) /\ ~LoadEnds(f) /\ ~LoadFails(f)
      BY DEF LoaderReads, LoadEnds, LoadFails
    <3>5. ~LoadTick
      BY DEF LoadTick
    <3>6. \A k \in LoadKeys : GetFresh(k) => stored[k] # Absent /\ Answer(k, stored[k].ver)
      BY DEF GetFresh, Absent
    <3>7. \A k \in LoadKeys, t \in LoadTtls, s \in Stales :
             GetStale(k, t, s) => stored[k] # Absent /\ Answer(k, stored[k].ver)
      BY DEF GetStale, InWindow
    <3> QED
      BY <3>1, <3>2, <3>3, <3>4, <3>5, <3>6, <3>7 DEF LoadNext
  <2> QED
    BY <2>1, <2>2, <2>3
<1>2. LoadSpec => [][Forward]_answered
  <2> HIDE DEF Forward
  <2> QED
    BY <1>1, LoadInvInit, LoadInvNext, PTL DEF LoadSpec
<1> QED
  BY <1>2 DEF ReadsNeverGoBack

----------------------------------------------------------------------------
(* Emitters.                                                               *)
(*                                                                         *)
(* The walk of an emission and the bucket it walks change under the        *)
(* listeners it calls.  BusInv says what holds between them: a listener is *)
(* in a bucket once; who stays is in the bucket still, and either to be    *)
(* called or called once.  In a Set whoever is to be called is in the      *)
(* bucket, so that nobody is added to the walk who waits in it.            *)

Hearers == Plain \cup Onces

EmissionRecord ==
    [event : Events \cup {""}, bucket : Nat, todo : Seq(Hearers), called : Seq(Hearers),
     staying : SUBSET Hearers, threw : BOOLEAN]
HandleRecord == [event : Events, bucket : Nat, listener : Hearers]
BusRecord ==
    [kind : {"cache", "cron", "mitt"}, bucket : [Events -> Nat],
     buckets : Seq(Seq(Hearers)), handles : SUBSET HandleRecord,
     emission : EmissionRecord]

Singly(s) == \A i, j \in 1..Len(s) : s[i] = s[j] => i = j

HeardOnce(m, l) ==
    IF l \in Range(m.todo) THEN l \notin Range(m.called)
    ELSE \E i \in 1..Len(m.called) :
            \A j \in 1..Len(m.called) : m.called[j] = l <=> j = i

\* A walk m of the bucket q, by an emitter of kind k.
WalkInv(k, m, q) ==
    /\ Singly(q) /\ Singly(m.todo)
    /\ m.todo # <<>> => m.event \in Events
    /\ k # "mitt" => Range(m.todo) \subseteq Range(q)
    /\ m.staying \subseteq Range(q)
    /\ m.threw => m.todo = <<>>
    /\ ~m.threw => \A l \in m.staying : HeardOnce(m, l)

Walked(b) ==
    /\ b.emission.bucket = 0 => b.emission.todo = <<>> /\ b.emission.staying = {}
    /\ b.emission.bucket # 0 =>
          WalkInv(b.kind, b.emission, b.buckets[b.emission.bucket])

BusInv(b) ==
    /\ b \in BusRecord
    /\ \A e \in Events : b.bucket[e] <= Len(b.buckets)
    /\ \A i \in 1..Len(b.buckets) : Singly(b.buckets[i])
    /\ \A h \in b.handles : h.bucket \in 1..Len(b.buckets)
    /\ b.emission.bucket <= Len(b.buckets)
    /\ Walked(b)

----------------------------------------------------------------------------
\* Removing from a sequence what is in it once at most.
LEMMA RemoveFirstIs ==
    ASSUME NEW S, NEW s \in Seq(S), Singly(s), NEW x
    PROVE  /\ RemoveFirst(s, x) \in Seq(S)
           /\ Singly(RemoveFirst(s, x))
           /\ Range(RemoveFirst(s, x)) = Range(s) \ {x}
<1>1. CASE \A i \in 1..Len(s) : s[i] # x
  <2>1. RemoveFirst(s, x) = s
    BY <1>1 DEF RemoveFirst
  <2>2. Range(s) = Range(s) \ {x}
    BY <1>1 DEF Range
  <2> QED
    BY <2>1, <2>2
<1>2. CASE \E i \in 1..Len(s) : s[i] = x
  <2>1. PICK k \in 1..Len(s) : s[k] = x
    BY <1>2
  <2>2. {i \in 1..Len(s) : s[i] = x} = {k}
    BY <2>1 DEF Singly
  <2>3. Min({k}) = k
    BY DEF Min
  <2>4. SelectInSeq(s, LAMBDA v : v = x) = k
    BY <2>2, <2>3 DEF SelectInSeq
  <2> DEFINE a == SubSeq(s, 1, k - 1)
             z == SubSeq(s, k + 1, Len(s))
             r == a \o z
  <2>5. RemoveFirst(s, x) = r
    BY <1>2, <2>4 DEF RemoveFirst, RemoveAt
  <2>6. /\ a \in Seq(S) /\ Len(a) = k - 1
        /\ \A i \in 1..(k - 1) : a[i] = s[i]
    <3>1. \A i \in 1..(k - 1) : s[i] \in S
      OBVIOUS
    <3>2. /\ a \in Seq(S)
          /\ Len(a) = IF 1 <= k - 1 THEN k - 1 - 1 + 1 ELSE 0
          /\ \A i \in 1..(k - 1 - 1 + 1) : a[i] = s[1 + i - 1]
      BY <3>1, SubSeqProperties
    <3> HIDE DEF a
    <3> QED
      BY <3>2
  <2>7. /\ z \in Seq(S) /\ Len(z) = Len(s) - k
        /\ \A i \in 1..(Len(s) - k) : z[i] = s[k + i]
    <3>1. \A i \in (k + 1)..Len(s) : s[i] \in S
      OBVIOUS
    <3>2. /\ z \in Seq(S)
          /\ Len(z) = IF k + 1 <= Len(s) THEN Len(s) - (k + 1) + 1 ELSE 0
          /\ \A i \in 1..(Len(s) - (k + 1) + 1) : z[i] = s[k + 1 + i - 1]
      BY <3>1, SubSeqProperties
    <3> HIDE DEF z
    <3>3. \A i \in 1..(Len(s) - k) :
              i \in 1..(Len(s) - (k + 1) + 1) /\ k + 1 + i - 1 = k + i
      OBVIOUS
    <3> QED
      BY <3>2, <3>3
  <2> HIDE DEF a, z
  <2>8. /\ r \in Seq(S) /\ Len(r) = Len(s) - 1
        /\ \A i \in 1..(Len(s) - 1) : r[i] = IF i < k THEN s[i] ELSE s[i + 1]
    <3>1. /\ r \in Seq(S) /\ Len(r) = Len(a) + Len(z)
          /\ \A i \in 1..(Len(a) + Len(z)) :
                r[i] = IF i <= Len(a) THEN a[i] ELSE z[i - Len(a)]
      BY <2>6, <2>7, ConcatProperties
    <3> HIDE DEF r
    <3>2. Len(s) \in Nat /\ k \in 1..Len(s)
      OBVIOUS
    <3>3. ASSUME NEW i \in 1..(Len(s) - 1), i < k
          PROVE  r[i] = s[i]
      <4>1. i \in 1..(Len(a) + Len(z)) /\ i <= Len(a) /\ i \in 1..(k - 1)
        BY <2>6, <2>7, <3>2, <3>3
      <4> QED
        BY <2>6, <3>1, <4>1
    <3>4. ASSUME NEW i \in 1..(Len(s) - 1), ~(i < k)
          PROVE  r[i] = s[i + 1]
      <4>1. /\ i \in 1..(Len(a) + Len(z)) /\ ~(i <= Len(a))
            /\ i - Len(a) \in 1..(Len(s) - k) /\ k + (i - Len(a)) = i + 1
        BY <2>6, <2>7, <3>2, <3>4
      <4> QED
        BY <2>7, <3>1, <4>1
    <3> QED
      BY <2>6, <2>7, <3>1, <3>2, <3>3, <3>4
  <2> HIDE DEF r
  <2>9. Singly(r)
    <3> SUFFICES ASSUME NEW i \in 1..Len(r), NEW j \in 1..Len(r), r[i] = r[j]
                 PROVE  i = j
      BY DEF Singly
    <3> DEFINE at(n) == IF n < k THEN n ELSE n + 1
    <3>1. /\ at(i) \in 1..Len(s) /\ r[i] = s[at(i)]
          /\ at(j) \in 1..Len(s) /\ r[j] = s[at(j)]
      BY <2>8
    <3>2. at(i) = at(j)
      <4> HIDE DEF at
      <4> QED
        BY <3>1 DEF Singly
    <3> QED
      BY <2>8, <3>2
  <2>10. Range(r) = Range(s) \ {x}
    <3>1. ASSUME NEW i \in 1..Len(r)
          PROVE  r[i] \in Range(s) \ {x}
      <4>1. PICK j \in 1..Len(s) : r[i] = s[j] /\ j # k
        BY <2>8
      <4> QED
        BY <2>1, <4>1 DEF Range, Singly
    <3>2. ASSUME NEW j \in 1..Len(s), s[j] # x
          PROVE  \E i \in 1..Len(r) : r[i] = s[j]
      <4>1. j # k /\ Len(s) \in Nat
        BY <2>1, <3>2
      <4>2. CASE j < k
        BY <2>8, <4>1, <4>2
      <4>3. CASE j > k
        <5>1. j - 1 \in 1..Len(r) /\ ~(j - 1 < k) /\ (j - 1) + 1 = j
          BY <2>8, <4>1, <4>3
        <5> QED
          BY <2>8, <5>1
      <4> QED
        BY <4>1, <4>2, <4>3
    <3>3. DOMAIN r = 1..Len(r) /\ DOMAIN s = 1..Len(s)
      BY <2>8
    <3>4. \A y \in Range(r) : y \in Range(s) \ {x}
      BY <3>1, <3>3 DEF Range
    <3>5. \A y \in Range(s) \ {x} : y \in Range(r)
      <4> SUFFICES ASSUME NEW j \in 1..Len(s), s[j] # x
                   PROVE  s[j] \in Range(r)
        BY <3>3 DEF Range
      <4>1. PICK i \in 1..Len(r) : r[i] = s[j]
        BY <3>2
      <4> QED
        BY <3>3, <4>1 DEF Range
    <3> QED
      BY <3>4, <3>5
  <2> QED
    BY <2>5, <2>8, <2>9, <2>10
<1> QED
  BY <1>1, <1>2

\* A new element at the end, and the first one taken away.
LEMMA AppendIs ==
    ASSUME NEW S, NEW s \in Seq(S), NEW x \in S, Singly(s), x \notin Range(s)
    PROVE  /\ Append(s, x) \in Seq(S)
           /\ Singly(Append(s, x))
           /\ Range(Append(s, x)) = Range(s) \cup {x}
<1> DEFINE t == Append(s, x)
<1>1. /\ t \in Seq(S) /\ Len(s) \in Nat /\ Len(t) = Len(s) + 1
      /\ t[Len(s) + 1] = x /\ \A i \in 1..Len(s) : t[i] = s[i]
  OBVIOUS
<1>2. \A i \in 1..Len(s) : s[i] # x
  BY DEF Range
<1>3. DOMAIN s = 1..Len(s) /\ DOMAIN t = 1..(Len(s) + 1)
  BY <1>1
<1> HIDE DEF t
<1>4. Singly(t)
  BY <1>1, <1>2 DEF Singly
<1>5. Range(t) = Range(s) \cup {x}
  BY <1>1, <1>3 DEF Range
<1> QED
  BY <1>1, <1>4, <1>5 DEF t

LEMMA HeadIs ==
    ASSUME NEW S, NEW s \in Seq(S), Singly(s), s # <<>>
    PROVE  /\ Head(s) \in S /\ Head(s) \in Range(s)
           /\ Tail(s) \in Seq(S)
           /\ Singly(Tail(s))
           /\ Range(Tail(s)) = Range(s) \ {Head(s)}
<1>1. /\ Head(s) = s[1] /\ 1 \in 1..Len(s) /\ Head(s) \in S
      /\ Tail(s) \in Seq(S) /\ Len(Tail(s)) = Len(s) - 1
      /\ \A i \in 1..(Len(s) - 1) : Tail(s)[i] = s[i + 1]
  OBVIOUS
<1> DEFINE t == Tail(s)
<1> HIDE DEF t
<1>2. /\ t \in Seq(S) /\ Len(t) = Len(s) - 1 /\ Len(s) \in Nat
      /\ \A i \in 1..(Len(s) - 1) : t[i] = s[i + 1]
  BY <1>1 DEF t
<1>3. Singly(t)
  BY <1>2 DEF Singly
<1>4. \A i \in 1..Len(t) : t[i] \in Range(s) \ {s[1]}
  BY <1>1, <1>2 DEF Singly, Range
<1>5. ASSUME NEW j \in 1..Len(s), s[j] # s[1]
      PROVE  \E i \in 1..Len(t) : t[i] = s[j]
  <2>1. j - 1 \in 1..Len(t) /\ (j - 1) + 1 = j
    BY <1>2, <1>5
  <2> QED
    BY <1>2, <2>1
<1>6. DOMAIN t = 1..Len(t) /\ DOMAIN s = 1..Len(s)
  BY <1>2
<1>7. Range(t) = Range(s) \ {s[1]}
  <2>1. \A y \in Range(t) : y \in Range(s) \ {s[1]}
    BY <1>4, <1>6 DEF Range
  <2>2. \A y \in Range(s) \ {s[1]} : y \in Range(t)
    <3> SUFFICES ASSUME NEW j \in 1..Len(s), s[j] # s[1]
                 PROVE  s[j] \in Range(t)
      BY <1>6 DEF Range
    <3>1. PICK i \in 1..Len(t) : t[i] = s[j]
      BY <1>5
    <3> QED
      BY <1>6, <3>1 DEF Range
  <2> QED
    BY <2>1, <2>2
<1>8. s[1] \in Range(s)
  BY <1>1, <1>6 DEF Range
<1> QED
  BY <1>1, <1>2, <1>3, <1>7, <1>8 DEF t

----------------------------------------------------------------------------
\* The steps of a walk: a listener leaves the bucket, joins it, is called, ...
LEMMA WalkLoses ==
    ASSUME NEW k, NEW m \in EmissionRecord, NEW q \in Seq(Hearers), NEW l \in Hearers,
           WalkInv(k, m, q), NEW n \in EmissionRecord,
           n.event = m.event, n.called = m.called, n.threw = m.threw,
           n.todo = IF k # "mitt" THEN RemoveFirst(m.todo, l) ELSE m.todo,
           n.staying = m.staying \ {l}
    PROVE  WalkInv(k, n, RemoveFirst(q, l))
<1> DEFINE p == RemoveFirst(q, l)
<1>1. Singly(p) /\ Range(p) = Range(q) \ {l}
  BY RemoveFirstIs DEF WalkInv
<1> HIDE DEF p
<1>2. m.todo \in Seq(Hearers) /\ Singly(m.todo)
  BY DEF EmissionRecord, WalkInv
<1>3. /\ Singly(n.todo)
      /\ \A x : x # l => (x \in Range(n.todo) <=> x \in Range(m.todo))
      /\ k # "mitt" => Range(n.todo) = Range(m.todo) \ {l}
      /\ m.todo = <<>> => n.todo = <<>>
  <2>1. CASE k # "mitt"
    <3>1. Singly(n.todo) /\ Range(n.todo) = Range(m.todo) \ {l}
      BY <1>2, <2>1, RemoveFirstIs
    <3>2. m.todo = <<>> => n.todo = <<>>
      BY <2>1 DEF RemoveFirst
    <3> QED
      BY <3>1, <3>2
  <2>2. CASE k = "mitt"
    BY <1>2, <2>2
  <2> QED
    BY <2>1, <2>2
<1>4. ASSUME ~n.threw, NEW x \in n.staying
      PROVE  HeardOnce(n, x)
  <2>1. HeardOnce(m, x) /\ x # l
    BY <1>4 DEF WalkInv
  <2> QED
    BY <1>3, <2>1 DEF HeardOnce
<1>5. WalkInv(k, n, p)
  BY <1>1, <1>3, <1>4 DEF WalkInv
<1> QED
  BY <1>5 DEF p

LEMMA WalkGains ==
    ASSUME NEW k, NEW m \in EmissionRecord, NEW q \in Seq(Hearers), NEW l \in Hearers,
           WalkInv(k, m, q), l \notin Range(q), m.todo # <<>>, NEW n \in EmissionRecord,
           n.event = m.event, n.called = m.called, n.threw = m.threw,
           n.todo = IF k # "mitt" THEN Append(m.todo, l) ELSE m.todo,
           n.staying = m.staying
    PROVE  WalkInv(k, n, Append(q, l))
<1> DEFINE p == Append(q, l)
<1>1. Singly(p) /\ Range(p) = Range(q) \cup {l}
  BY AppendIs DEF WalkInv
<1> HIDE DEF p
<1>2. m.todo \in Seq(Hearers) /\ Singly(m.todo) /\ l \notin m.staying /\ ~m.threw
      /\ m.event \in Events
  BY DEF EmissionRecord, WalkInv
<1>3. /\ Singly(n.todo)
      /\ \A x : x # l => (x \in Range(n.todo) <=> x \in Range(m.todo))
      /\ k # "mitt" => Range(n.todo) = Range(m.todo) \cup {l}
  <2>1. CASE k # "mitt"
    <3>1. l \notin Range(m.todo)
      BY <2>1 DEF WalkInv
    <3> QED
      BY <1>2, <2>1, <3>1, AppendIs
  <2>2. CASE k = "mitt"
    BY <1>2, <2>2
  <2> QED
    BY <2>1, <2>2
<1>4. ASSUME NEW x \in n.staying
      PROVE  HeardOnce(n, x)
  <2>1. HeardOnce(m, x) /\ x # l
    BY <1>2, <1>4 DEF WalkInv
  <2> QED
    BY <1>3, <2>1 DEF HeardOnce
<1>5. WalkInv(k, n, p)
  BY <1>1, <1>2, <1>3, <1>4 DEF WalkInv
<1> QED
  BY <1>5 DEF p

LEMMA WalkCalls ==
    ASSUME NEW k, NEW m \in EmissionRecord, NEW q \in Seq(Hearers),
           WalkInv(k, m, q), m.todo # <<>>, NEW n \in EmissionRecord,
           n.event = m.event, n.threw = m.threw, n.staying = m.staying,
           n.todo = Tail(m.todo), n.called = Append(m.called, Head(m.todo))
    PROVE  WalkInv(k, n, q)
<1> DEFINE h == Head(m.todo)
<1>1. m.todo \in Seq(Hearers) /\ Singly(m.todo) /\ m.called \in Seq(Hearers)
  BY DEF EmissionRecord, WalkInv
<1>2. /\ h \in Hearers /\ h \in Range(m.todo)
      /\ Singly(n.todo) /\ Range(n.todo) = Range(m.todo) \ {h}
  BY <1>1, HeadIs
<1> HIDE DEF h
<1>3. /\ n.called \in Seq(Hearers) /\ Len(n.called) = Len(m.called) + 1
      /\ Len(m.called) \in Nat
      /\ n.called[Len(m.called) + 1] = h
      /\ \A i \in 1..Len(m.called) : n.called[i] = m.called[i]
  BY <1>1, <1>2 DEF h
<1>4. ASSUME ~n.threw, NEW x \in n.staying
      PROVE  HeardOnce(n, x)
  <2>1. HeardOnce(m, x)
    BY <1>4 DEF WalkInv
  <2>2. CASE x = h
    <3>1. \A i \in 1..Len(m.called) : m.called[i] # x
      BY <1>1, <1>2, <2>1, <2>2 DEF HeardOnce, Range
    <3>2. /\ Len(m.called) + 1 \in 1..Len(n.called)
          /\ \A j \in 1..Len(n.called) : n.called[j] = x <=> j = Len(m.called) + 1
      BY <1>3, <2>2, <3>1
    <3> QED
      BY <1>2, <2>2, <3>2 DEF HeardOnce
  <2>3. CASE x # h /\ x \in Range(m.todo)
    <3>1. \A i \in 1..Len(n.called) : n.called[i] # x
      BY <1>1, <1>3, <2>1, <2>3 DEF HeardOnce, Range
    <3>2. x \notin Range(n.called)
      BY <1>3, <3>1 DEF Range
    <3> QED
      BY <1>2, <2>3, <3>2 DEF HeardOnce
  <2>4. CASE x \notin Range(m.todo)
    <3>1. PICK i \in 1..Len(m.called) :
              \A j \in 1..Len(m.called) : m.called[j] = x <=> j = i
      BY <2>1, <2>4 DEF HeardOnce
    <3>2. x # h
      BY <1>2, <2>4
    <3>3. /\ i \in 1..Len(n.called)
          /\ \A j \in 1..Len(n.called) : n.called[j] = x <=> j = i
      BY <1>3, <3>1, <3>2
    <3> QED
      BY <1>2, <2>4, <3>3 DEF HeardOnce
  <2> QED
    BY <2>2, <2>3, <2>4
<1>5. m.event \in Events /\ ~m.threw
  BY DEF WalkInv
<1> QED
  BY <1>2, <1>4, <1>5 DEF WalkInv

\* ... or throws out of the walk.
LEMMA WalkThrows ==
    ASSUME NEW k, NEW m \in EmissionRecord, NEW q \in Seq(Hearers),
           WalkInv(k, m, q), NEW n \in EmissionRecord,
           n.threw, n.staying = m.staying, n.todo = <<>>
    PROVE  WalkInv(k, n, q)
<1>1. Singly(n.todo) /\ Range(n.todo) = {}
  BY DEF Singly, Range
<1> QED
  BY <1>1 DEF WalkInv

\* Where a walk begins.
LEMMA WalkBegins ==
    ASSUME NEW k, NEW m \in EmissionRecord, NEW q \in Seq(Hearers), Singly(q),
           m.event \in Events, m.todo = q, m.called = <<>>,
           m.staying = Range(q), ~m.threw
    PROVE  WalkInv(k, m, q)
<1>1. ASSUME NEW l \in m.staying
      PROVE  HeardOnce(m, l)
  BY <1>1 DEF HeardOnce, Range
<1> QED
  BY <1>1 DEF WalkInv

----------------------------------------------------------------------------
\* What a bucket and its walk are.
LEMMA WalkIs ==
    ASSUME NEW b, BusInv(b)
    PROVE  /\ b.emission \in EmissionRecord /\ b.buckets \in Seq(Seq(Hearers))
           /\ b.emission.bucket \in 0..Len(b.buckets)
           /\ b.emission.bucket # 0 =>
                 /\ b.buckets[b.emission.bucket] \in Seq(Hearers)
                 /\ WalkInv(b.kind, b.emission, b.buckets[b.emission.bucket])
<1>1. b.emission \in EmissionRecord /\ b.buckets \in Seq(Seq(Hearers))
  BY DEF BusInv, BusRecord
<1>2. b.emission.bucket \in 0..Len(b.buckets)
  <2>1. b.emission.bucket \in Nat
    BY <1>1 DEF EmissionRecord
  <2>2. b.emission.bucket <= Len(b.buckets)
    BY DEF BusInv
  <2>3. Len(b.buckets) \in Nat
    BY <1>1
  <2> QED
    BY <2>1, <2>2, <2>3
<1>3. ASSUME b.emission.bucket # 0
      PROVE  /\ b.buckets[b.emission.bucket] \in Seq(Hearers)
             /\ WalkInv(b.kind, b.emission, b.buckets[b.emission.bucket])
  <2>1. b.emission.bucket \in 1..Len(b.buckets)
    BY <1>2, <1>3
  <2>2. b.buckets[b.emission.bucket] \in Seq(Hearers)
    BY <1>1, <2>1
  <2> QED
    BY <1>3, <2>2 DEF BusInv, Walked
<1> QED
  BY <1>1, <1>2, <1>3

\* What deleting a listener from a bucket writes.
Deleted(b, i, l, d) ==
    LET m == b.emission
        n == d.emission
    IN  /\ d \in BusRecord
        /\ d.kind = b.kind /\ d.bucket = b.bucket /\ d.handles = b.handles
        /\ Len(d.buckets) = Len(b.buckets)
        /\ d.buckets[i] = RemoveFirst(b.buckets[i], l)
        /\ \A j \in 1..Len(b.buckets) : j # i => d.buckets[j] = b.buckets[j]
        /\ n \in EmissionRecord
        /\ n.event = m.event /\ n.bucket = m.bucket /\ n.called = m.called
        /\ n.threw = m.threw
        /\ n.todo = IF b.kind # "mitt" /\ m.bucket = i
                    THEN RemoveFirst(m.todo, l) ELSE m.todo
        /\ n.staying = IF m.bucket = i THEN m.staying \ {l} ELSE m.staying

LEMMA DeleteIs ==
    ASSUME NEW b, BusInv(b), NEW i \in 1..Len(b.buckets), NEW l \in Hearers
    PROVE  Deleted(b, i, l, Delete(b, i, l))
<1> DEFINE d == Delete(b, i, l)
           m == b.emission
           t == IF b.kind # "mitt" /\ m.bucket = i THEN RemoveFirst(m.todo, l) ELSE m.todo
           y == IF m.bucket = i THEN m.staying \ {l} ELSE m.staying
           n == [m EXCEPT !.todo = t, !.staying = y]
           p == RemoveFirst(b.buckets[i], l)
           q == [b.buckets EXCEPT ![i] = p]
<1>1. /\ b \in BusRecord /\ m \in EmissionRecord /\ b.buckets \in Seq(Seq(Hearers))
      /\ b.buckets[i] \in Seq(Hearers) /\ Singly(b.buckets[i])
      /\ m.todo \in Seq(Hearers) /\ m.staying \in SUBSET Hearers
      /\ m.bucket = i => Singly(m.todo)
  <2>1. b \in BusRecord /\ m \in EmissionRecord /\ b.buckets \in Seq(Seq(Hearers))
    BY DEF BusInv, BusRecord
  <2>2. b.buckets[i] \in Seq(Hearers) /\ Singly(b.buckets[i])
    BY <2>1 DEF BusInv
  <2>3. m.todo \in Seq(Hearers) /\ m.staying \in SUBSET Hearers
    BY <2>1 DEF EmissionRecord
  <2>4. m.bucket = i => Singly(m.todo)
    BY WalkIs DEF WalkInv
  <2> QED
    BY <2>1, <2>2, <2>3, <2>4
<1>2. t \in Seq(Hearers) /\ y \in SUBSET Hearers
  BY <1>1, RemoveFirstIs
<1>3. p \in Seq(Hearers)
  BY <1>1, RemoveFirstIs
<1>4. /\ q \in Seq(Seq(Hearers)) /\ Len(q) = Len(b.buckets) /\ q[i] = p
      /\ \A j \in 1..Len(b.buckets) : j # i => q[j] = b.buckets[j]
  <2> HIDE DEF p
  <2> QED
    BY <1>1, <1>3
<1>5. d = [b EXCEPT !.buckets = q, !.emission = n]
  BY <1>1 DEF Delete, Heeds, BusRecord, EmissionRecord
<1> HIDE DEF t, y, p
<1>6. /\ n \in EmissionRecord
      /\ n.event = m.event /\ n.bucket = m.bucket /\ n.called = m.called
      /\ n.threw = m.threw /\ n.todo = t /\ n.staying = y
  BY <1>1, <1>2 DEF EmissionRecord
<1> HIDE DEF n, q, d
<1>7. /\ d \in BusRecord
      /\ d.kind = b.kind /\ d.bucket = b.bucket /\ d.handles = b.handles
      /\ d.buckets = q /\ d.emission = n
  BY <1>1, <1>4, <1>5, <1>6 DEF BusRecord
<1> QED
  BY <1>4, <1>6, <1>7 DEF Deleted, d, t, y, p

LEMMA DeleteKeeps ==
    ASSUME NEW b, BusInv(b), NEW i \in 1..Len(b.buckets), NEW l \in Hearers
    PROVE  BusInv(Delete(b, i, l))
<1> DEFINE d == Delete(b, i, l)
           m == b.emission
           n == d.emission
<1>1. /\ d \in BusRecord
      /\ d.kind = b.kind /\ d.bucket = b.bucket /\ d.handles = b.handles
      /\ Len(d.buckets) = Len(b.buckets)
      /\ d.buckets[i] = RemoveFirst(b.buckets[i], l)
      /\ \A j \in 1..Len(b.buckets) : j # i => d.buckets[j] = b.buckets[j]
      /\ n \in EmissionRecord
      /\ n.event = m.event /\ n.bucket = m.bucket /\ n.called = m.called
      /\ n.threw = m.threw
      /\ n.todo = IF b.kind # "mitt" /\ m.bucket = i
                  THEN RemoveFirst(m.todo, l) ELSE m.todo
      /\ n.staying = IF m.bucket = i THEN m.staying \ {l} ELSE m.staying
  <2>1. Deleted(b, i, l, d)
    BY DeleteIs
  <2> HIDE DEF d
  <2> QED
    BY <2>1 DEF Deleted
<1> HIDE DEF d
<1>2. /\ m \in EmissionRecord /\ m.bucket \in 0..Len(b.buckets)
      /\ b.buckets[i] \in Seq(Hearers) /\ Singly(b.buckets[i])
  <2>1. m \in EmissionRecord /\ m.bucket \in 0..Len(b.buckets)
        /\ b.buckets \in Seq(Seq(Hearers))
    BY WalkIs
  <2> QED
    BY <2>1 DEF BusInv
<1>3. \A j \in 1..Len(d.buckets) : Singly(d.buckets[j])
  <2> SUFFICES ASSUME NEW j \in 1..Len(b.buckets)
               PROVE  Singly(d.buckets[j])
    BY <1>1
  <2>1. CASE j = i
    BY <1>1, <1>2, <2>1, RemoveFirstIs
  <2>2. CASE j # i
    BY <1>1, <2>2 DEF BusInv
  <2> QED
    BY <2>1, <2>2
<1>4. Walked(d)
  <2>1. CASE m.bucket = 0
    BY <1>1, <2>1 DEF BusInv, Walked
  <2>2. CASE m.bucket = i
    <3>1. WalkInv(b.kind, m, b.buckets[i])
      BY <2>2, WalkIs
    <3>2. /\ n.todo = IF b.kind # "mitt" THEN RemoveFirst(m.todo, l) ELSE m.todo
          /\ n.staying = m.staying \ {l}
      BY <1>1, <2>2
    <3>3. WalkInv(b.kind, n, RemoveFirst(b.buckets[i], l))
      BY <1>1, <1>2, <3>1, <3>2, WalkLoses
    <3> QED
      BY <1>1, <2>2, <3>3 DEF Walked
  <2>3. CASE m.bucket # 0 /\ m.bucket # i
    <3>1. WalkInv(b.kind, m, b.buckets[m.bucket])
      BY <2>3, WalkIs
    <3>2. d.buckets[n.bucket] = b.buckets[m.bucket]
      BY <1>1, <1>2, <2>3
    <3>3. n.todo = m.todo /\ n.staying = m.staying
      BY <1>1, <2>3
    <3>4. WalkInv(d.kind, n, d.buckets[n.bucket])
      BY <1>1, <3>1, <3>2, <3>3 DEF WalkInv, HeardOnce
    <3> QED
      BY <1>1, <2>3, <3>4 DEF Walked
  <2> QED
    BY <2>1, <2>2, <2>3
<1>5. BusInv(d)
  BY <1>1, <1>2, <1>3, <1>4 DEF BusInv
<1> QED
  BY <1>5 DEF d

\* Buckets that events lose and handles are no part of a walk.
LEMMA OtherFields ==
    ASSUME NEW b, BusInv(b), NEW d \in BusRecord,
           d.kind = b.kind, d.buckets = b.buckets, d.emission = b.emission,
           \A e \in Events : d.bucket[e] <= Len(b.buckets),
           \A h \in d.handles : h.bucket \in 1..Len(b.buckets)
    PROVE  BusInv(d)
BY DEF BusInv, Walked

LEMMA DropKeeps ==
    ASSUME NEW b, BusInv(b), NEW e \in Events, NEW i \in 1..Len(b.buckets),
           NEW l \in Hearers
    PROVE  BusInv(Drop(b, e, i, l))
<1> DEFINE d == Delete(b, i, l)
           r == Drop(b, e, i, l)
<1>1. BusInv(d)
  BY DeleteKeeps
<1>2. r = [d EXCEPT !.bucket[e] = IF b.kind # "mitt" /\ d.buckets[i] = <<>> THEN 0 ELSE @]
  BY DEF Drop
<1> HIDE DEF d, r
<1>3. /\ d \in BusRecord /\ d.bucket \in [Events -> Nat]
      /\ \A f \in Events : d.bucket[f] <= Len(d.buckets)
      /\ \A h \in d.handles : h.bucket \in 1..Len(d.buckets)
      /\ Len(d.buckets) \in Nat
  BY <1>1 DEF BusInv, BusRecord
<1>4. /\ r \in BusRecord
      /\ r.kind = d.kind /\ r.buckets = d.buckets /\ r.emission = d.emission
      /\ r.handles = d.handles
      /\ \A f \in Events : r.bucket[f] = d.bucket[f] \/ r.bucket[f] = 0
  BY <1>2, <1>3 DEF BusRecord
<1>5. BusInv(r)
  BY <1>1, <1>3, <1>4, OtherFields
<1> QED
  BY <1>5 DEF r

LEMMA OffFromKeeps ==
    ASSUME NEW b, BusInv(b), NEW e \in Events, NEW l \in Hearers
    PROVE  BusInv(OffFrom(b, e, l))
<1>1. CASE b.bucket[e] = 0
  BY <1>1 DEF OffFrom
<1>2. CASE b.bucket[e] # 0
  <2> DEFINE d == Drop(b, e, b.bucket[e], l)
  <2>1. b.bucket[e] \in 1..Len(b.buckets)
    BY <1>2 DEF BusInv, BusRecord
  <2>2. BusInv(d)
    BY <2>1, DropKeeps
  <2> QED
    BY <1>2, <2>2 DEF OffFrom
<1> QED
  BY <1>1, <1>2

LEMMA LeaveKeeps ==
    ASSUME NEW b, BusInv(b), NEW h \in HandleRecord, h.bucket \in 1..Len(b.buckets)
    PROVE  BusInv(Leave(b, h))
<1>1. h.event \in Events /\ h.listener \in Hearers
  BY DEF HandleRecord
<1>2. CASE b.kind = "cron"
  BY <1>1, <1>2, OffFromKeeps DEF Leave
<1>3. CASE b.kind # "cron"
  BY <1>1, <1>3, DropKeeps DEF Leave
<1> QED
  BY <1>2, <1>3

LEMMA BucketIs ==
    ASSUME NEW b, BusInv(b), NEW e \in Events
    PROVE  /\ b.bucket \in [Events -> Nat] /\ b.bucket[e] \in 0..Len(b.buckets)
           /\ Listening(b, e) \in Seq(Hearers)
           /\ Singly(Listening(b, e))
<1>1. b.buckets \in Seq(Seq(Hearers)) /\ b.bucket \in [Events -> Nat]
  BY DEF BusInv, BusRecord
<1>2. b.bucket[e] \in 0..Len(b.buckets)
  <2>1. b.bucket[e] \in Nat /\ Len(b.buckets) \in Nat
    BY <1>1
  <2>2. b.bucket[e] <= Len(b.buckets)
    BY DEF BusInv
  <2> QED
    BY <2>1, <2>2
<1>3. CASE b.bucket[e] = 0
  BY <1>1, <1>2, <1>3 DEF Listening, Singly
<1>4. CASE b.bucket[e] # 0
  <2>1. b.bucket[e] \in 1..Len(b.buckets)
    BY <1>2, <1>4
  <2>2. b.buckets[b.bucket[e]] \in Seq(Hearers)
    BY <1>1, <2>1
  <2>3. Singly(b.buckets[b.bucket[e]])
    BY <2>1 DEF BusInv
  <2> QED
    BY <1>1, <1>2, <1>4, <2>2, <2>3 DEF Listening
<1> QED
  BY <1>3, <1>4

\* A listener joins the bucket of its event, and the walk of that bucket.
LEMMA AddKeeps ==
    ASSUME NEW b, BusInv(b), NEW e \in Events, NEW l \in Hearers,
           ~Contains(Listening(b, e), l),
           b.emission.todo = <<>> => b.emission.bucket = 0
    PROVE  BusInv(Add(b, e, l)) /\ Add(b, e, l).bucket[e] # 0
           /\ Add(b, e, l).handles = b.handles
<1> DEFINE old == Listening(b, e)
           i == IF b.bucket[e] = 0 THEN Len(b.buckets) + 1 ELSE b.bucket[e]
           new == Append(old, l)
           q == IF i > Len(b.buckets) THEN Append(b.buckets, new)
                ELSE [b.buckets EXCEPT ![i] = new]
           m == b.emission
           t == IF b.kind # "mitt" /\ m.bucket = i THEN Append(m.todo, l) ELSE m.todo
           n == [m EXCEPT !.todo = t]
           c == [b.bucket EXCEPT ![e] = i]
           d == Add(b, e, l)
<1>1. /\ b \in BusRecord /\ m \in EmissionRecord /\ b.buckets \in Seq(Seq(Hearers))
      /\ b.bucket \in [Events -> Nat] /\ b.bucket[e] \in 0..Len(b.buckets)
      /\ old \in Seq(Hearers) /\ Singly(old)
      /\ m.todo \in Seq(Hearers) /\ m.bucket \in 0..Len(b.buckets)
      /\ Len(b.buckets) \in Nat
  <2>1. /\ b \in BusRecord /\ m \in EmissionRecord /\ b.buckets \in Seq(Seq(Hearers))
        /\ m.bucket \in 0..Len(b.buckets)
    BY WalkIs DEF BusInv
  <2>2. m.todo \in Seq(Hearers)
    BY <2>1 DEF EmissionRecord
  <2>3. Len(b.buckets) \in Nat
    BY <2>1
  <2> QED
    BY <2>1, <2>2, <2>3, BucketIs
<1>2. i \in 1..(Len(b.buckets) + 1) /\ i \in Nat
  BY <1>1
<1>3. l \notin Range(old)
  BY <1>1 DEF Contains, Range
<1> HIDE DEF old
<1>4. new \in Seq(Hearers) /\ Singly(new)
  BY <1>1, <1>3, AppendIs
<1>5. i <= Len(b.buckets) => old = b.buckets[i] /\ i \in 1..Len(b.buckets)
  BY <1>1 DEF Listening, old
<1>6. t \in Seq(Hearers)
  BY <1>1
<1>7. /\ c \in [Events -> Nat] /\ c[e] = i
      /\ \A f \in Events : f # e => c[f] = b.bucket[f]
  BY <1>1, <1>2 DEF BusRecord
<1>8. d = [b EXCEPT !.bucket = c, !.buckets = q, !.emission = n]
  BY <1>1 DEF Add, Heeds, BusRecord, EmissionRecord, old
<1> HIDE DEF i, new, t, c
<1>9. /\ q \in Seq(Seq(Hearers))
      /\ Len(q) = IF i > Len(b.buckets) THEN Len(b.buckets) + 1 ELSE Len(b.buckets)
      /\ q[i] = new
      /\ \A j \in 1..Len(b.buckets) : j # i => q[j] = b.buckets[j]
  <2>1. CASE i > Len(b.buckets)
    <3> DEFINE bs == b.buckets
    <3>1. bs \in Seq(Seq(Hearers)) /\ i = Len(bs) + 1 /\ q = Append(bs, new)
      BY <1>1, <1>2, <2>1
    <3> HIDE DEF bs, q
    <3>2. /\ q \in Seq(Seq(Hearers)) /\ Len(q) = Len(bs) + 1
          /\ \A j \in 1..Len(bs) : q[j] = bs[j]
          /\ q[Len(bs) + 1] = new
      BY <1>4, <3>1, AppendProperties
    <3> QED
      BY <2>1, <3>1, <3>2 DEF bs
  <2>2. CASE ~(i > Len(b.buckets))
    BY <1>1, <1>2, <1>4, <2>2
  <2> QED
    BY <2>1, <2>2
<1>10. /\ n \in EmissionRecord
       /\ n.event = m.event /\ n.bucket = m.bucket /\ n.called = m.called
       /\ n.threw = m.threw /\ n.todo = t /\ n.staying = m.staying
  BY <1>1, <1>6 DEF EmissionRecord
<1> HIDE DEF q, n, d
<1>11. /\ d \in BusRecord
       /\ d.kind = b.kind /\ d.bucket = c /\ d.handles = b.handles
       /\ d.buckets = q /\ d.emission = n
  BY <1>1, <1>7, <1>8, <1>9, <1>10 DEF BusRecord
<1>12. \A f \in Events : d.bucket[f] <= Len(d.buckets)
  <2> SUFFICES ASSUME NEW f \in Events
               PROVE  c[f] <= Len(q)
    BY <1>11
  <2>1. CASE f = e
    BY <1>1, <1>2, <1>7, <1>9, <2>1
  <2>2. CASE f # e
    <3>1. b.bucket[f] \in 0..Len(b.buckets)
      BY BucketIs
    <3> QED
      BY <1>1, <1>2, <1>7, <1>9, <2>2, <3>1
  <2> QED
    BY <2>1, <2>2
<1>13. \A j \in 1..Len(d.buckets) : Singly(d.buckets[j])
  <2> SUFFICES ASSUME NEW j \in 1..Len(q)
               PROVE  Singly(q[j])
    BY <1>11
  <2>1. CASE j = i
    BY <1>4, <1>9, <2>1
  <2>2. CASE j # i
    <3>1. j \in 1..Len(b.buckets)
      BY <1>1, <1>2, <1>9, <2>2
    <3>2. Singly(b.buckets[j])
      BY <3>1 DEF BusInv
    <3> QED
      BY <1>9, <2>2, <3>1, <3>2
  <2> QED
    BY <2>1, <2>2
<1>14. \A h \in d.handles : h.bucket \in 1..Len(d.buckets)
  <2> SUFFICES ASSUME NEW h \in b.handles
               PROVE  h.bucket \in 1..Len(q)
    BY <1>11
  <2>1. h.bucket \in 1..Len(b.buckets)
    BY DEF BusInv
  <2> QED
    BY <1>1, <1>9, <2>1
<1>15. Walked(d)
  <2>1. CASE m.bucket = 0
    <3>1. t = m.todo
      BY <1>2, <2>1 DEF t
    <3> QED
      BY <1>10, <1>11, <2>1, <3>1 DEF BusInv, Walked
  <2>2. CASE m.bucket # 0 /\ m.bucket = i
    <3>1. i <= Len(b.buckets)
      BY <1>1, <2>2
    <3>2. WalkInv(b.kind, m, old)
      BY <1>5, <2>2, <3>1, WalkIs
    <3>3. n.todo = IF b.kind # "mitt" THEN Append(m.todo, l) ELSE m.todo
      BY <1>10, <2>2 DEF t
    <3>4. m.todo # <<>>
      BY <2>2
    <3>5. WalkInv(b.kind, n, Append(old, l))
      BY <1>1, <1>3, <1>10, <3>2, <3>3, <3>4, WalkGains
    <3> QED
      BY <1>9, <1>10, <1>11, <2>2, <3>5 DEF Walked, new
  <2>3. CASE m.bucket # 0 /\ m.bucket # i
    <3>1. WalkInv(b.kind, m, b.buckets[m.bucket])
      BY <2>3, WalkIs
    <3>2. d.buckets[n.bucket] = b.buckets[m.bucket]
      <4>1. m.bucket \in 1..Len(b.buckets)
        BY <1>1, <2>3
      <4> QED
        BY <1>9, <1>10, <1>11, <2>3, <4>1
    <3>3. n.todo = m.todo
      BY <1>10, <2>3 DEF t
    <3>4. WalkInv(d.kind, n, d.buckets[n.bucket])
      BY <1>10, <1>11, <3>1, <3>2, <3>3 DEF WalkInv, HeardOnce
    <3> QED
      BY <1>10, <1>11, <2>3, <3>4 DEF Walked
  <2> QED
    BY <2>1, <2>2, <2>3
<1>16. d.emission.bucket <= Len(d.buckets)
  BY <1>1, <1>9, <1>10, <1>11
<1>17. BusInv(d)
  BY <1>11, <1>12, <1>13, <1>14, <1>15, <1>16 DEF BusInv
<1>18. d.bucket[e] # 0
  BY <1>2, <1>7, <1>11
<1> QED
  BY <1>11, <1>17, <1>18 DEF d

\* What ends a walk, and what is left of it: records of an emission.
LEMMA EmissionStops ==
    ASSUME NEW w \in EmissionRecord, NEW t \in Seq(Hearers),
           NEW z, z = [w EXCEPT !.todo = t, !.threw = TRUE]
    PROVE  /\ z \in EmissionRecord
           /\ z.bucket = w.bucket /\ z.staying = w.staying /\ z.todo = t
           /\ z.threw = TRUE
<1> QED
  BY DEF EmissionRecord

Rested(m, none) ==
    [[event |-> "", bucket |-> 0, todo |-> none, called |-> none, staying |-> {},
      threw |-> FALSE] EXCEPT !.event = m.event, !.threw = m.threw]

LEMMA EmissionRests ==
    ASSUME NEW m \in EmissionRecord, NEW t \in Seq(Hearers)
    PROVE  /\ Rested(m, t) \in EmissionRecord /\ Rested(m, t).bucket = 0
           /\ Rested(m, t).todo = t /\ Rested(m, t).staying = {}
<1> DEFINE n == Rested(m, t)
<1>1. n = [event |-> m.event, bucket |-> 0, todo |-> t, called |-> t,
           staying |-> {}, threw |-> m.threw]
  <2> DEFINE o == [event |-> "", bucket |-> 0, todo |-> t, called |-> t, staying |-> {},
                   threw |-> FALSE]
  <2>1. n = [o EXCEPT !.event = m.event, !.threw = m.threw]
    BY DEF Rested
  <2>2. o = [event |-> "", bucket |-> 0, todo |-> t, called |-> t, staying |-> {},
             threw |-> FALSE]
    OBVIOUS
  <2> HIDE DEF n, o
  <2> QED
    BY <2>1, <2>2
<1>2. m.event \in Events \cup {""} /\ m.threw \in BOOLEAN
  BY DEF EmissionRecord
<1> HIDE DEF n
<1>3. n \in EmissionRecord /\ n.bucket = 0 /\ n.todo = t /\ n.staying = {}
  BY <1>1, <1>2 DEF EmissionRecord
<1> QED
  BY <1>3 DEF n

LEMMA NobodyIs == <<>> \in Seq(Hearers)
  OBVIOUS

\* An emission in which all were called is over.
LEMMA QuietKeeps ==
    ASSUME BusInv(bus)
    PROVE  /\ BusInv(Quiet)
           /\ Quiet.kind = bus.kind /\ Quiet.bucket = bus.bucket
           /\ Quiet.buckets = bus.buckets /\ Quiet.handles = bus.handles
           /\ Quiet.emission.todo = <<>> => Quiet.emission.bucket = 0
<1>1. CASE bus.emission.todo # <<>>
  BY <1>1 DEF Quiet
<1>2. CASE bus.emission.todo = <<>>
  <2> DEFINE m == bus.emission
             n == [NoEmission EXCEPT !.event = m.event, !.threw = m.threw]
             r == [bus EXCEPT !.emission = n]
  <2>1. bus \in BusRecord /\ m \in EmissionRecord
    BY WalkIs DEF BusInv
  <2>2. n \in EmissionRecord /\ n.bucket = 0 /\ n.todo = <<>> /\ n.staying = {}
    <3> DEFINE none == <<>>
    <3>1. n = Rested(m, none)
      BY DEF NoEmission, Rested
    <3>2. none \in Seq(Hearers)
      BY NobodyIs
    <3> HIDE DEF n, m, none
    <3>3. n \in EmissionRecord /\ n.bucket = 0 /\ n.todo = none /\ n.staying = {}
      BY <2>1, <3>1, <3>2, EmissionRests
    <3> QED
      BY <3>3 DEF none
  <2>3. Quiet = r
    BY <1>2 DEF Quiet
  <2> HIDE DEF n
  <2>4. /\ r \in BusRecord
        /\ r.kind = bus.kind /\ r.bucket = bus.bucket /\ r.buckets = bus.buckets
        /\ r.handles = bus.handles /\ r.emission = n
    BY <2>1, <2>2 DEF BusRecord
  <2> HIDE DEF r
  <2>5. Len(bus.buckets) \in Nat
    BY <2>1 DEF BusRecord
  <2>6. BusInv(r)
    BY <2>2, <2>4, <2>5 DEF BusInv, Walked
  <2> QED
    BY <2>2, <2>3, <2>4, <2>6
<1> QED
  BY <1>1, <1>2

LEMMA OnKeeps ==
    ASSUME BusInv(bus), NEW e \in Events, NEW l \in Hearers, On(e, l)
    PROVE  BusInv(bus')
<1> DEFINE b == Add(Quiet, e, l)
<1>1. /\ BusInv(Quiet)
      /\ Quiet.emission.todo = <<>> => Quiet.emission.bucket = 0
      /\ Quiet.bucket = bus.bucket /\ Quiet.buckets = bus.buckets
  BY QuietKeeps
<1>2. ~Contains(Listening(Quiet, e), l)
  BY <1>1 DEF On, Listening
<1>3. BusInv(b) /\ b.bucket[e] # 0
  BY <1>1, <1>2, AddKeeps
<1>4. bus' = IF b.kind = "mitt" THEN b
             ELSE [b EXCEPT !.handles = b.handles \cup {Handle(b, e, l)}]
  BY DEF On
<1> HIDE DEF b
<1>5. CASE b.kind = "mitt"
  BY <1>3, <1>4, <1>5
<1>6. CASE b.kind # "mitt"
  <2> DEFINE x == Handle(b, e, l)
             g == b.handles \cup {x}
             r == [b EXCEPT !.handles = g]
  <2>1. /\ b \in BusRecord /\ b.bucket[e] \in 1..Len(b.buckets)
        /\ b.bucket[e] \in Nat
    <3>1. b.bucket[e] \in 0..Len(b.buckets)
      BY <1>3, BucketIs
    <3> QED
      BY <1>3, <3>1 DEF BusInv
  <2>2. x \in HandleRecord /\ x.bucket = b.bucket[e]
    BY <2>1 DEF Handle, HandleRecord
  <2> HIDE DEF x
  <2>3. g \in SUBSET HandleRecord
    BY <2>1, <2>2 DEF BusRecord
  <2>4. \A h \in g : h.bucket \in 1..Len(b.buckets)
    BY <1>3, <2>1, <2>2 DEF BusInv
  <2> HIDE DEF g
  <2>5. /\ r \in BusRecord
        /\ r.kind = b.kind /\ r.bucket = b.bucket /\ r.buckets = b.buckets
        /\ r.handles = g /\ r.emission = b.emission
    BY <2>1, <2>3 DEF BusRecord
  <2>6. bus' = r
    BY <1>4, <1>6 DEF g, x
  <2> HIDE DEF r
  <2>7. \A f \in Events : r.bucket[f] <= Len(b.buckets)
    BY <1>3, <2>5 DEF BusInv
  <2>8. BusInv(r)
    BY <1>3, <2>4, <2>5, <2>7, OtherFields
  <2> QED
    BY <2>6, <2>8
<1> QED
  BY <1>5, <1>6

LEMMA OffKeeps ==
    ASSUME BusInv(bus), NEW e \in Events, NEW l \in Hearers, Off(e, l)
    PROVE  BusInv(bus')
BY QuietKeeps, OffFromKeeps DEF Off

LEMMA UnsubscribeKeeps ==
    ASSUME BusInv(bus), NEW h \in bus.handles, Unsubscribe(h)
    PROVE  BusInv(bus')
<1>1. h \in HandleRecord /\ h.bucket \in 1..Len(bus.buckets)
  BY DEF BusInv, BusRecord
<1>2. BusInv(Quiet) /\ Quiet.buckets = bus.buckets
  BY QuietKeeps
<1>3. BusInv(Leave(Quiet, h))
  BY <1>1, <1>2, LeaveKeeps
<1> QED
  BY <1>3 DEF Unsubscribe

LEMMA RemoveAllKeeps ==
    ASSUME BusInv(bus), NEW e \in Events, RemoveAll(e)
    PROVE  BusInv(bus')
<1> DEFINE b == Quiet
           m == b.emission
           k == Len(b.buckets)
           c == [b.bucket EXCEPT ![e] = IF b.kind = "mitt" THEN k + 1 ELSE 0]
           q == IF b.kind = "mitt" THEN Append(b.buckets, <<>>) ELSE b.buckets
           y == IF bus.emission.bucket = bus.bucket[e] THEN {} ELSE m.staying
           n == [m EXCEPT !.staying = y]
           r == [b EXCEPT !.bucket = c, !.buckets = q, !.emission = n]
<1>1. /\ BusInv(b)
      /\ b.kind = bus.kind /\ b.bucket = bus.bucket /\ b.buckets = bus.buckets
  BY QuietKeeps
<1>2. bus' = r
  BY <1>1 DEF RemoveAll
<1> HIDE DEF b
<1>3. /\ b \in BusRecord /\ m \in EmissionRecord /\ b.buckets \in Seq(Seq(Hearers))
      /\ k \in Nat /\ b.bucket \in [Events -> Nat] /\ m.bucket \in 0..k
      /\ m.staying \in SUBSET Hearers
  <2>1. /\ b \in BusRecord /\ m \in EmissionRecord /\ b.buckets \in Seq(Seq(Hearers))
        /\ m.bucket \in 0..k
    BY <1>1, WalkIs DEF BusInv
  <2>2. b.bucket \in [Events -> Nat]
    BY <2>1 DEF BusRecord
  <2>3. m.staying \in SUBSET Hearers
    BY <2>1 DEF EmissionRecord
  <2>4. k \in Nat
    BY <2>1
  <2> QED
    BY <2>1, <2>2, <2>3, <2>4
<1>4. /\ y \in SUBSET Hearers /\ y \subseteq m.staying
      /\ c \in [Events -> Nat]
  BY <1>3 DEF BusRecord
<1> HIDE DEF y
<1>5. /\ q \in Seq(Seq(Hearers)) /\ Len(q) \in Nat /\ k <= Len(q)
      /\ \A j \in 1..k : q[j] = b.buckets[j]
      /\ \A j \in 1..Len(q) : j \notin 1..k => q[j] = <<>>
      /\ b.kind = "mitt" => Len(q) = k + 1
  <2>1. CASE b.kind = "mitt"
    <3> DEFINE bs == b.buckets
    <3>1. bs \in Seq(Seq(Hearers)) /\ q = Append(bs, <<>>) /\ <<>> \in Seq(Hearers)
      BY <1>3, <2>1
    <3> HIDE DEF bs, q
    <3>2. /\ q \in Seq(Seq(Hearers)) /\ Len(q) = Len(bs) + 1
          /\ \A j \in 1..Len(bs) : q[j] = bs[j]
          /\ q[Len(bs) + 1] = <<>> /\ Len(bs) \in Nat
      BY <3>1, AppendProperties
    <3>3. \A j \in 1..Len(q) : j \notin 1..Len(bs) => q[j] = <<>>
      BY <3>2
    <3> QED
      BY <3>2, <3>3 DEF bs
  <2>2. CASE b.kind # "mitt"
    BY <1>3, <2>2
  <2> QED
    BY <2>1, <2>2
<1>6. \A f \in Events : c[f] <= Len(q)
  <2> SUFFICES ASSUME NEW f \in Events
               PROVE  c[f] <= Len(q)
    OBVIOUS
  <2>1. b.bucket[f] \in 0..k
    BY <1>1, BucketIs
  <2> QED
    BY <1>3, <1>5, <2>1
<1>7. /\ n \in EmissionRecord
      /\ n.event = m.event /\ n.bucket = m.bucket /\ n.called = m.called
      /\ n.threw = m.threw /\ n.todo = m.todo /\ n.staying = y
  BY <1>3, <1>4 DEF EmissionRecord
<1> HIDE DEF c, q, n
<1>8. /\ r \in BusRecord
      /\ r.kind = b.kind /\ r.bucket = c /\ r.buckets = q /\ r.emission = n
      /\ r.handles = b.handles
  BY <1>3, <1>4, <1>5, <1>7 DEF BusRecord
<1> HIDE DEF r
<1>9. \A j \in 1..Len(q) : Singly(q[j])
  <2> SUFFICES ASSUME NEW j \in 1..Len(q)
               PROVE  Singly(q[j])
    OBVIOUS
  <2>1. CASE j \in 1..k
    <3>1. Singly(b.buckets[j])
      BY <1>1, <2>1 DEF BusInv
    <3> QED
      BY <1>5, <2>1, <3>1
  <2>2. CASE j \notin 1..k
    BY <1>5, <2>2 DEF Singly
  <2> QED
    BY <2>1, <2>2
<1>10. \A h \in r.handles : h.bucket \in 1..Len(q)
  <2> SUFFICES ASSUME NEW h \in b.handles
               PROVE  h.bucket \in 1..Len(q)
    BY <1>8
  <2>1. h.bucket \in 1..k
    BY <1>1 DEF BusInv
  <2> QED
    BY <1>3, <1>5, <2>1
<1>11. Walked(r)
  <2>1. CASE m.bucket = 0
    <3>1. m.todo = <<>> /\ m.staying = {}
      BY <1>1, <2>1 DEF BusInv, Walked
    <3> QED
      BY <1>4, <1>7, <1>8, <2>1, <3>1 DEF Walked
  <2>2. CASE m.bucket # 0
    <3>1. WalkInv(b.kind, m, b.buckets[m.bucket])
      BY <1>1, <2>2, WalkIs
    <3>2. q[m.bucket] = b.buckets[m.bucket]
      <4>1. m.bucket \in 1..k
        BY <1>3, <2>2
      <4> QED
        BY <1>5, <4>1
    <3>3. WalkInv(b.kind, n, q[m.bucket])
      BY <1>4, <1>7, <3>1, <3>2 DEF WalkInv, HeardOnce
    <3> QED
      BY <1>7, <1>8, <2>2, <3>3 DEF Walked
  <2> QED
    BY <2>1, <2>2
<1>12. m.bucket <= Len(q)
  BY <1>3, <1>5
<1> QED
  BY <1>2, <1>6, <1>7, <1>8, <1>9, <1>10, <1>11, <1>12 DEF BusInv

\* One call of a listener, and what it leaves of the walk.
LEMMA CalledKeeps ==
    ASSUME NEW b, BusInv(b), b.emission.todo # <<>>, NEW throws \in BOOLEAN
    PROVE  BusInv(Called(b, throws))
<1> DEFINE m == b.emission
           e == m.event
           l == Head(m.todo)
           i == m.bucket
           t == Tail(m.todo)
           v == Append(m.called, l)
           n == [m EXCEPT !.todo = t, !.called = v]
           now == [b EXCEPT !.emission = n]
           h == [event |-> e, bucket |-> i, listener |-> l]
           left == IF l \notin Onces \/ (b.kind = "cache" /\ throws) THEN now
                   ELSE Leave(now, h)
           z == [left.emission EXCEPT !.todo = <<>>, !.threw = TRUE]
           done == [left EXCEPT !.emission = z]
<1>1. /\ b \in BusRecord /\ m \in EmissionRecord /\ i \in 1..Len(b.buckets)
      /\ b.buckets[i] \in Seq(Hearers)
      /\ WalkInv(b.kind, m, b.buckets[i])
      /\ e \in Events
      /\ Len(b.buckets) \in Nat
  <2>1. b \in BusRecord /\ i # 0
    BY DEF BusInv, Walked
  <2>2. /\ m \in EmissionRecord /\ i \in 0..Len(b.buckets)
        /\ b.buckets[i] \in Seq(Hearers)
        /\ WalkInv(b.kind, m, b.buckets[i])
    BY <2>1, WalkIs
  <2>3. Len(b.buckets) \in Nat
    BY <2>1 DEF BusRecord
  <2>4. e \in Events
    BY <2>2 DEF WalkInv
  <2> QED
    BY <2>1, <2>2, <2>3, <2>4
<1>2. m.todo \in Seq(Hearers) /\ m.called \in Seq(Hearers) /\ Singly(m.todo)
  BY <1>1 DEF EmissionRecord, WalkInv
<1>3. l \in Hearers /\ t \in Seq(Hearers) /\ v \in Seq(Hearers)
  BY <1>2, HeadIs
<1> HIDE DEF t, v, l
<1>4. /\ n \in EmissionRecord
      /\ n.event = e /\ n.bucket = i /\ n.called = v
      /\ n.threw = m.threw /\ n.todo = t /\ n.staying = m.staying
  BY <1>1, <1>3 DEF EmissionRecord
<1> HIDE DEF n
<1>5. /\ now \in BusRecord
      /\ now.kind = b.kind /\ now.bucket = b.bucket /\ now.buckets = b.buckets
      /\ now.handles = b.handles /\ now.emission = n
  BY <1>1, <1>4 DEF BusRecord
<1> HIDE DEF now
<1>6. WalkInv(b.kind, n, b.buckets[i])
  BY <1>1, <1>4, WalkCalls DEF t, v, l
<1>7. BusInv(now)
  BY <1>1, <1>4, <1>5, <1>6 DEF BusInv, Walked
<1>8. h \in HandleRecord /\ h.bucket = i
  BY <1>1, <1>3 DEF HandleRecord
<1> HIDE DEF h
<1>9. BusInv(left)
  <2>1. BusInv(Leave(now, h))
    BY <1>1, <1>5, <1>7, <1>8, LeaveKeeps
  <2> QED
    BY <1>7, <2>1
<1>10. Called(b, throws) = IF throws /\ b.kind # "cache" THEN done ELSE left
  <2>1. now = [b EXCEPT !.emission.todo = Tail(@), !.emission.called = Append(@, l)]
    BY <1>1 DEF now, n, t, v, l, BusRecord, EmissionRecord
  <2> DEFINE x == [b EXCEPT !.emission.todo = Tail(@), !.emission.called = Append(@, l)]
             y == IF l \notin Onces \/ (b.kind = "cache" /\ throws) THEN x
                  ELSE Leave(x, [event |-> e, bucket |-> i, listener |-> l])
  <2>2. Called(b, throws) = IF throws /\ b.kind # "cache"
                            THEN [y EXCEPT !.emission.todo = <<>>, !.emission.threw = TRUE]
                            ELSE y
    BY DEF Called, l
  <2>3. y = left
    BY <2>1 DEF h
  <2> HIDE DEF x, y, left
  <2>4. [left EXCEPT !.emission.todo = <<>>, !.emission.threw = TRUE] = done
    BY <1>9 DEF BusInv, BusRecord, EmissionRecord
  <2> QED
    BY <2>2, <2>3, <2>4
<1> HIDE DEF left
<1>11. BusInv(done)
  <2> DEFINE w == left.emission
  <2>1. left \in BusRecord /\ w \in EmissionRecord /\ w.bucket \in 0..Len(left.buckets)
    BY <1>9, WalkIs DEF BusInv
  <2>2. /\ z \in EmissionRecord
        /\ z.bucket = w.bucket /\ z.staying = w.staying /\ z.todo = <<>> /\ z.threw = TRUE
    BY <2>1, NobodyIs, EmissionStops
  <2> HIDE DEF z
  <2>3. /\ done \in BusRecord
        /\ done.kind = left.kind /\ done.bucket = left.bucket
        /\ done.buckets = left.buckets /\ done.handles = left.handles
        /\ done.emission = z
    BY <2>1, <2>2 DEF BusRecord
  <2> HIDE DEF done
  <2>4. Walked(done)
    <3>1. CASE w.bucket = 0
      BY <1>9, <2>2, <2>3, <3>1 DEF BusInv, Walked
    <3>2. CASE w.bucket # 0
      <4>1. /\ left.buckets[w.bucket] \in Seq(Hearers)
            /\ WalkInv(left.kind, w, left.buckets[w.bucket])
        BY <1>9, <3>2, WalkIs
      <4>2. WalkInv(left.kind, z, left.buckets[w.bucket])
        BY <2>1, <2>2, <4>1, WalkThrows
      <4> QED
        BY <2>2, <2>3, <3>2, <4>2 DEF Walked
    <3> QED
      BY <3>1, <3>2
  <2> QED
    BY <1>9, <2>2, <2>3, <2>4 DEF BusInv
<1> QED
  BY <1>9, <1>10, <1>11

LEMMA EmitKeeps ==
    ASSUME BusInv(bus), NEW e \in Events, NEW throws \in BOOLEAN, Emit(e, throws)
    PROVE  BusInv(bus')
<1> DEFINE q == Listening(bus, e)
           i == bus.bucket[e]
           n == [event |-> e, bucket |-> i, todo |-> q, called |-> <<>>,
                 staying |-> Range(q), threw |-> FALSE]
           w == [bus EXCEPT !.emission = n]
<1>1. /\ bus \in BusRecord /\ i \in 0..Len(bus.buckets) /\ q \in Seq(Hearers)
      /\ Singly(q) /\ q # <<>> /\ bus' = Called(w, throws)
      /\ i # 0 /\ q = bus.buckets[i]
  <2>1. /\ i \in 0..Len(bus.buckets) /\ q \in Seq(Hearers) /\ Singly(q)
    BY BucketIs
  <2>2. q # <<>> /\ bus' = Called(w, throws)
    BY DEF Emit, Walks
  <2>3. i # 0 /\ q = bus.buckets[i]
    BY <2>2 DEF Listening
  <2> HIDE DEF w, i, q
  <2> QED
    BY <2>1, <2>2, <2>3 DEF BusInv
<1> HIDE DEF q, i
<1>2. Range(q) \in SUBSET Hearers
  BY <1>1 DEF Range
<1>3. /\ n \in EmissionRecord
      /\ n.event = e /\ n.bucket = i /\ n.todo = q /\ n.called = <<>>
      /\ n.staying = Range(q) /\ n.threw = FALSE
  <2>1. i \in Nat
    <3>1. Len(bus.buckets) \in Nat
      BY <1>1 DEF BusRecord
    <3> HIDE DEF i
    <3> QED
      BY <1>1, <3>1
  <2> DEFINE none == <<>>
             all == Range(q)
  <2>2. none \in Seq(Hearers) /\ all \in SUBSET Hearers /\ q \in Seq(Hearers)
    BY <1>1, <1>2, NobodyIs
  <2>3. n = [event |-> e, bucket |-> i, todo |-> q, called |-> none,
             staying |-> all, threw |-> FALSE]
    OBVIOUS
  <2> HIDE DEF n, none, all
  <2>4. /\ n \in EmissionRecord
        /\ n.event = e /\ n.bucket = i /\ n.todo = q /\ n.called = none
        /\ n.staying = all /\ n.threw = FALSE
    BY <2>1, <2>2, <2>3 DEF EmissionRecord
  <2> QED
    BY <2>4 DEF none, all
<1> HIDE DEF n
<1>4. WalkInv(bus.kind, n, q)
  BY <1>1, <1>3, WalkBegins
<1>5. /\ w \in BusRecord
      /\ w.kind = bus.kind /\ w.bucket = bus.bucket /\ w.buckets = bus.buckets
      /\ w.handles = bus.handles /\ w.emission = n
  BY <1>1, <1>3 DEF BusRecord
<1> HIDE DEF w
<1>6. BusInv(w)
  BY <1>1, <1>3, <1>4, <1>5 DEF BusInv, Walked
<1>7. BusInv(Called(w, throws))
  BY <1>1, <1>3, <1>5, <1>6, CalledKeeps
<1> QED
  BY <1>1, <1>7

LEMMA BusStarts == BusInit => BusInv(bus)
<1> SUFFICES ASSUME BusInit
             PROVE  BusInv(bus)
  OBVIOUS
<1>1. PICK kind \in {"cache", "cron", "mitt"} :
          bus = [kind |-> kind, bucket |-> [e \in Events |-> 0], buckets |-> <<>>,
                 handles |-> {}, emission |-> NoEmission]
  BY DEF BusInit
<1>2. /\ NoEmission \in EmissionRecord
      /\ NoEmission.bucket = 0 /\ NoEmission.todo = <<>> /\ NoEmission.staying = {}
  BY DEF NoEmission, EmissionRecord
<1>3. /\ bus \in BusRecord
      /\ bus.kind = kind /\ bus.bucket = [e \in Events |-> 0] /\ bus.buckets = <<>>
      /\ bus.handles = {} /\ bus.emission = NoEmission
  BY <1>1, <1>2 DEF BusRecord
<1>4. Len(bus.buckets) = 0
  BY <1>3
<1> QED
  BY <1>2, <1>3, <1>4 DEF BusInv, Walked

LEMMA BusSteps == BusInv(bus) /\ [BusNext]_bus => BusInv(bus')
<1> SUFFICES ASSUME BusInv(bus), [BusNext]_bus
             PROVE  BusInv(bus')
  OBVIOUS
<1>1. ASSUME NEW e \in Events, NEW l \in Plain \cup Onces, On(e, l) \/ Off(e, l)
      PROVE  BusInv(bus')
  BY <1>1, OnKeeps, OffKeeps DEF Hearers
<1>2. ASSUME NEW e \in Events, RemoveAll(e)
      PROVE  BusInv(bus')
  BY <1>2, RemoveAllKeeps
<1>3. ASSUME NEW e \in Events, NEW throws \in BOOLEAN, Emit(e, throws)
      PROVE  BusInv(bus')
  BY <1>3, EmitKeeps
<1>4. ASSUME NEW h \in bus.handles, Unsubscribe(h)
      PROVE  BusInv(bus')
  BY <1>4, UnsubscribeKeeps
<1>5. ASSUME NEW throws \in BOOLEAN, Deliver(throws)
      PROVE  BusInv(bus')
  BY <1>5, CalledKeeps DEF Deliver
<1>6. CASE UNCHANGED bus
  BY <1>6
<1> QED
  BY <1>1, <1>2, <1>3, <1>4, <1>5, <1>6 DEF BusNext

LEMMA WalksAreHeard == BusInv(bus) => EveryoneHears
<1> DEFINE m == bus.emission
<1> SUFFICES ASSUME BusInv(bus), m.todo = <<>>, ~m.threw, NEW l \in m.staying
             PROVE  Cardinality({i \in DOMAIN m.called : m.called[i] = l}) = 1
  BY DEF EveryoneHears
<1>1. m.bucket # 0
  BY DEF BusInv, Walked
<1>2. HeardOnce(m, l) /\ m.called \in Seq(Hearers)
  BY <1>1, WalkIs DEF WalkInv, EmissionRecord
<1>3. l \notin Range(m.todo)
  BY DEF Range
<1>4. PICK i \in 1..Len(m.called) :
          \A j \in 1..Len(m.called) : m.called[j] = l <=> j = i
  BY <1>2, <1>3 DEF HeardOnce
<1>5. DOMAIN m.called = 1..Len(m.called)
  BY <1>2
<1>6. {j \in DOMAIN m.called : m.called[j] = l} = {i}
  BY <1>4, <1>5
<1>7. Cardinality({i}) = 1
  BY FS_Singleton
<1> QED
  BY <1>6, <1>7

\* Whoever is registered with an emitter when an emission starts, and stays so,
\* is called by it once, whatever the listeners do to the emitter.
THEOREM EveryoneIsHeard == BusSpec => []EveryoneHears
<1>1. BusInit => BusInv(bus)
  BY BusStarts
<1>2. BusInv(bus) /\ [BusNext]_bus => BusInv(bus)'
  BY BusSteps
<1> QED
  BY <1>1, <1>2, WalksAreHeard, PTL DEF BusSpec

----------------------------------------------------------------------------
(* Evaluator.                                                              *)
(*                                                                         *)
(* A key of the cache names expressions that callers could take for one    *)
(* another.  BuildsInv says that whatever build goes with a key, in the    *)
(* cache or in a call, is of one of those, and that a build which was      *)
(* completed was of operations the engine knew.                            *)

KeyIn(strict, x) == <<BaseKey(x), IF strict THEN x.operations ELSE "">>
Keyed == [key : {KeyIn(strict, x) : strict \in BOOLEAN, x \in Expressions}, build : Nat]
Build ==
    [operations : {x.operations : x \in Expressions}, works : BOOLEAN,
     state : {"pending", "built", "rejected"}]
EvaluatorCall ==
    [expression : Expressions, build : Nat,
     state : {"racing", "answered", "failed", "late"}]
EvaluatorRecord ==
    [strict : BOOLEAN, known : BOOLEAN, cache : Seq(Keyed), builds : Seq(Build),
     calls : Seq(EvaluatorCall)]

\* The build b is of an expression that goes by the key.
IsOf(e, key, b) ==
    /\ b \in 1..Len(e.builds)
    /\ \E x \in Expressions :
        x.operations = e.builds[b].operations /\ KeyIn(e.strict, x) = key

CacheIsOf(e) == \A i \in 1..Len(e.cache) : IsOf(e, e.cache[i].key, e.cache[i].build)
CallsAreOf(e) ==
    \A c \in 1..Len(e.calls) :
        LET call == e.calls[c]
        IN  /\ IsOf(e, KeyIn(e.strict, call.expression), call.build)
            /\ call.state = "answered" => e.builds[call.build].state = "built"
BuildsWork(e) ==
    \A b \in 1..Len(e.builds) :
        /\ e.builds[b].state = "built" => e.builds[b].works
        /\ e.builds[b].works => e.builds[b].operations \notin Unknown \/ e.known

BuildsInv(e) ==
    /\ e \in EvaluatorRecord
    /\ CacheIsOf(e) /\ CallsAreOf(e) /\ BuildsWork(e)

\* Builds that are added, and builds that go on, change no operations.
Extends(d, e) ==
    /\ d.strict = e.strict /\ (e.known => d.known)
    /\ Len(d.builds) \in Nat /\ Len(e.builds) \in Nat /\ Len(e.builds) <= Len(d.builds)
    /\ \A b \in 1..Len(e.builds) :
        /\ d.builds[b].operations = e.builds[b].operations
        /\ e.builds[b].state = "built" => d.builds[b].state = "built"

LEMMA IsOfStays ==
    ASSUME NEW d, NEW e, Extends(d, e), NEW key, NEW b, IsOf(e, key, b)
    PROVE  IsOf(d, key, b)
BY DEF IsOf, Extends

LEMMA CallsStay ==
    ASSUME NEW d, NEW e, Extends(d, e), d.calls = e.calls, CallsAreOf(e)
    PROVE  CallsAreOf(d)
<1> SUFFICES ASSUME NEW c \in 1..Len(d.calls)
             PROVE  /\ IsOf(d, KeyIn(d.strict, d.calls[c].expression), d.calls[c].build)
                    /\ d.calls[c].state = "answered" =>
                          d.builds[d.calls[c].build].state = "built"
  BY DEF CallsAreOf
<1>1. /\ IsOf(e, KeyIn(e.strict, e.calls[c].expression), e.calls[c].build)
      /\ e.calls[c].state = "answered" => e.builds[e.calls[c].build].state = "built"
  BY DEF CallsAreOf
<1>2. IsOf(d, KeyIn(e.strict, e.calls[c].expression), e.calls[c].build)
  BY <1>1, IsOfStays
<1> QED
  BY <1>1, <1>2 DEF IsOf, Extends

LEMMA CacheStays ==
    ASSUME NEW d, NEW e, Extends(d, e), d.cache = e.cache, CacheIsOf(e)
    PROVE  CacheIsOf(d)
BY IsOfStays DEF CacheIsOf

\* A removed entry leaves only entries that were there.
LEMMA RemoveAtKeeps ==
    ASSUME NEW S, NEW s \in Seq(S), NEW i \in 1..Len(s)
    PROVE  /\ RemoveAt(s, i) \in Seq(S)
           /\ \A j \in 1..Len(RemoveAt(s, i)) :
                 \E k \in 1..Len(s) : RemoveAt(s, i)[j] = s[k]
<1> DEFINE a == SubSeq(s, 1, i - 1)
           z == SubSeq(s, i + 1, Len(s))
<1>1. /\ a \in Seq(S) /\ Len(a) = i - 1 /\ \A j \in 1..(i - 1) : a[j] = s[j]
  OBVIOUS
<1>2. /\ z \in Seq(S) /\ Len(z) = Len(s) - i
      /\ \A j \in 1..(Len(s) - i) : z[j] = s[i + j]
  OBVIOUS
<1>3. RemoveAt(s, i) = a \o z
  BY DEF RemoveAt
<1>4. Len(s) \in Nat
  OBVIOUS
<1> HIDE DEF a, z
<1>5. /\ a \o z \in Seq(S) /\ Len(a \o z) = Len(s) - 1
      /\ \A j \in 1..(Len(s) - 1) :
            (a \o z)[j] = IF j <= i - 1 THEN a[j] ELSE z[j - (i - 1)]
  <2>1. /\ a \o z \in Seq(S) /\ Len(a \o z) = Len(a) + Len(z)
        /\ \A j \in 1..(Len(a) + Len(z)) :
              (a \o z)[j] = IF j <= Len(a) THEN a[j] ELSE z[j - Len(a)]
    BY <1>1, <1>2, ConcatProperties
  <2>2. Len(a) + Len(z) = Len(s) - 1
    BY <1>1, <1>2, <1>4
  <2> QED
    BY <1>1, <2>1, <2>2
<1>6. ASSUME NEW j \in 1..(Len(s) - 1)
      PROVE  \E k \in 1..Len(s) : (a \o z)[j] = s[k]
  <2>1. CASE j <= i - 1
    BY <1>1, <1>4, <1>5, <2>1
  <2>2. CASE ~(j <= i - 1)
    <3>1. z[j - (i - 1)] = s[j + 1] /\ j + 1 \in 1..Len(s)
      BY <1>2, <1>4, <2>2
    <3> QED
      BY <1>5, <2>2, <3>1
  <2> QED
    BY <2>1, <2>2
<1> QED
  BY <1>3, <1>5, <1>6

\* What compile() keeps of the cache, behind the entry it puts in front.
Kept(x, s, n) ==
    LET t == <<x>> \o s
    IN  SubSeq(t, 1, IF Len(t) < n THEN Len(t) ELSE n)

MadeOf(r, x, s) ==
    \A j \in 1..Len(r) : r[j] = x \/ \E k \in 1..Len(s) : r[j] = s[k]

LEMMA KeptIs ==
    ASSUME NEW S, NEW s \in Seq(S), NEW x \in S, NEW n \in Nat
    PROVE  Kept(x, s, n) \in Seq(S) /\ MadeOf(Kept(x, s, n), x, s)
<1> DEFINE r == Kept(x, s, n)
           t == <<x>> \o s
           m == IF Len(t) < n THEN Len(t) ELSE n
<1>1. /\ t \in Seq(S) /\ Len(t) = Len(s) + 1 /\ Len(s) \in Nat
      /\ \A j \in 1..Len(t) : t[j] = IF j = 1 THEN x ELSE s[j - 1]
  OBVIOUS
<1>2. r = SubSeq(t, 1, m)
  BY DEF Kept
<1> HIDE DEF t, r
<1>3. m \in Nat /\ m <= Len(t)
  BY <1>1
<1> HIDE DEF m
<1>4. /\ r \in Seq(S) /\ Len(r) = m /\ \A j \in 1..m : r[j] = t[j]
  BY <1>1, <1>2, <1>3
<1>5. ASSUME NEW j \in 1..Len(r), r[j] # x
      PROVE  \E k \in 1..Len(s) : r[j] = s[k]
  <2>1. j \in 1..Len(t) /\ r[j] = t[j]
    BY <1>1, <1>3, <1>4
  <2>2. j # 1 /\ t[j] = s[j - 1]
    BY <1>1, <1>5, <2>1
  <2>3. j - 1 \in 1..Len(s)
    BY <1>1, <2>1, <2>2
  <2> QED
    BY <2>1, <2>2, <2>3
<1> QED
  BY <1>4, <1>5 DEF r, MadeOf

\* compile() of an expression: the build it returns is of the expression's key.
LEMMA CompileKeeps ==
    ASSUME BuildsInv(evaluator), NEW x \in Expressions
    PROVE  LET c == Compile(x)
           IN  /\ BuildsInv(c.ev)
               /\ c.ev.calls = evaluator.calls /\ c.ev.strict = evaluator.strict
               /\ IsOf(c.ev, KeyIn(c.ev.strict, x), c.build)
<1> DEFINE e == evaluator
           key == CacheKey(x)
           hits == {i \in DOMAIN e.cache : e.cache[i].key = key}
           hit == CHOOSE i \in hits : TRUE
           others == IF hits = {} THEN e.cache ELSE RemoveAt(e.cache, hit)
           new == Len(e.builds) + 1
           build == IF hits = {} THEN new ELSE e.cache[hit].build
           entry == [key |-> key, build |-> build]
           kept == <<entry>> \o others
           made == [operations |-> x.operations, works |-> CanBuild(x.operations),
                    state |-> "pending"]
           rest == SubSeq(kept, 1, IF Len(kept) < MaxCompiled THEN Len(kept)
                                   ELSE MaxCompiled)
           builds == IF hits # {} THEN e.builds ELSE Append(e.builds, made)
           d == [e EXCEPT !.cache = rest, !.builds = builds]
<1>1. Compile(x) = [ev |-> d, build |-> build]
  BY DEF Compile
<1>2. /\ e \in EvaluatorRecord /\ CacheIsOf(e) /\ CallsAreOf(e) /\ BuildsWork(e)
      /\ e.cache \in Seq(Keyed) /\ e.builds \in Seq(Build) /\ e.strict \in BOOLEAN
      /\ e.known \in BOOLEAN
  BY DEF BuildsInv, EvaluatorRecord
<1>3. key = KeyIn(e.strict, x)
  BY DEF CacheKey, KeyIn
<1>4. made \in Build /\ made.operations = x.operations /\ made.state = "pending"
      /\ (made.works => x.operations \notin Unknown \/ e.known)
  BY <1>2 DEF Build, CanBuild
<1>5. hits # {} => hit \in 1..Len(e.cache) /\ e.cache[hit].key = key
  BY <1>2
<1> HIDE DEF hit, made, key
<1>6. /\ builds \in Seq(Build) /\ Len(e.builds) \in Nat /\ Len(e.builds) <= Len(builds)
      /\ Len(builds) \in Nat
      /\ \A b \in 1..Len(e.builds) : builds[b] = e.builds[b]
      /\ hits = {} => new \in 1..Len(builds) /\ builds[new] = made
      /\ \A b \in 1..Len(builds) : b \in 1..Len(e.builds) \/ builds[b] = made
  BY <1>2, <1>4
<1>7. /\ others \in Seq(Keyed)
      /\ \A j \in 1..Len(others) : \E k \in 1..Len(e.cache) : others[j] = e.cache[k]
  <2>1. CASE hits = {}
    BY <1>2, <2>1
  <2>2. CASE hits # {}
    BY <1>2, <1>5, <2>2, RemoveAtKeeps
  <2> QED
    BY <2>1, <2>2
<1>8. build \in Nat
  <2>1. CASE hits = {}
    BY <1>6, <2>1
  <2>2. CASE hits # {}
    <3>1. e.cache[hit] \in Keyed
      BY <1>2, <1>5, <2>2
    <3> QED
      BY <2>2, <3>1 DEF Keyed
  <2> QED
    BY <2>1, <2>2
<1>9. entry \in Keyed /\ entry.key = key /\ entry.build = build
  BY <1>2, <1>3, <1>8 DEF Keyed
<1> HIDE DEF entry, others
<1>10. /\ rest \in Seq(Keyed)
       /\ \A j \in 1..Len(rest) :
             rest[j] = entry \/ \E k \in 1..Len(e.cache) : rest[j] = e.cache[k]
  <2>1. rest \in Seq(Keyed) /\ MadeOf(rest, entry, others)
    <3>1. MaxCompiled \in Nat
      BY EvaluatorAssumption
    <3> HIDE DEF rest
    <3>2. rest = Kept(entry, others, MaxCompiled)
      BY DEF rest, Kept
    <3> QED
      BY <1>7, <1>9, <3>1, <3>2, KeptIs
  <2> HIDE DEF rest
  <2>2. ASSUME NEW j \in 1..Len(rest), rest[j] # entry
        PROVE  \E k \in 1..Len(e.cache) : rest[j] = e.cache[k]
    <3>1. PICK i \in 1..Len(others) : rest[j] = others[i]
      BY <2>1, <2>2 DEF MadeOf
    <3> QED
      BY <1>7, <3>1
  <2> QED
    BY <2>1, <2>2
<1> HIDE DEF rest, builds
<1>11. /\ d \in EvaluatorRecord /\ d.strict = e.strict /\ d.known = e.known
       /\ d.cache = rest /\ d.builds = builds /\ d.calls = e.calls
  BY <1>2, <1>6, <1>10 DEF EvaluatorRecord
<1> HIDE DEF d
<1>12. Extends(d, e)
  BY <1>6, <1>11 DEF Extends
<1>13. IsOf(d, key, build)
  <2>1. CASE hits = {}
    BY <1>3, <1>4, <1>6, <1>11, <2>1 DEF IsOf
  <2>2. CASE hits # {}
    <3>1. IsOf(e, key, build)
      BY <1>2, <1>5, <2>2 DEF CacheIsOf
    <3> HIDE DEF build
    <3> QED
      BY <1>12, <3>1, IsOfStays
  <2> QED
    BY <2>1, <2>2
<1> HIDE DEF build, hits, new
<1>14. CacheIsOf(d)
  <2> SUFFICES ASSUME NEW j \in 1..Len(d.cache)
               PROVE  IsOf(d, d.cache[j].key, d.cache[j].build)
    BY DEF CacheIsOf
  <2>1. CASE rest[j] = entry
    BY <1>9, <1>11, <1>13, <2>1
  <2>2. CASE \E k \in 1..Len(e.cache) : rest[j] = e.cache[k]
    <3>1. PICK k \in 1..Len(e.cache) : rest[j] = e.cache[k]
      BY <2>2
    <3>2. IsOf(e, e.cache[k].key, e.cache[k].build)
      BY <1>2 DEF CacheIsOf
    <3> QED
      BY <1>11, <1>12, <3>1, <3>2, IsOfStays
  <2> QED
    BY <1>10, <1>11, <2>1, <2>2
<1>15. CallsAreOf(d)
  BY <1>2, <1>11, <1>12, CallsStay
<1>16. BuildsWork(d)
  <2> SUFFICES ASSUME NEW b \in 1..Len(builds)
               PROVE  /\ builds[b].state = "built" => builds[b].works
                      /\ builds[b].works => builds[b].operations \notin Unknown \/ e.known
    BY <1>11 DEF BuildsWork
  <2>1. CASE b \in 1..Len(e.builds)
    BY <1>2, <1>6, <2>1 DEF BuildsWork
  <2>2. CASE builds[b] = made
    BY <1>4, <2>2
  <2> QED
    BY <1>6, <2>1, <2>2
<1> HIDE DEF e
<1>17. BuildsInv(d)
  BY <1>11, <1>14, <1>15, <1>16 DEF BuildsInv
<1> QED
  BY <1>1, <1>3, <1>11, <1>13, <1>17 DEF e

LEMMA EvaluateKeeps ==
    ASSUME BuildsInv(evaluator), NEW x \in Expressions, Evaluate(x)
    PROVE  BuildsInv(evaluator')
<1> DEFINE c == Compile(x)
           d == c.ev
           call == [expression |-> x, build |-> c.build, state |-> "racing"]
           calls == Append(d.calls, call)
           r == [d EXCEPT !.calls = calls]
<1>1. evaluator' = r
  BY DEF Evaluate
<1>2. BuildsInv(d) /\ IsOf(d, KeyIn(d.strict, x), c.build)
  BY CompileKeeps
<1> HIDE DEF c, d
<1>3. d \in EvaluatorRecord /\ d.calls \in Seq(EvaluatorCall) /\ c.build \in Nat
  BY <1>2 DEF BuildsInv, EvaluatorRecord, IsOf
<1>4. call \in EvaluatorCall /\ call.expression = x /\ call.build = c.build
      /\ call.state = "racing"
  BY <1>3 DEF EvaluatorCall
<1> HIDE DEF call
<1>5. /\ calls \in Seq(EvaluatorCall) /\ Len(calls) = Len(d.calls) + 1
      /\ Len(d.calls) \in Nat
      /\ \A i \in 1..Len(calls) : calls[i] = call \/ i \in 1..Len(d.calls)
      /\ \A i \in 1..Len(d.calls) : calls[i] = d.calls[i]
  BY <1>3, <1>4
<1> HIDE DEF calls
<1>6. /\ r \in EvaluatorRecord /\ r.strict = d.strict /\ r.known = d.known
      /\ r.cache = d.cache /\ r.builds = d.builds /\ r.calls = calls
  BY <1>3, <1>5 DEF EvaluatorRecord
<1> HIDE DEF r
<1>7. CallsAreOf(r)
  <2> SUFFICES ASSUME NEW i \in 1..Len(r.calls)
               PROVE  /\ IsOf(r, KeyIn(r.strict, r.calls[i].expression), r.calls[i].build)
                      /\ r.calls[i].state = "answered" =>
                            r.builds[r.calls[i].build].state = "built"
    BY DEF CallsAreOf
  <2>1. CASE r.calls[i] = call
    BY <1>2, <1>4, <1>6, <2>1 DEF IsOf
  <2>2. CASE i \in 1..Len(d.calls)
    <3>1. r.calls[i] = d.calls[i]
      BY <1>5, <1>6, <2>2
    <3>2. /\ IsOf(d, KeyIn(d.strict, d.calls[i].expression), d.calls[i].build)
          /\ d.calls[i].state = "answered" => d.builds[d.calls[i].build].state = "built"
      BY <1>2, <2>2 DEF BuildsInv, CallsAreOf
    <3> QED
      BY <1>6, <3>1, <3>2 DEF IsOf
  <2> QED
    BY <1>5, <1>6, <2>1, <2>2
<1>8. CacheIsOf(r) /\ BuildsWork(r)
  BY <1>2, <1>6 DEF BuildsInv, CacheIsOf, BuildsWork, IsOf
<1> QED
  BY <1>1, <1>6, <1>7, <1>8 DEF BuildsInv

LEMMA PrecompileKeeps ==
    ASSUME BuildsInv(evaluator), NEW x \in Expressions, Precompile(x)
    PROVE  BuildsInv(evaluator')
BY CompileKeeps DEF Precompile

LEMMA EngineBuildsKeeps ==
    ASSUME BuildsInv(evaluator), NEW b \in 1..Len(evaluator.builds), EngineBuilds(b)
    PROVE  BuildsInv(evaluator')
<1> DEFINE e == evaluator
           old == e.builds[b]
           made == [old EXCEPT !.state = IF old.works THEN "built" ELSE "rejected"]
           builds == [e.builds EXCEPT ![b] = made]
           r == [e EXCEPT !.builds = builds]
<1>1. evaluator' = r /\ old.state = "pending"
  BY DEF EngineBuilds
<1>2. e \in EvaluatorRecord /\ e.builds \in Seq(Build) /\ old \in Build
  BY DEF BuildsInv, EvaluatorRecord
<1>3. /\ made \in Build /\ made.operations = old.operations /\ made.works = old.works
      /\ (made.state = "built" => made.works)
  BY <1>2 DEF Build
<1> HIDE DEF made
<1>4. /\ builds \in Seq(Build) /\ Len(builds) = Len(e.builds) /\ Len(builds) \in Nat
      /\ builds[b] = made
      /\ \A i \in 1..Len(builds) : i # b => builds[i] = e.builds[i]
  BY <1>2, <1>3
<1> HIDE DEF builds
<1>5. /\ r \in EvaluatorRecord /\ r.strict = e.strict /\ r.known = e.known
      /\ r.cache = e.cache /\ r.builds = builds /\ r.calls = e.calls
  BY <1>2, <1>4 DEF EvaluatorRecord
<1> HIDE DEF r, old
<1>6. Extends(r, e)
  BY <1>1, <1>3, <1>4, <1>5 DEF Extends, old
<1>7. CacheIsOf(e) /\ CallsAreOf(e) /\ BuildsWork(e)
  BY DEF BuildsInv
<1>8. CacheIsOf(r) /\ CallsAreOf(r)
  BY <1>5, <1>6, <1>7, CallsStay, CacheStays
<1>9. BuildsWork(r)
  BY <1>3, <1>4, <1>5, <1>7 DEF BuildsWork, old
<1> QED
  BY <1>1, <1>5, <1>8, <1>9 DEF BuildsInv

\* A race that ends, by the build or by the timer.
CallLike(s, t, c, state) ==
    /\ t \in Seq(EvaluatorCall) /\ Len(t) = Len(s)
    /\ \A i \in 1..Len(s) :
        /\ t[i].expression = s[i].expression /\ t[i].build = s[i].build
        /\ t[i].state = s[i].state \/ (i = c /\ t[i].state = state)

LEMMA CallEnds ==
    ASSUME NEW s \in Seq(EvaluatorCall), NEW c \in 1..Len(s),
           NEW state \in {"answered", "failed", "late"}
    PROVE  CallLike(s, [s EXCEPT ![c].state = state], c, state)
<1> DEFINE call == [s[c] EXCEPT !.state = state]
           t == [s EXCEPT ![c] = call]
<1>1. /\ s[c] \in EvaluatorCall
      /\ [s EXCEPT ![c].state = state] = t
  OBVIOUS
<1>2. /\ call \in EvaluatorCall /\ call.expression = s[c].expression
      /\ call.build = s[c].build /\ call.state = state
  BY <1>1 DEF EvaluatorCall
<1> HIDE DEF call
<1>3. /\ t \in Seq(EvaluatorCall) /\ Len(t) = Len(s) /\ t[c] = call
      /\ \A i \in 1..Len(s) : i # c => t[i] = s[i]
  BY <1>2
<1> HIDE DEF t
<1>4. CallLike(s, t, c, state)
  BY <1>2, <1>3 DEF CallLike
<1> QED
  BY <1>1, <1>4

LEMMA CallsEnd ==
    ASSUME NEW e, BuildsInv(e), NEW t \in Seq(EvaluatorCall), Len(t) = Len(e.calls),
           \A i \in 1..Len(t) :
              /\ t[i].expression = e.calls[i].expression /\ t[i].build = e.calls[i].build
              /\ t[i].state = "answered" => e.builds[t[i].build].state = "built"
    PROVE  BuildsInv([e EXCEPT !.calls = t])
<1> DEFINE r == [e EXCEPT !.calls = t]
<1>1. e \in EvaluatorRecord /\ CacheIsOf(e) /\ CallsAreOf(e) /\ BuildsWork(e)
  BY DEF BuildsInv
<1>2. /\ r \in EvaluatorRecord /\ r.strict = e.strict /\ r.known = e.known
      /\ r.cache = e.cache /\ r.builds = e.builds /\ r.calls = t
  BY <1>1 DEF EvaluatorRecord
<1> HIDE DEF r
<1>3. CallsAreOf(r)
  <2> SUFFICES ASSUME NEW i \in 1..Len(t)
               PROVE  /\ IsOf(r, KeyIn(r.strict, t[i].expression), t[i].build)
                      /\ t[i].state = "answered" => r.builds[t[i].build].state = "built"
    BY <1>2 DEF CallsAreOf
  <2>1. IsOf(e, KeyIn(e.strict, e.calls[i].expression), e.calls[i].build)
    BY <1>1 DEF CallsAreOf
  <2> QED
    BY <1>2, <2>1 DEF IsOf
<1>4. CacheIsOf(r) /\ BuildsWork(r)
  BY <1>1, <1>2 DEF CacheIsOf, BuildsWork, IsOf
<1>5. BuildsInv(r)
  BY <1>2, <1>3, <1>4 DEF BuildsInv
<1> QED
  BY <1>5 DEF r

LEMMA RaceKeeps ==
    ASSUME BuildsInv(evaluator), NEW c \in 1..Len(evaluator.calls),
           NEW state \in {"answered", "failed", "late"},
           state = "answered" =>
              evaluator.builds[evaluator.calls[c].build].state = "built",
           evaluator' = [evaluator EXCEPT !.calls[c].state = state]
    PROVE  BuildsInv(evaluator')
<1> DEFINE e == evaluator
           t == [e.calls EXCEPT ![c].state = state]
<1>1. e.calls \in Seq(EvaluatorCall) /\ e \in EvaluatorRecord
  BY DEF BuildsInv, EvaluatorRecord
<1>2. evaluator' = [e EXCEPT !.calls = t]
  BY <1>1 DEF EvaluatorRecord
<1>3. CallLike(e.calls, t, c, state)
  BY <1>1, CallEnds
<1> HIDE DEF t
<1>4. ASSUME NEW i \in 1..Len(t), t[i].state = "answered"
      PROVE  e.builds[t[i].build].state = "built"
  BY <1>3, <1>4 DEF BuildsInv, CallsAreOf, CallLike
<1> HIDE DEF e
<1>5. BuildsInv([e EXCEPT !.calls = t])
  <2>1. BuildsInv(e)
    BY DEF e
  <2> QED
    BY <1>3, <1>4, <2>1, CallsEnd DEF CallLike
<1> QED
  BY <1>2, <1>5

\* A cleared cache, and an operator that the engine learns.
LEMMA RestKeeps ==
    ASSUME BuildsInv(evaluator), ClearCache \/ AddKeyword
    PROVE  BuildsInv(evaluator')
<1> DEFINE e == evaluator
           d == evaluator'
<1>1. /\ e \in EvaluatorRecord /\ Len(e.builds) \in Nat
      /\ CacheIsOf(e) /\ CallsAreOf(e) /\ BuildsWork(e)
  BY DEF BuildsInv, EvaluatorRecord
<1>2. /\ d \in EvaluatorRecord /\ d.strict = e.strict /\ (e.known => d.known)
      /\ d.cache = e.cache \/ d.cache = <<>>
      /\ d.builds = e.builds /\ d.calls = e.calls
  <2>1. CASE ClearCache
    <3>1. d = [e EXCEPT !.cache = <<>>]
      BY <2>1 DEF ClearCache
    <3>2. <<>> \in Seq(Keyed)
      OBVIOUS
    <3> HIDE DEF e, d
    <3> QED
      BY <1>1, <3>1, <3>2 DEF EvaluatorRecord
  <2>2. CASE AddKeyword
    <3>1. d = [e EXCEPT !.known = TRUE]
      BY <2>2 DEF AddKeyword
    <3> HIDE DEF e, d
    <3> QED
      BY <1>1, <3>1 DEF EvaluatorRecord
  <2> QED
    BY <2>1, <2>2
<1> HIDE DEF e, d
<1>3. Extends(d, e)
  BY <1>1, <1>2 DEF Extends
<1>4. CallsAreOf(d)
  BY <1>1, <1>2, <1>3, CallsStay
<1>5. CacheIsOf(d)
  <2>1. CASE d.cache = e.cache
    BY <1>1, <1>3, <2>1, CacheStays
  <2>2. CASE d.cache = <<>>
    BY <2>2 DEF CacheIsOf
  <2> QED
    BY <1>2, <2>1, <2>2
<1>6. BuildsWork(d)
  BY <1>1, <1>2 DEF BuildsWork
<1> QED
  BY <1>2, <1>4, <1>5, <1>6 DEF BuildsInv, d

LEMMA EvaluatorStarts == EvaluatorInit => BuildsInv(evaluator)
<1> SUFFICES ASSUME EvaluatorInit
             PROVE  BuildsInv(evaluator)
  OBVIOUS
<1>1. PICK strict \in BOOLEAN :
          evaluator = [strict |-> strict, known |-> FALSE, cache |-> <<>>,
                       builds |-> <<>>, calls |-> <<>>]
  BY DEF EvaluatorInit
<1>2. <<>> \in Seq(Keyed) /\ <<>> \in Seq(Build) /\ <<>> \in Seq(EvaluatorCall)
  OBVIOUS
<1>3. /\ evaluator \in EvaluatorRecord
      /\ evaluator.cache = <<>> /\ evaluator.builds = <<>> /\ evaluator.calls = <<>>
  BY <1>1, <1>2 DEF EvaluatorRecord
<1>4. Len(<<>>) = 0
  OBVIOUS
<1> QED
  BY <1>3, <1>4 DEF BuildsInv, CacheIsOf, CallsAreOf, BuildsWork

LEMMA EvaluatorSteps ==
    BuildsInv(evaluator) /\ [EvaluatorNext]_evaluator => BuildsInv(evaluator')
<1> SUFFICES ASSUME BuildsInv(evaluator), [EvaluatorNext]_evaluator
             PROVE  BuildsInv(evaluator')
  OBVIOUS
<1>1. /\ DOMAIN evaluator.builds = 1..Len(evaluator.builds)
      /\ DOMAIN evaluator.calls = 1..Len(evaluator.calls)
  BY DEF BuildsInv, EvaluatorRecord
<1>2. ASSUME NEW x \in Expressions, Evaluate(x) \/ Precompile(x)
      PROVE  BuildsInv(evaluator')
  BY <1>2, EvaluateKeeps, PrecompileKeeps
<1>3. ASSUME NEW b \in DOMAIN evaluator.builds, EngineBuilds(b)
      PROVE  BuildsInv(evaluator')
  BY <1>1, <1>3, EngineBuildsKeeps
<1>4. ASSUME NEW c \in DOMAIN evaluator.calls, BuildWins(c)
      PROVE  BuildsInv(evaluator')
  <2> DEFINE state == IF evaluator.builds[evaluator.calls[c].build].state = "built"
                      THEN "answered" ELSE "failed"
  <2>1. evaluator' = [evaluator EXCEPT !.calls[c].state = state]
    BY <1>4 DEF BuildWins
  <2>2. /\ state \in {"answered", "failed", "late"}
        /\ state = "answered" =>
              evaluator.builds[evaluator.calls[c].build].state = "built"
    OBVIOUS
  <2> HIDE DEF state
  <2> QED
    BY <1>1, <2>1, <2>2, RaceKeeps
<1>5. ASSUME NEW c \in DOMAIN evaluator.calls, TimesOut(c)
      PROVE  BuildsInv(evaluator')
  <2>1. evaluator' = [evaluator EXCEPT !.calls[c].state = "late"]
    BY <1>5 DEF TimesOut
  <2> QED
    BY <1>1, <2>1, RaceKeeps
<1>6. CASE ClearCache \/ AddKeyword
  BY <1>6, RestKeeps
<1>7. CASE UNCHANGED evaluator
  BY <1>7
<1> QED
  BY <1>2, <1>3, <1>4, <1>5, <1>6, <1>7 DEF EvaluatorNext

LEMMA BuildsAnswer ==
    ASSUME KeysDiffer, BuildsInv(evaluator)
    PROVE  AnswersAreOwn
<1> DEFINE e == evaluator
<1> SUFFICES ASSUME NEW c \in DOMAIN e.calls, e.calls[c].state = "answered"
             PROVE  LET call == e.calls[c]
                        built == e.builds[call.build].operations
                    IN  /\ built \notin Unknown \/ e.known
                        /\ \E x \in Expressions :
                            /\ x.operations = built
                            /\ x.id = call.expression.id
                            /\ x.version = call.expression.version
                            /\ e.strict => x = call.expression
  BY DEF AnswersAreOwn
<1> DEFINE call == e.calls[c]
           y == call.expression
           b == call.build
<1>1. e.calls \in Seq(EvaluatorCall) /\ c \in 1..Len(e.calls) /\ y \in Expressions
  <2>1. e.calls \in Seq(EvaluatorCall)
    BY DEF BuildsInv, EvaluatorRecord
  <2> HIDE DEF e
  <2>2. c \in 1..Len(e.calls)
    BY <2>1
  <2>3. call \in EvaluatorCall
    BY <2>1, <2>2
  <2>4. y \in Expressions
    BY <2>3 DEF EvaluatorCall
  <2> QED
    BY <2>1, <2>2, <2>4
<1>2. IsOf(e, KeyIn(e.strict, y), b) /\ e.builds[b].state = "built"
  BY <1>1 DEF BuildsInv, CallsAreOf
<1>3. e.builds[b].operations \notin Unknown \/ e.known
  BY <1>2 DEF BuildsInv, BuildsWork, IsOf
<1>4. PICK x \in Expressions :
          x.operations = e.builds[b].operations /\ KeyIn(e.strict, x) = KeyIn(e.strict, y)
  BY <1>2 DEF IsOf
<1>5. BaseKey(x) = BaseKey(y) /\ (e.strict => x.operations = y.operations)
  BY <1>4 DEF KeyIn
<1>6. x.id = y.id /\ x.version = y.version
  BY <1>1, <1>5 DEF KeysDiffer
<1>7. e.strict => x = y
  <2>1. /\ x = [id |-> x.id, version |-> x.version, operations |-> x.operations]
        /\ y = [id |-> y.id, version |-> y.version, operations |-> y.operations]
    BY <1>1, EvaluatorAssumption
  <2> QED
    BY <1>5, <1>6, <2>1
<1> QED
  BY <1>3, <1>4, <1>6, <1>7

\* A call of the evaluator is answered by the function of an expression with
\* its id and version, in strict mode by its own, whatever is compiled, cached,
\* cleared and learned meanwhile, if ids and versions make different keys.
THEOREM AnswersStayOwn ==
    ASSUME KeysDiffer
    PROVE  EvaluatorSpec => []AnswersAreOwn
<1>1. EvaluatorInit => BuildsInv(evaluator)
  BY EvaluatorStarts
<1>2. BuildsInv(evaluator) /\ [EvaluatorNext]_evaluator => BuildsInv(evaluator)'
  BY EvaluatorSteps
<1>3. BuildsInv(evaluator) => AnswersAreOwn
  BY BuildsAnswer
<1> QED
  BY <1>1, <1>2, <1>3, PTL DEF EvaluatorSpec

----------------------------------------------------------------------------
(* LruTtlCache.                                                            *)
(*                                                                         *)
(* A sweep and an eviction are loops, written as functions of the turn.    *)
(* Such a function exists, as a loop that stays among some states can be   *)
(* run any number of times; then it is the loop, and what a turn keeps it  *)
(* keeps.  What a turn keeps is that the cache is sound and that it is the *)
(* old one without some keys: in a sweep expired ones, in evict() the      *)
(* oldest, none of which fits with all that are newer.                     *)

\* A set of the first naturals that holds 0 and what follows each of its
\* members holds them all.
LEMMA CountUp ==
    ASSUME NEW n \in Nat, NEW P, 0 \in P, \A i \in 1..n : i - 1 \in P => i \in P
    PROVE  \A i \in 0..n : i \in P
<1> DEFINE S == {i \in 0..n : i \notin P}
<1> SUFFICES ASSUME S # {} PROVE FALSE
  OBVIOUS
<1> DEFINE R == {ss \in Nat \X Nat : ss[1] < ss[2]}
<1>1. IsWellFoundedOn(R, Nat)
  BY NatLessThanWellFounded, Zenon DEF OpToRel
<1>2. PICK s \in S : TRUE
  OBVIOUS
<1>3. PICK m \in S : \A x \in S : ~ (<<x, m>> \in R)
  <2>1. S \in SUBSET Nat
    OBVIOUS
  <2> HIDE DEF R, S
  <2> QED
    BY <1>1, <1>2, <2>1, WFMin
<1>4. m \in 0..n /\ m # 0 /\ m \notin P
  OBVIOUS
<1>5. m - 1 \in 0..n /\ m - 1 \notin S
  <2>1. m - 1 \in 0..n /\ <<m - 1, m>> \in R
    BY <1>4
  <2> QED
    BY <1>3, <2>1
<1> QED
  BY <1>4, <1>5

\* The states of a loop of n turns, each of them F.
IsLoop(D, a, F, n, g) ==
    g \in [0..n -> D] /\ g[0] = a /\ \A i \in 1..n : g[i] = F[g[i - 1]]

\* A loop that stays among the states D can be run any number of times.
LEMMA LoopRuns ==
    ASSUME NEW D, NEW a \in D, NEW F \in [D -> D], NEW n \in Nat
    PROVE  \E g : IsLoop(D, a, F, n, g)
<1> DEFINE P == {m \in Nat : \E g : IsLoop(D, a, F, m, g)}
<1>1. 0 \in P
  <2>1. IsLoop(D, a, F, 0, [i \in 0..0 |-> a])
    BY DEF IsLoop
  <2> QED
    BY <2>1
<1>2. ASSUME NEW m \in 1..n, m - 1 \in P PROVE m \in P
  <2>1. PICK g : IsLoop(D, a, F, m - 1, g)
    BY <1>2
  <2>2. g \in [0..(m - 1) -> D] /\ g[0] = a /\ \A i \in 1..(m - 1) : g[i] = F[g[i - 1]]
    BY <2>1 DEF IsLoop
  <2> DEFINE h == [i \in 0..m |-> IF i < m THEN g[i] ELSE F[g[m - 1]]]
  <2>3. h \in [0..m -> D]
    <3>1. g[m - 1] \in D
      BY <2>2
    <3> QED
      BY <2>2, <3>1
  <2>4. h[0] = a
    BY <2>2
  <2>5. ASSUME NEW i \in 1..m PROVE h[i] = F[h[i - 1]]
    <3>1. h[i - 1] = g[i - 1]
      OBVIOUS
    <3>2. CASE i = m
      BY <3>1, <3>2
    <3>3. CASE i # m
      <4>1. i \in 1..(m - 1) /\ h[i] = g[i]
        BY <3>3
      <4> QED
        BY <4>1, <3>1, <2>2
    <3> QED
      BY <3>2, <3>3
  <2>6. IsLoop(D, a, F, m, h)
    BY <2>3, <2>4, <2>5 DEF IsLoop
  <2> HIDE DEF h
  <2> QED
    BY <2>6
<1>3. n \in P
  <2> HIDE DEF P
  <2>1. \A i \in 0..n : i \in P
    BY <1>1, <1>2, CountUp
  <2> QED
    BY <2>1
<1> QED
  BY <1>3

\* Where a loop starts and what a turn keeps, with the number of turns, holds
\* after each turn.
LEMMA LoopKeeps ==
    ASSUME NEW D, NEW a \in D, NEW F \in [D -> D], NEW n \in Nat,
           NEW g, IsLoop(D, a, F, n, g),
           NEW Q, <<0, a>> \in Q,
           \A i \in 1..n, d \in D : <<i - 1, d>> \in Q => <<i, F[d]>> \in Q
    PROVE  \A i \in 0..n : <<i, g[i]>> \in Q
<1> DEFINE P == {i \in 0..n : <<i, g[i]>> \in Q}
<1>0. g \in [0..n -> D] /\ g[0] = a /\ \A i \in 1..n : g[i] = F[g[i - 1]]
  BY DEF IsLoop
<1>1. 0 \in P
  <2>1. 0 \in 0..n /\ <<0, g[0]>> \in Q
    BY <1>0
  <2> QED
    BY <2>1
<1>2. ASSUME NEW i \in 1..n, i - 1 \in P PROVE i \in P
  <2>1. i - 1 \in 0..n /\ g[i - 1] \in D /\ <<i - 1, g[i - 1]>> \in Q
    BY <1>0, <1>2
  <2>2. <<i, F[g[i - 1]]>> \in Q
    BY <2>1
  <2> QED
    BY <1>0, <2>2, i \in 0..n
<1>3. \A i \in 0..n : i \in P
  <2> HIDE DEF P
  <2> QED
    BY <1>1, <1>2, CountUp
<1> QED
  BY <1>3

\* A function that takes those turns as long as it is among the states does.
LEMMA LoopIs ==
    ASSUME NEW D, NEW a \in D, NEW F \in [D -> D], NEW n \in Nat,
           NEW g, g = [i \in 0..n |-> g[i]], g[0] = a,
           \A i \in 1..n : g[i - 1] \in D => g[i] = F[g[i - 1]]
    PROVE  IsLoop(D, a, F, n, g)
<1> DEFINE P == {i \in 0..n : g[i] \in D}
<1>1. 0 \in P
  OBVIOUS
<1>2. ASSUME NEW i \in 1..n, i - 1 \in P PROVE i \in P
  <2>1. i \in 0..n /\ i - 1 \in 0..n /\ g[i - 1] \in D
    BY <1>2
  <2>2. g[i] = F[g[i - 1]] /\ F[g[i - 1]] \in D
    BY <2>1
  <2> QED
    BY <2>1, <2>2
<1>3. \A i \in 0..n : i \in P
  <2> HIDE DEF P
  <2> QED
    BY <1>1, <1>2, CountUp
<1>4. \A i \in 1..n : i - 1 \in 0..n
  OBVIOUS
<1>5. g \in [0..n -> D] /\ \A i \in 1..n : g[i] = F[g[i - 1]]
  BY <1>3, <1>4
<1> QED
  BY <1>5 DEF IsLoop

----------------------------------------------------------------------------
(* Sums *)

\* The sums of f over the sets of K, one key at a time.
NextSums(f, K, it) ==
    [s \in SUBSET K |->
        IF s = {} THEN 0
        ELSE LET x == CHOOSE x \in s : TRUE IN f[x] + it[s \ {x}]]

AreSums(f, K, it) == it = NextSums(f, K, it)

\* Sets of K are met one key at a time.
LEMMA OneByOne ==
    ASSUME NEW K, IsFiniteSet(K), NEW P,
           \A s \in SUBSET K : s = {} \/ s \ {CHOOSE x \in s : TRUE} \in P => s \in P
    PROVE  \A s \in SUBSET K : s \in P
<1> DEFINE n == Cardinality(K)
           C == {m \in 0..n : \A s \in SUBSET K : Cardinality(s) <= m => s \in P}
<1>1. n \in Nat
  BY FS_CardinalityType
<1>2. \A s \in SUBSET K : IsFiniteSet(s) /\ Cardinality(s) \in Nat /\ Cardinality(s) <= n
  BY FS_Subset, FS_CardinalityType
<1> HIDE DEF n
<1>3. 0 \in C
  <2>1. ASSUME NEW s \in SUBSET K, Cardinality(s) <= 0 PROVE s = {}
    BY <1>2, <2>1, FS_EmptySet
  <2> QED
    BY <2>1, <1>1
<1>4. ASSUME NEW m \in 1..n, m - 1 \in C PROVE m \in C
  <2> SUFFICES ASSUME NEW s \in SUBSET K, Cardinality(s) <= m PROVE s \in P
    OBVIOUS
  <2>1. CASE s = {}
    BY <2>1
  <2>2. CASE s # {}
    <3> DEFINE x == CHOOSE x \in s : TRUE
    <3>1. x \in s
      BY <2>2
    <3>2. Cardinality(s \ {x}) = Cardinality(s) - 1
      BY <3>1, <1>2, FS_RemoveElement
    <3>3. Cardinality(s \ {x}) <= m - 1
      BY <3>2, <1>2
    <3>4. s \ {x} \in P
      BY <1>4, <3>3
    <3> QED
      BY <3>4
  <2> QED
    BY <2>1, <2>2
<1>5. n \in C
  <2> HIDE DEF C
  <2>1. \A m \in 0..n : m \in C
    BY <1>1, <1>3, <1>4, CountUp
  <2> QED
    BY <1>1, <2>1
<1> QED
  BY <1>5, <1>2
\* The sums of naturals exist.
LEMMA SumsAre ==
    ASSUME NEW K, IsFiniteSet(K), NEW f \in [K -> Nat]
    PROVE  \E it \in [SUBSET K -> Nat] : AreSums(f, K, it)
<1> DEFINE D == [SUBSET K -> Nat]
           n == Cardinality(K) + 1
           F == [it \in D |-> NextSums(f, K, it)]
           zero == [s \in SUBSET K |-> 0]
           Q == {q \in (0..n) \X D :
                   \A s \in SUBSET K : Cardinality(s) < q[1] => q[2][s] = NextSums(f, K, q[2])[s]}
<1>1. n \in Nat /\ n = Cardinality(K) + 1
  BY FS_CardinalityType
<1>2. \A s \in SUBSET K : IsFiniteSet(s) /\ Cardinality(s) \in Nat /\ Cardinality(s) < n
  <2>1. \A s \in SUBSET K : IsFiniteSet(s) /\ Cardinality(s) \in Nat /\ Cardinality(s) <= Cardinality(K)
    BY FS_Subset, FS_CardinalityType
  <2> QED
    BY <2>1, <1>1
<1> HIDE DEF n
<1>3. \A it \in D : NextSums(f, K, it) \in D
  <2> SUFFICES ASSUME NEW it \in D, NEW s \in SUBSET K, s # {}
               PROVE  f[CHOOSE x \in s : TRUE] + it[s \ {CHOOSE x \in s : TRUE}] \in Nat
    BY DEF NextSums
  <2>1. (CHOOSE x \in s : TRUE) \in K /\ s \ {CHOOSE x \in s : TRUE} \in SUBSET K
    OBVIOUS
  <2> QED
    BY <2>1
<1>4. F \in [D -> D] /\ zero \in D
  BY <1>3
<1>5. \A it \in D : F[it] = NextSums(f, K, it)
  OBVIOUS
<1> HIDE DEF F, zero
<1>6. PICK g : IsLoop(D, zero, F, n, g)
  <2>1. n \in Nat
    BY <1>1
  <2>2. F \in [D -> D]
    BY <1>4
  <2>3. zero \in D
    BY <1>4
  <2> HIDE DEF D, Q
  <2> QED
    BY <2>1, <2>2, <2>3, LoopRuns
<1>7. <<0, zero>> \in Q
  BY <1>1, <1>2, <1>4
<1>8. ASSUME NEW i \in 1..n, NEW it \in D, <<i - 1, it>> \in Q PROVE <<i, F[it]>> \in Q
  <2> DEFINE jt == F[it]
  <2>1. jt \in D /\ jt = NextSums(f, K, it)
    BY <1>3, <1>5
  <2>2. \A s \in SUBSET K : Cardinality(s) < i - 1 => it[s] = jt[s]
    BY <1>8, <2>1
  <2> HIDE DEF jt
  <2>3. ASSUME NEW s \in SUBSET K, Cardinality(s) < i PROVE jt[s] = NextSums(f, K, jt)[s]
    <3>1. CASE s = {}
      BY <2>1, <3>1 DEF NextSums
    <3>2. CASE s # {}
      <4> DEFINE x == CHOOSE x \in s : TRUE
      <4>1. x \in s
        BY <3>2
      <4>2. Cardinality(s \ {x}) = Cardinality(s) - 1 /\ Cardinality(s) \in Nat
        BY <4>1, <1>2, FS_RemoveElement
      <4>3. it[s \ {x}] = jt[s \ {x}]
        BY <2>2, <2>3, <4>2
      <4>4. jt[s] = f[x] + it[s \ {x}]
        BY <2>1, <3>2 DEF NextSums
      <4>5. NextSums(f, K, jt)[s] = f[x] + jt[s \ {x}]
        BY <3>2 DEF NextSums
      <4> QED
        BY <4>3, <4>4, <4>5
    <3> QED
      BY <3>1, <3>2
  <2>4. i \in 0..n
    OBVIOUS
  <2> QED
    BY <2>1, <2>3, <2>4 DEF jt
<1>9. <<n, g[n]>> \in Q
  <2>1. \A i \in 0..n : <<i, g[i]>> \in Q
    <3> HIDE DEF Q, D
    <3> QED
      BY <1>1, <1>4, <1>6, <1>7, <1>8, LoopKeeps
  <2>2. n \in 0..n
    BY <1>1
  <2> HIDE DEF Q
  <2> QED
    BY <2>1, <2>2
<1>10. g[n] \in D /\ \A s \in SUBSET K : g[n][s] = NextSums(f, K, g[n])[s]
  BY <1>2, <1>9
<1>11. AreSums(f, K, g[n])
  BY <1>10 DEF AreSums, NextSums
<1> QED
  BY <1>10, <1>11

\* SumFunction is the sum over all of a function's domain.
LEMMA SumIs ==
    ASSUME NEW K, IsFiniteSet(K), NEW f \in [K -> Nat]
    PROVE  \E it \in [SUBSET K -> Nat] : AreSums(f, K, it) /\ SumFunction(f) = it[K]
<1> DEFINE iter == CHOOSE it : AreSums(f, K, it)
<1>1. AreSums(f, K, iter)
  BY SumsAre
<1>2. SumFunction(f) = iter[K]
  <2>1. DOMAIN f = K
    OBVIOUS
  <2> QED
    BY <2>1 DEF SumFunction, SumFunctionOnSet, FoldFunctionOnSet, MapThenFoldSet, AreSums, NextSums
<1> HIDE DEF iter
<1>3. \A s \in SUBSET K : iter[s] = NextSums(f, K, iter)[s]
  BY <1>1 DEF AreSums
<1>4. \A s \in SUBSET K : iter[s] \in Nat
  <2> DEFINE P == {s \in SUBSET K : iter[s] \in Nat}
  <2>1. ASSUME NEW s \in SUBSET K, s = {} \/ s \ {CHOOSE x \in s : TRUE} \in P PROVE s \in P
    <3>1. CASE s = {}
      <4>1. iter[s] = 0
        BY <3>1, <1>3 DEF NextSums
      <4> QED
        BY <4>1
    <3>2. CASE s # {}
      <4> DEFINE x == CHOOSE x \in s : TRUE
      <4>1. x \in s /\ iter[s \ {x}] \in Nat
        BY <2>1, <3>2
      <4>2. iter[s] = f[x] + iter[s \ {x}]
        BY <1>3, <3>2 DEF NextSums
      <4> QED
        BY <4>1, <4>2
    <3> QED
      BY <3>1, <3>2
  <2>2. \A s \in SUBSET K : s \in P
    <3> HIDE DEF P
    <3> QED
      BY <2>1, OneByOne
  <2> QED
    BY <2>2
<1>5. iter \in [SUBSET K -> Nat]
  <2>1. iter = [s \in SUBSET K |-> iter[s]]
    BY <1>1 DEF AreSums, NextSums
  <2> QED
    BY <1>4, <2>1
<1> QED
  BY <1>1, <1>2, <1>5

\* The sum of naturals is one, and is that of its terms for one of them.
LEMMA SumGrows ==
    ASSUME NEW K, IsFiniteSet(K), NEW f \in [K -> Nat], NEW g \in [K -> Nat],
           \A x \in K : f[x] <= g[x]
    PROVE  SumFunction(f) \in Nat /\ SumFunction(f) <= SumFunction(g)
<1>1. PICK ft \in [SUBSET K -> Nat] : AreSums(f, K, ft) /\ SumFunction(f) = ft[K]
  BY SumIs
<1>2. PICK gt \in [SUBSET K -> Nat] : AreSums(g, K, gt) /\ SumFunction(g) = gt[K]
  BY SumIs
<1> DEFINE P == {s \in SUBSET K : ft[s] <= gt[s]}
<1>3. ASSUME NEW s \in SUBSET K, s = {} \/ s \ {CHOOSE x \in s : TRUE} \in P PROVE s \in P
  <2>1. CASE s = {}
    <3>1. ft[s] = 0 /\ gt[s] = 0
      BY <1>1, <1>2, <2>1 DEF AreSums, NextSums
    <3> QED
      BY <3>1
  <2>2. CASE s # {}
    <3> DEFINE x == CHOOSE x \in s : TRUE
    <3>1. x \in s /\ ft[s \ {x}] <= gt[s \ {x}]
      BY <1>3, <2>2
    <3>2. ft[s] = f[x] + ft[s \ {x}]
      BY <1>1, <2>2 DEF AreSums, NextSums
    <3>3. gt[s] = g[x] + gt[s \ {x}]
      BY <1>2, <2>2 DEF AreSums, NextSums
    <3>4. f[x] \in Nat /\ g[x] \in Nat /\ ft[s \ {x}] \in Nat /\ gt[s \ {x}] \in Nat /\ f[x] <= g[x]
      BY <3>1, <1>1, <1>2
    <3> HIDE DEF x
    <3>5. ft[s] <= gt[s]
      BY <3>1, <3>2, <3>3, <3>4
    <3> QED
      BY <3>5
  <2> QED
    BY <2>1, <2>2
<1>4. K \in P
  <2> HIDE DEF P
  <2>1. \A s \in SUBSET K : s \in P
    BY <1>3, OneByOne
  <2> QED
    BY <2>1
<1> QED
  BY <1>1, <1>2, <1>4

\* The sum changes by what one term does.
LEMMA SumChanges ==
    ASSUME NEW K, IsFiniteSet(K), NEW f \in [K -> Nat], NEW k \in K, NEW n \in Nat
    PROVE  SumFunction([f EXCEPT ![k] = n]) = SumFunction(f) - f[k] + n
<1> DEFINE g == [f EXCEPT ![k] = n]
<1>1. g \in [K -> Nat] /\ g[k] = n /\ \A x \in K \ {k} : g[x] = f[x]
  OBVIOUS
<1> HIDE DEF g
<1>2. PICK ft \in [SUBSET K -> Nat] : AreSums(f, K, ft) /\ SumFunction(f) = ft[K]
  BY SumIs
<1>3. PICK gt \in [SUBSET K -> Nat] : AreSums(g, K, gt) /\ SumFunction(g) = gt[K]
  BY <1>1, SumIs
<1> DEFINE P == {s \in SUBSET K : gt[s] = IF k \in s THEN ft[s] - f[k] + n ELSE ft[s]}
<1>4. ASSUME NEW s \in SUBSET K, s = {} \/ s \ {CHOOSE x \in s : TRUE} \in P PROVE s \in P
  <2>1. CASE s = {}
    <3>1. ft[s] = 0 /\ gt[s] = 0
      BY <1>2, <1>3, <2>1 DEF AreSums, NextSums
    <3> QED
      BY <2>1, <3>1
  <2>2. CASE s # {}
    <3> DEFINE x == CHOOSE x \in s : TRUE
               r == s \ {x}
    <3>1. x \in s /\ r \in SUBSET K
      BY <2>2
    <3>2. gt[r] = IF k \in r THEN ft[r] - f[k] + n ELSE ft[r]
      BY <1>4, <2>2
    <3>3. ft[s] = f[x] + ft[r]
      BY <1>2, <2>2 DEF AreSums, NextSums
    <3>4. gt[s] = g[x] + gt[r]
      BY <1>3, <2>2 DEF AreSums, NextSums
    <3>5. f[x] \in Nat /\ f[k] \in Nat /\ ft[r] \in Nat
      BY <3>1, <1>2
    <3>6. k \in r <=> k \in s /\ k # x
      OBVIOUS
    <3> HIDE DEF x, r
    <3>7. gt[s] = IF k \in s THEN ft[s] - f[k] + n ELSE ft[s]
      <4>1. CASE k = x
        BY <3>1, <3>2, <3>3, <3>4, <3>5, <3>6, <1>1, <4>1
      <4>2. CASE k # x
        <5>1. g[x] = f[x]
          BY <1>1, <3>1, <4>2
        <5> QED
          BY <3>2, <3>3, <3>4, <3>5, <3>6, <4>2, <5>1
      <4> QED
        BY <4>1, <4>2
    <3> QED
      BY <3>7
  <2> QED
    BY <2>1, <2>2
<1>5. K \in P
  <2> HIDE DEF P
  <2>1. \A s \in SUBSET K : s \in P
    BY <1>4, OneByOne
  <2> QED
    BY <2>1
<1> QED
  BY <1>2, <1>3, <1>5 DEF g

\* Nothing adds up to nothing.
LEMMA SumOfNothing ==
    ASSUME NEW K, IsFiniteSet(K), NEW f \in [K -> Nat], \A x \in K : f[x] = 0
    PROVE  SumFunction(f) = 0
<1>1. PICK ft \in [SUBSET K -> Nat] : AreSums(f, K, ft) /\ SumFunction(f) = ft[K]
  BY SumIs
<1> DEFINE P == {s \in SUBSET K : ft[s] = 0}
<1>2. ASSUME NEW s \in SUBSET K, s = {} \/ s \ {CHOOSE x \in s : TRUE} \in P PROVE s \in P
  <2>1. CASE s = {}
    <3>1. ft[s] = 0
      BY <1>1, <2>1 DEF AreSums, NextSums
    <3> QED
      BY <3>1
  <2>2. CASE s # {}
    <3> DEFINE x == CHOOSE x \in s : TRUE
    <3>1. f[x] = 0 /\ ft[s \ {x}] = 0
      BY <1>2, <2>2
    <3>2. ft[s] = f[x] + ft[s \ {x}]
      BY <1>1, <2>2 DEF AreSums, NextSums
    <3> HIDE DEF x
    <3>3. ft[s] = 0
      BY <3>1, <3>2
    <3> QED
      BY <3>3
  <2> QED
    BY <2>1, <2>2
<1>3. K \in P
  <2> HIDE DEF P
  <2>1. \A s \in SUBSET K : s \in P
    BY <1>2, OneByOne
  <2> QED
    BY <2>1
<1> QED
  BY <1>1, <1>3

----------------------------------------------------------------------------
(* The linked list *)

Keys0 == CacheKeys \cup {Nil}

\* What an order excludes.
LEMMA OrderIs ==
    ASSUME NEW R, NEW S, IsOrder(R, S)
    PROVE  /\ \A j, k : <<j, k>> \in R => j \in S /\ k \in S /\ j # k /\ <<k, j>> \notin R
           /\ \A j, k \in S : j = k \/ <<j, k>> \in R \/ <<k, j>> \in R
           /\ \A i, j, k : <<i, j>> \in R /\ <<j, k>> \in R => <<i, k>> \in R
  BY DEF IsOrder

\* The links of a node lead to others of the list, or nowhere.
LEMMA NeighboursAre ==
    ASSUME NEW c, NEW R, NEW S, IsOrder(R, S), IsList(c, R, S), NEW k \in S
    PROVE  /\ c.next[k] \in (S \ {k}) \cup {Nil}
           /\ c.prev[k] \in (S \ {k}) \cup {Nil}
<1>1. \A i, j : <<i, j>> \in R => i \in S /\ j \in S /\ i # j
  BY OrderIs
<1>2. \A i, j : Follows(R, S, i, j) => i \in S /\ j \in S /\ i # j
  BY <1>1 DEF Follows
<1> QED
  BY <1>2 DEF IsList

\* An order of some of the keys.
LEMMA AmongIs ==
    ASSUME NEW R, NEW S, IsOrder(R, S), NEW T \in SUBSET S
    PROVE  /\ IsOrder(Among(R, T), T)
           /\ \A j, k : <<j, k>> \in Among(R, T) <=> <<j, k>> \in R /\ j \in T /\ k \in T
<1>1. \A j, k : <<j, k>> \in Among(R, T) <=> <<j, k>> \in R /\ j \in T /\ k \in T
  BY DEF Among
<1>2. Among(R, T) \subseteq T \X T
  BY DEF Among, IsOrder
<1> QED
  BY <1>1, <1>2 DEF IsOrder

\* What c.next and c.prev are in a list.
Linked(c, d, k) ==
    LET p == c.prev[k]
        n == c.next[k]
    IN  /\ d.next = [x \in CacheKeys |-> IF x = k THEN Nil ELSE IF x = p THEN n ELSE c.next[x]]
        /\ d.prev = [x \in CacheKeys |-> IF x = k THEN Nil ELSE IF x = n THEN p ELSE c.prev[x]]
        /\ d.head = IF p = Nil THEN n ELSE c.head
        /\ d.tail = IF n = Nil THEN p ELSE c.tail

\* Without one of its nodes a list holds the other keys in their order.
LEMMA ListLoses ==
    ASSUME NEW c, NEW d, NEW S \in SUBSET CacheKeys, NEW k \in S, NEW R, Nil \notin CacheKeys,
           IsOrder(R, S), IsList(c, R, S), Linked(c, d, k)
    PROVE  IsList(d, Among(R, S \ {k}), S \ {k})
<1> DEFINE T == S \ {k}
           Q == Among(R, T)
           p == c.prev[k]
           n == c.next[k]
<1>1. /\ \A i, j : <<i, j>> \in R => i \in S /\ j \in S /\ i # j /\ <<j, i>> \notin R
      /\ \A i, j \in S : i = j \/ <<i, j>> \in R \/ <<j, i>> \in R
      /\ \A h, i, j : <<h, i>> \in R /\ <<i, j>> \in R => <<h, j>> \in R
  BY OrderIs
<1>2. \A i, j : <<i, j>> \in Q <=> <<i, j>> \in R /\ i \in T /\ j \in T
  BY DEF Among
<1>3. /\ c.head \in S /\ c.tail \in S
      /\ \A j \in S : j # c.head => <<c.head, j>> \in R
      /\ \A j \in S : j # c.tail => <<j, c.tail>> \in R
      /\ \A j \in S : j = c.head => c.prev[j] = Nil
      /\ \A j \in S : j = c.tail => c.next[j] = Nil
  BY DEF IsList
<1>4. \A j \in S : j # c.head => Follows(R, S, c.prev[j], j) /\ c.prev[j] \in S
  <2>1. \A i, j : Follows(R, S, i, j) => i \in S
    BY <1>1 DEF Follows
  <2> QED
    BY <2>1 DEF IsList
<1>5. \A j \in S : j # c.tail => Follows(R, S, j, c.next[j]) /\ c.next[j] \in S
  <2>1. \A i, j : Follows(R, S, i, j) => j \in S
    BY <1>1 DEF Follows
  <2> QED
    BY <2>1 DEF IsList
<1>6. \A i, j : Follows(R, S, i, j) =>
        /\ <<i, j>> \in R
        /\ \A h \in S : <<i, h>> \in R => h = j \/ <<j, h>> \in R
        /\ \A h \in S : <<h, j>> \in R => h = i \/ <<h, i>> \in R
  BY <1>1 DEF Follows
<1>7. /\ \A j \in T : d.next[j] = IF j = p THEN n ELSE c.next[j]
      /\ \A j \in T : d.prev[j] = IF j = n THEN p ELSE c.prev[j]
      /\ d.head = IF p = Nil THEN n ELSE c.head
      /\ d.tail = IF n = Nil THEN p ELSE c.tail
  BY DEF Linked
<1>8. /\ p = Nil <=> k = c.head
      /\ n = Nil <=> k = c.tail
      /\ p # Nil => p \in T /\ Follows(R, S, p, k)
      /\ n # Nil => n \in T /\ Follows(R, S, k, n)
  <2>1. k = c.head => p = Nil
    BY <1>3
  <2>2. k # c.head => Follows(R, S, p, k) /\ p \in S /\ p # Nil
    BY <1>4
  <2>3. k = c.tail => n = Nil
    BY <1>3
  <2>4. k # c.tail => Follows(R, S, k, n) /\ n \in S /\ n # Nil
    BY <1>5
  <2>5. \A j : ~ Follows(R, S, j, j)
    BY <1>1, <1>6
  <2> HIDE DEF p, n
  <2> QED
    BY <2>1, <2>2, <2>3, <2>4, <2>5
<1>9. \A i, j \in T : Follows(R, S, i, j) => Follows(Q, T, i, j)
  BY <1>2, <1>6 DEF Follows
<1> HIDE DEF Q, T, p, n
<1>10. p # Nil /\ n # Nil => Follows(Q, T, p, n)
  <2> SUFFICES ASSUME p # Nil, n # Nil PROVE Follows(Q, T, p, n)
    OBVIOUS
  <2>1. <<p, k>> \in R /\ <<k, n>> \in R
    BY <1>6, <1>8
  <2>2. <<p, n>> \in Q
    BY <1>1, <1>2, <1>8, <2>1
  <2>3. ASSUME NEW h \in T, <<p, h>> \in Q PROVE h = n \/ <<n, h>> \in Q
    <3>1. h # k /\ h \in S /\ <<p, h>> \in R
      BY <1>2, <2>3 DEF T
    <3>2. <<k, h>> \in R
      BY <1>6, <1>8, <3>1
    <3> QED
      BY <1>2, <1>6, <1>8, <3>1, <3>2
  <2> QED
    BY <2>2, <2>3 DEF Follows
<1>11. T = {} => d.head = Nil /\ d.tail = Nil
  BY <1>7, <1>8
<1>12. T # {} => d.head \in T /\ d.tail \in T
  <2> SUFFICES ASSUME T # {} PROVE d.head \in T /\ d.tail \in T
    OBVIOUS
  <2>1. PICK j \in S : j # k
    BY DEF T
  <2>2. ~ (k = c.head /\ k = c.tail)
    BY <1>1, <1>3, <2>1
  <2> QED
    BY <1>3, <1>7, <1>8, <2>2 DEF T
<1>13. ASSUME NEW j \in T, j # d.head
       PROVE  <<d.head, j>> \in Q /\ Follows(Q, T, d.prev[j], j)
  <2>1. j \in S /\ j # k /\ d.head \in T
    BY <1>12 DEF T
  <2>2. <<d.head, j>> \in Q
    <3>1. CASE p = Nil
      <4>1. <<k, j>> \in R /\ d.head = n /\ n # Nil
        BY <1>3, <1>7, <1>8, <2>1, <3>1 DEF T
      <4> QED
        BY <1>2, <1>6, <1>8, <1>13, <2>1, <4>1
    <3>2. CASE p # Nil
      BY <1>2, <1>3, <1>7, <1>13, <2>1, <3>2
    <3> QED
      BY <3>1, <3>2
  <2>3. Follows(Q, T, d.prev[j], j)
    <3>1. CASE j = n
      <4>1. p # Nil /\ n # Nil
        BY <1>7, <1>13, <2>1, <3>1
      <4> QED
        BY <1>7, <1>10, <3>1, <4>1
    <3>2. CASE j # n
      <4>1. j # c.head
        BY <1>7, <1>8, <1>13, <2>1
      <4>2. Follows(R, S, c.prev[j], j) /\ c.prev[j] \in S /\ d.prev[j] = c.prev[j]
        BY <1>4, <1>7, <2>1, <3>2, <4>1
      <4>3. c.prev[j] # k
        <5> SUFFICES ASSUME c.prev[j] = k PROVE FALSE
          OBVIOUS
        <5>1. Follows(R, S, k, j) /\ <<k, j>> \in R
          BY <1>6, <4>2
        <5>2. n # Nil
          BY <1>1, <1>3, <1>8, <5>1
        <5>3. <<k, n>> \in R /\ n \in S
          BY <1>6, <1>8, <5>2 DEF T
        <5>4. <<n, j>> \in R /\ <<j, n>> \in R
          BY <1>6, <1>8, <2>1, <3>2, <5>1, <5>2, <5>3
        <5> QED
          BY <1>1, <5>4
      <4>4. c.prev[j] \in T
        BY <4>2, <4>3 DEF T
      <4> QED
        BY <1>9, <4>2, <4>4
    <3> QED
      BY <3>1, <3>2
  <2> QED
    BY <2>2, <2>3
<1>14. ASSUME NEW j \in T, j # d.tail
       PROVE  <<j, d.tail>> \in Q /\ Follows(Q, T, j, d.next[j])
  <2>1. j \in S /\ j # k /\ d.tail \in T
    BY <1>12 DEF T
  <2>2. <<j, d.tail>> \in Q
    <3>1. CASE n = Nil
      <4>1. <<j, k>> \in R /\ d.tail = p /\ p # Nil
        BY <1>3, <1>7, <1>8, <2>1, <3>1 DEF T
      <4> QED
        BY <1>2, <1>6, <1>8, <1>14, <2>1, <4>1
    <3>2. CASE n # Nil
      BY <1>2, <1>3, <1>7, <1>14, <2>1, <3>2
    <3> QED
      BY <3>1, <3>2
  <2>3. Follows(Q, T, j, d.next[j])
    <3>1. CASE j = p
      <4>1. p # Nil /\ n # Nil
        BY <1>7, <1>14, <2>1, <3>1
      <4> QED
        BY <1>7, <1>10, <3>1, <4>1
    <3>2. CASE j # p
      <4>1. j # c.tail
        BY <1>7, <1>8, <1>14, <2>1
      <4>2. Follows(R, S, j, c.next[j]) /\ c.next[j] \in S /\ d.next[j] = c.next[j]
        BY <1>5, <1>7, <2>1, <3>2, <4>1
      <4>3. c.next[j] # k
        <5> SUFFICES ASSUME c.next[j] = k PROVE FALSE
          OBVIOUS
        <5>1. Follows(R, S, j, k) /\ <<j, k>> \in R
          BY <1>6, <4>2
        <5>2. p # Nil
          <6>1. k = c.head => <<k, j>> \in R
            BY <1>3, <2>1
          <6> QED
            BY <1>1, <1>8, <5>1, <6>1
        <5>3. <<p, k>> \in R /\ p \in S
          BY <1>6, <1>8, <5>2 DEF T
        <5>4. <<p, j>> \in R /\ <<j, p>> \in R
          BY <1>6, <1>8, <2>1, <3>2, <5>1, <5>2, <5>3
        <5> QED
          BY <1>1, <5>4
      <4>4. c.next[j] \in T
        BY <4>2, <4>3 DEF T
      <4> QED
        BY <1>9, <4>2, <4>4
    <3> QED
      BY <3>1, <3>2
  <2> QED
    BY <2>2, <2>3
<1>15. ASSUME NEW j \in T, j = d.head PROVE d.prev[j] = Nil
  <2>1. CASE p = Nil
    BY <1>7, <1>15, <2>1
  <2>2. CASE p # Nil
    <3>1. j = c.head /\ j \in S
      BY <1>7, <1>15, <2>2 DEF T
    <3>2. j # n
      BY <1>1, <1>3, <1>6, <1>8, <2>2, <3>1
    <3> QED
      BY <1>3, <1>7, <3>1, <3>2
  <2> QED
    BY <2>1, <2>2
<1>16. ASSUME NEW j \in T, j = d.tail PROVE d.next[j] = Nil
  <2>1. CASE n = Nil
    BY <1>7, <1>16, <2>1
  <2>2. CASE n # Nil
    <3>1. j = c.tail /\ j \in S
      BY <1>7, <1>16, <2>2 DEF T
    <3>2. j # p
      BY <1>1, <1>3, <1>6, <1>8, <2>2, <3>1
    <3> QED
      BY <1>3, <1>7, <3>1, <3>2
  <2> QED
    BY <2>1, <2>2
<1>17. IsList(d, Q, T)
  BY <1>11, <1>12, <1>13, <1>14, <1>15, <1>16 DEF IsList
<1> QED
  BY <1>17 DEF Q, T

\* What is put in front of a list.
Headed(c, d, k) ==
    /\ d.next = [c.next EXCEPT ![k] = c.head]
    /\ d.prev = [x \in CacheKeys |-> IF x = k THEN Nil ELSE IF x = c.head THEN k ELSE c.prev[x]]
    /\ d.head = k
    /\ d.tail = IF c.tail = Nil THEN k ELSE c.tail

\* The order with one key in front of the others.
LEMMA InFrontIs ==
    ASSUME NEW R, NEW S, IsOrder(R, S), NEW k
    PROVE  /\ IsOrder(InFront(R, k, S \cup {k}), S \cup {k})
           /\ \A i, j : <<i, j>> \in InFront(R, k, S \cup {k})
                  <=> i # j /\ i \in S \cup {k} /\ j \in S /\ j # k /\ (i = k \/ <<i, j>> \in R)
<1> DEFINE T == S \cup {k}
           Q == InFront(R, k, T)
<1>1. /\ \A i, j : <<i, j>> \in R => i \in S /\ j \in S /\ i # j /\ <<j, i>> \notin R
      /\ \A i, j \in S : i = j \/ <<i, j>> \in R \/ <<j, i>> \in R
      /\ \A h, i, j : <<h, i>> \in R /\ <<i, j>> \in R => <<h, j>> \in R
  BY OrderIs
<1>2. \A i, j : <<i, j>> \in Q <=>
          i # j /\ i \in T /\ j \in T /\ j # k /\ (i = k \/ <<i, j>> \in R)
  <2> SUFFICES ASSUME NEW i, NEW j
               PROVE  <<i, j>> \in Q <=>
                          i # j /\ i \in T /\ j \in T /\ j # k /\ (i = k \/ <<i, j>> \in R)
    OBVIOUS
  <2>1. <<i, j>> \in Q <=> \/ <<i, j>> \in R /\ i \in T \ {k} /\ j \in T \ {k}
                           \/ i = k /\ j \in T \ {k}
    BY DEF InFront, Among
  <2> QED
    BY <1>1, <2>1
<1>3. Q \subseteq T \X T
  <2>1. Among(R, T \ {k}) \subseteq T \X T
    BY DEF Among, IsOrder
  <2> QED
    BY <2>1 DEF InFront
<1>4. \A i \in T : i # k => i \in S
  OBVIOUS
<1> HIDE DEF Q
<1>5. \A i, j \in T : i # j => (<<i, j>> \in Q <=> <<j, i>> \notin Q)
  <2> SUFFICES ASSUME NEW i \in T, NEW j \in T, i # j
               PROVE  <<i, j>> \in Q <=> <<j, i>> \notin Q
    OBVIOUS
  <2>1. CASE i = k
    BY <1>2, <2>1
  <2>2. CASE j = k
    BY <1>2, <2>2
  <2>3. CASE i # k /\ j # k
    <3>1. <<i, j>> \in R <=> <<j, i>> \notin R
      BY <1>1, <1>4, <2>3
    <3> QED
      BY <1>2, <2>3, <3>1
  <2> QED
    BY <2>1, <2>2, <2>3
<1>6. \A i \in T : <<i, i>> \notin Q
  BY <1>2
<1>7. \A h, i, j \in T : <<h, i>> \in Q /\ <<i, j>> \in Q => <<h, j>> \in Q
  BY <1>1, <1>2, <1>4
<1>8. IsOrder(Q, T)
  BY <1>3, <1>5, <1>6, <1>7 DEF IsOrder
<1> QED
  BY <1>2, <1>8 DEF Q

\* With a node more in front a list holds the other keys after its key.
LEMMA ListGains ==
    ASSUME NEW c, NEW d, NEW S \in SUBSET CacheKeys, NEW k \in CacheKeys \ S, NEW R,
           Nil \notin CacheKeys, DOMAIN c.next = CacheKeys,
           IsOrder(R, S), IsList(c, R, S), Headed(c, d, k)
    PROVE  IsList(d, InFront(R, k, S \cup {k}), S \cup {k})
<1> DEFINE T == S \cup {k}
           Q == InFront(R, k, T)
<1>1. /\ \A i, j : <<i, j>> \in R => i \in S /\ j \in S /\ i # j /\ <<j, i>> \notin R
      /\ \A i, j \in S : i = j \/ <<i, j>> \in R \/ <<j, i>> \in R
  BY OrderIs
<1>2. \A i, j : <<i, j>> \in Q <=> i # j /\ i \in T /\ j \in T /\ j # k /\ (i = k \/ <<i, j>> \in R)
  BY InFrontIs
<1>3. /\ S = {} => c.head = Nil /\ c.tail = Nil
      /\ S # {} => c.head \in S /\ c.tail \in S
      /\ \A j \in S : j # c.head => <<c.head, j>> \in R /\ Follows(R, S, c.prev[j], j)
      /\ \A j \in S : j # c.tail => <<j, c.tail>> \in R /\ Follows(R, S, j, c.next[j])
      /\ \A j \in S : j = c.tail => c.next[j] = Nil
  BY DEF IsList
<1>4. /\ \A j \in S : d.next[j] = c.next[j]
      /\ d.next[k] = c.head
      /\ \A j \in S : d.prev[j] = IF j = c.head THEN k ELSE c.prev[j]
      /\ d.prev[k] = Nil
      /\ d.head = k
      /\ d.tail = IF S = {} THEN k ELSE c.tail
  BY <1>3 DEF Headed
<1>5. \A i, j : Follows(R, S, i, j) => Follows(Q, T, i, j)
  <2> SUFFICES ASSUME NEW i, NEW j, Follows(R, S, i, j) PROVE Follows(Q, T, i, j)
    OBVIOUS
  <2>1. <<i, j>> \in R /\ i \in S /\ j \in S /\ i # j /\ i # k /\ j # k
    BY <1>1 DEF Follows
  <2>2. <<i, j>> \in Q
    BY <1>2, <2>1
  <2>3. ASSUME NEW h \in T, <<i, h>> \in Q PROVE h = j \/ <<j, h>> \in Q
    <3>1. h \in S /\ <<i, h>> \in R
      BY <1>2, <2>1, <2>3
    <3>2. h = j \/ <<j, h>> \in R
      BY <3>1 DEF Follows
    <3> QED
      BY <1>1, <1>2, <2>1, <3>1, <3>2
  <2> QED
    BY <2>2, <2>3 DEF Follows
<1>6. S # {} => Follows(Q, T, k, c.head)
  <2> SUFFICES ASSUME S # {} PROVE Follows(Q, T, k, c.head)
    OBVIOUS
  <2>1. c.head \in S /\ c.head # k
    BY <1>3
  <2>2. <<k, c.head>> \in Q
    BY <1>2, <2>1
  <2>3. ASSUME NEW h \in T, <<k, h>> \in Q PROVE h = c.head \/ <<c.head, h>> \in Q
    <3>1. h \in S
      BY <1>2, <2>3
    <3> QED
      BY <1>2, <1>3, <2>1, <3>1
  <2> QED
    BY <2>2, <2>3 DEF Follows
<1> HIDE DEF Q
<1>7. T # {} => d.head \in T /\ d.tail \in T
  BY <1>3, <1>4
<1>8. ASSUME NEW j \in T, j # d.head
      PROVE  <<d.head, j>> \in Q /\ Follows(Q, T, d.prev[j], j)
  <2>1. j \in S /\ d.head = k /\ S # {}
    BY <1>4, <1>8
  <2>2. <<k, j>> \in Q
    BY <1>2, <2>1
  <2>3. CASE j = c.head
    BY <1>4, <1>6, <2>1, <2>2, <2>3
  <2>4. CASE j # c.head
    BY <1>3, <1>4, <1>5, <2>1, <2>2, <2>4
  <2> QED
    BY <2>3, <2>4
<1>9. ASSUME NEW j \in T, j # d.tail
      PROVE  <<j, d.tail>> \in Q /\ Follows(Q, T, j, d.next[j])
  <2>1. S # {} /\ d.tail = c.tail /\ c.tail \in S
    BY <1>3, <1>4, <1>9
  <2>2. CASE j = k
    BY <1>2, <1>4, <1>6, <2>1, <2>2
  <2>3. CASE j # k
    <3>1. j \in S /\ d.next[j] = c.next[j]
      BY <1>4, <2>3
    <3>2. <<j, c.tail>> \in R /\ Follows(R, S, j, c.next[j])
      BY <1>3, <1>9, <2>1, <3>1
    <3> QED
      BY <1>2, <1>5, <1>9, <2>1, <3>1, <3>2
  <2> QED
    BY <2>2, <2>3
<1>10. ASSUME NEW j \in T, j = d.head PROVE d.prev[j] = Nil
  BY <1>4, <1>10
<1>11. ASSUME NEW j \in T, j = d.tail PROVE d.next[j] = Nil
  BY <1>3, <1>4, <1>11
<1>12. IsList(d, Q, T)
  <2> HIDE DEF T
  <2>1. T # {}
    BY DEF T
  <2> QED
    BY <1>7, <1>8, <1>9, <1>10, <1>11, <2>1 DEF IsList
<1> QED
  BY <1>12 DEF Q

----------------------------------------------------------------------------
(* The cache *)

LiveEntries == [left : Int, sl : Int, sz : Nat, gone : {FALSE}]
AnyEntries == {Gone} \cup LiveEntries

Caches ==
    [lazy : BOOLEAN, head : Keys0, tail : Keys0,
     next : [CacheKeys -> Keys0], prev : [CacheKeys -> Keys0],
     map : [CacheKeys -> AnyEntries], total : Int, used : Keys0,
     newer : SUBSET (CacheKeys \X CacheKeys)]

SizesOf(m) == [k \in CacheKeys |-> m[k].sz]

Sound(c) ==
    /\ c \in Caches
    /\ IsOrder(c.newer, Stored(c))
    /\ IsList(c, c.newer, Stored(c))
    /\ c.total = SumFunction(SizesOf(c.map))

\* The entries, and what is none.
LEMMA EntriesAre ==
    /\ Gone.sz = 0 /\ Gone.left = -1 /\ Gone.sl = 0 /\ Gone \in AnyEntries
    /\ \A x \in AnyEntries : x.sz \in Nat /\ x.left \in Int /\ x.sl \in Int
    /\ \A x \in AnyEntries : x # Gone <=> x \in LiveEntries
<1>1. Gone.sz = 0 /\ Gone.left = -1 /\ Gone.sl = 0 /\ Gone \in AnyEntries
  BY DEF Gone, Never, AnyEntries
<1>2. \A x \in LiveEntries :
          x.sz \in Nat /\ x.left \in Int /\ x.sl \in Int /\ x # Gone
  <2>1. Gone.gone = TRUE
    BY DEF Gone
  <2>2. \A x \in LiveEntries : x.gone = FALSE
    BY DEF LiveEntries
  <2> QED
    BY <2>1, <2>2 DEF LiveEntries
<1> QED
  BY <1>1, <1>2 DEF AnyEntries

\* The sizes of a map are naturals.
LEMMA SizesAre ==
    \A m \in [CacheKeys -> AnyEntries] :
        /\ SizesOf(m) \in [CacheKeys -> Nat]
        /\ \A k \in CacheKeys : SizesOf(m)[k] = m[k].sz /\ m[k].sz \in Nat
<1> SUFFICES ASSUME NEW m \in [CacheKeys -> AnyEntries]
             PROVE  /\ SizesOf(m) \in [CacheKeys -> Nat]
                    /\ \A k \in CacheKeys : SizesOf(m)[k] = m[k].sz /\ m[k].sz \in Nat
  OBVIOUS
<1>1. \A k \in CacheKeys : m[k] \in AnyEntries
  OBVIOUS
<1>2. \A k \in CacheKeys : m[k].sz \in Nat
  BY <1>1, EntriesAre
<1> QED
  BY <1>2 DEF SizesOf

\* The sum of the sizes changes by what one entry does.
LEMMA SizesChange ==
    ASSUME NEW m \in [CacheKeys -> AnyEntries], NEW k \in CacheKeys, NEW x \in AnyEntries
    PROVE  SumFunction(SizesOf([m EXCEPT ![k] = x])) = SumFunction(SizesOf(m)) - m[k].sz + x.sz
<1>1. SizesOf([m EXCEPT ![k] = x]) = [SizesOf(m) EXCEPT ![k] = x.sz]
  BY DEF SizesOf
<1>2. x.sz \in Nat /\ SizesOf(m)[k] = m[k].sz
  BY EntriesAre, SizesAre
<1> QED
  BY <1>1, <1>2, SizesAre, SumChanges, StoreAssumption

\* What removeNode() does to each field.
LEMMA RemoveIs ==
    ASSUME NEW c \in Caches, NEW k \in CacheKeys, NEW d, d = RemoveNode(c, k)
    PROVE  /\ d \in Caches
           /\ Linked(c, d, k)
           /\ d.map = [c.map EXCEPT ![k] = Gone]
           /\ d.total = c.total - c.map[k].sz
           /\ d.newer = Among(c.newer, Stored(c) \ {k})
           /\ d.lazy = c.lazy /\ d.used = c.used
<1> DEFINE p == c.prev[k]
           n == c.next[k]
           next == [x \in CacheKeys |-> IF x = k THEN Nil ELSE IF x = p THEN n ELSE c.next[x]]
           prev == [x \in CacheKeys |-> IF x = k THEN Nil ELSE IF x = n THEN p ELSE c.prev[x]]
           head == IF p = Nil THEN n ELSE c.head
           tail == IF n = Nil THEN p ELSE c.tail
           map == [c.map EXCEPT ![k] = Gone]
           total == c.total - c.map[k].sz
           newer == Among(c.newer, Stored(c) \ {k})
<1>1. d = [c EXCEPT !.next = next, !.prev = prev, !.head = head, !.tail = tail,
                    !.map = map, !.total = total, !.newer = newer]
  BY DEF RemoveNode, Caches
<1>2. /\ p \in Keys0 /\ n \in Keys0
      /\ next \in [CacheKeys -> Keys0] /\ prev \in [CacheKeys -> Keys0]
      /\ head \in Keys0 /\ tail \in Keys0
  BY DEF Caches, Keys0
<1>3. map \in [CacheKeys -> AnyEntries]
  BY DEF Caches, AnyEntries
<1>4. c.map \in [CacheKeys -> AnyEntries] /\ c.total \in Int
  BY DEF Caches
<1>5. total \in Int
  BY <1>4, SizesAre
<1>6. newer \in SUBSET (CacheKeys \X CacheKeys)
  BY DEF Caches, Among
<1> HIDE DEF next, prev, head, tail, map, total, newer
<1>7. d \in Caches
  BY <1>1, <1>2, <1>3, <1>5, <1>6 DEF Caches
<1>8. /\ d.next = next /\ d.prev = prev /\ d.head = head /\ d.tail = tail
      /\ d.map = map /\ d.total = total /\ d.newer = newer
      /\ d.lazy = c.lazy /\ d.used = c.used
  BY <1>1 DEF Caches
<1> QED
  BY <1>7, <1>8 DEF Linked, next, prev, head, tail, map, total, newer

\* removeNode() of a stored key leaves a sound cache without it.
LEMMA RemoveKeeps ==
    ASSUME NEW c, Sound(c), NEW k \in Stored(c), NEW d, d = RemoveNode(c, k)
    PROVE  /\ Sound(d)
           /\ Stored(d) = Stored(c) \ {k}
           /\ \A j \in CacheKeys \ {k} : d.map[j] = c.map[j]
           /\ d.newer = Among(c.newer, Stored(d))
           /\ d.lazy = c.lazy /\ d.used = c.used
<1>1. c \in Caches /\ k \in CacheKeys /\ Nil \notin CacheKeys
  BY StoreAssumption DEF Sound, Stored
<1>2. /\ d \in Caches
      /\ Linked(c, d, k)
      /\ d.map = [c.map EXCEPT ![k] = Gone]
      /\ d.total = c.total - c.map[k].sz
      /\ d.newer = Among(c.newer, Stored(c) \ {k})
      /\ d.lazy = c.lazy /\ d.used = c.used
  BY <1>1, RemoveIs
<1>3. c.map \in [CacheKeys -> AnyEntries]
  BY <1>1 DEF Caches
<1>4. Stored(d) = Stored(c) \ {k} /\ \A j \in CacheKeys \ {k} : d.map[j] = c.map[j]
  BY <1>1, <1>2, <1>3 DEF Stored
<1>5. IsOrder(d.newer, Stored(d))
  BY <1>2, <1>4, AmongIs DEF Sound
<1>6. IsList(d, d.newer, Stored(d))
  <2>1. Stored(c) \in SUBSET CacheKeys
    BY DEF Stored
  <2> QED
    BY <1>1, <1>2, <1>4, <2>1, ListLoses DEF Sound
<1>7. d.total = SumFunction(SizesOf(d.map))
  <2>1. Gone \in AnyEntries /\ Gone.sz = 0
    BY EntriesAre
  <2>2. SumFunction(SizesOf(d.map)) = SumFunction(SizesOf(c.map)) - c.map[k].sz + 0
    BY <1>1, <1>2, <1>3, <2>1, SizesChange
  <2>3. c.total = SumFunction(SizesOf(c.map)) /\ c.total \in Int /\ c.map[k].sz \in Nat
    BY <1>1, <1>3, SizesAre DEF Sound, Caches
  <2> QED
    BY <1>2, <2>2, <2>3
<1> QED
  BY <1>2, <1>4, <1>5, <1>6, <1>7 DEF Sound

\* What the front of the list gets: addToFront() of a new node and
\* moveToFront() of an old one.
Fronted(c, d, k) ==
    /\ Sound(d)
    /\ d.newer = InFront(c.newer, k, Stored(c))
    /\ d.map = c.map /\ d.lazy = c.lazy /\ d.used = c.used

\* addToFront() makes a sound cache of one whose list lacks one stored key.
LEMMA AddGains ==
    ASSUME NEW c \in Caches, NEW k \in Stored(c), NEW d, d = AddToFront(c, k),
           IsOrder(c.newer, Stored(c) \ {k}), IsList(c, c.newer, Stored(c) \ {k}),
           c.total = SumFunction(SizesOf(c.map))
    PROVE  Fronted(c, d, k)
<1> DEFINE S == Stored(c) \ {k}
           next == [c.next EXCEPT ![k] = c.head]
           prev == [x \in CacheKeys |-> IF x = k THEN Nil ELSE IF x = c.head THEN k ELSE c.prev[x]]
           tail == IF c.tail = Nil THEN k ELSE c.tail
           newer == InFront(c.newer, k, Stored(c))
<1>1. d = [c EXCEPT !.next = next, !.prev = prev, !.head = k, !.tail = tail, !.newer = newer]
  BY DEF AddToFront, Caches
<1>2. /\ S \in SUBSET CacheKeys /\ k \in CacheKeys \ S /\ Stored(c) = S \cup {k}
      /\ k \in CacheKeys /\ Nil \notin CacheKeys
  BY StoreAssumption DEF Stored
<1>3. /\ next \in [CacheKeys -> Keys0] /\ prev \in [CacheKeys -> Keys0]
      /\ k \in Keys0 /\ tail \in Keys0 /\ DOMAIN c.next = CacheKeys
  BY <1>2 DEF Caches, Keys0
<1>4. IsOrder(newer, Stored(c))
  BY <1>2, InFrontIs
<1>5. newer \in SUBSET (CacheKeys \X CacheKeys)
  <2>1. Stored(c) \subseteq CacheKeys
    BY DEF Stored
  <2> QED
    BY <1>4, <2>1 DEF IsOrder
<1> HIDE DEF S, next, prev, tail, newer
<1>6. d \in Caches
  BY <1>1, <1>3, <1>5 DEF Caches
<1>7. /\ d.next = next /\ d.prev = prev /\ d.head = k /\ d.tail = tail /\ d.newer = newer
      /\ d.map = c.map /\ d.total = c.total /\ d.lazy = c.lazy /\ d.used = c.used
  BY <1>1 DEF Caches
<1>8. Stored(d) = Stored(c)
  BY <1>7 DEF Stored
<1>9. Headed(c, d, k)
  BY <1>7 DEF Headed, next, prev, tail
<1>10. IsList(d, InFront(c.newer, k, S \cup {k}), S \cup {k})
  <2>1. IsOrder(c.newer, S) /\ IsList(c, c.newer, S)
    BY DEF S
  <2> QED
    BY <1>2, <1>3, <1>9, <2>1, ListGains
<1>11. IsList(d, d.newer, Stored(d))
  BY <1>2, <1>7, <1>8, <1>10 DEF newer
<1>12. Sound(d)
  BY <1>4, <1>6, <1>7, <1>8, <1>11 DEF Sound
<1> QED
  BY <1>7, <1>12 DEF Fronted, newer

\* The first key of a list is in front of all others.
LEMMA HeadIsFirst ==
    ASSUME NEW c, NEW R, NEW S, IsOrder(R, S), IsList(c, R, S), c.head \in S
    PROVE  InFront(R, c.head, S) = R
<1> DEFINE k == c.head
           Q == InFront(R, k, S)
<1>1. S = S \cup {k}
  OBVIOUS
<1>2. /\ IsOrder(InFront(R, k, S \cup {k}), S \cup {k})
      /\ \A i, j : <<i, j>> \in InFront(R, k, S \cup {k})
             <=> i # j /\ i \in S \cup {k} /\ j \in S /\ j # k /\ (i = k \/ <<i, j>> \in R)
  BY InFrontIs
<1>3. /\ IsOrder(Q, S)
      /\ \A i, j : <<i, j>> \in Q <=> i # j /\ i \in S /\ j \in S /\ j # k /\ (i = k \/ <<i, j>> \in R)
  BY <1>1, <1>2
<1>4. \A i, j : <<i, j>> \in Q <=> <<i, j>> \in R
  <2>1. \A j \in S : j # k => <<k, j>> \in R
    BY DEF IsList
  <2>2. \A i, j : <<i, j>> \in R => i \in S /\ j \in S /\ i # j /\ <<j, i>> \notin R
    BY OrderIs
  <2> HIDE DEF Q, k
  <2> QED
    BY <1>3, <2>1, <2>2
<1>5. Q \subseteq S \X S /\ R \subseteq S \X S
  BY <1>3 DEF IsOrder
<1> HIDE DEF Q
<1>6. Q = R
  BY <1>4, <1>5
<1> QED
  BY <1>6 DEF Q

\* moveToFront() keeps a cache sound and puts the key before the others.
LEMMA MoveKeeps ==
    ASSUME NEW c, Sound(c), NEW k \in Stored(c), NEW d, d = MoveToFront(c, k)
    PROVE  Fronted(c, d, k)
<1>1. c \in Caches /\ k \in CacheKeys /\ Nil \notin CacheKeys
  BY StoreAssumption DEF Sound, Stored
<1>2. CASE c.head = k
  <2>1. d = c
    BY <1>2 DEF MoveToFront
  <2>2. InFront(c.newer, k, Stored(c)) = c.newer
    BY <1>2, HeadIsFirst DEF Sound
  <2> QED
    BY <2>1, <2>2 DEF Fronted
<1>3. CASE c.head # k
  <2> DEFINE S == Stored(c)
             T == S \ {k}
             R == c.newer
             p == c.prev[k]
             n == c.next[k]
             next == [x \in CacheKeys |->
                         IF x = k THEN c.head ELSE IF x = p THEN n ELSE c.next[x]]
             prev == [x \in CacheKeys |->
                         IF x = k THEN Nil ELSE IF x = c.head THEN k
                         ELSE IF x = n THEN p ELSE c.prev[x]]
             tail == IF n = Nil THEN p ELSE c.tail
             newer == InFront(R, k, S)
             b == [next |-> [x \in CacheKeys |->
                                IF x = k THEN Nil ELSE IF x = p THEN n ELSE c.next[x]],
                   prev |-> [x \in CacheKeys |->
                                IF x = k THEN Nil ELSE IF x = n THEN p ELSE c.prev[x]],
                   head |-> IF p = Nil THEN n ELSE c.head, tail |-> tail]
  <2>1. d = [c EXCEPT !.next = next, !.prev = prev, !.head = k, !.tail = tail, !.newer = newer]
    BY <1>3 DEF MoveToFront, Caches
  <2>2. /\ p \in Keys0 /\ n \in Keys0 /\ k \in Keys0
        /\ next \in [CacheKeys -> Keys0] /\ prev \in [CacheKeys -> Keys0] /\ tail \in Keys0
    BY <1>1 DEF Caches, Keys0
  <2>3. S \in SUBSET CacheKeys /\ T \in SUBSET CacheKeys /\ k \in CacheKeys \ T /\ T \cup {k} = S
    BY <1>1 DEF Stored
  <2>4. IsOrder(R, S) /\ IsList(c, R, S)
    BY DEF Sound
  <2>5. IsOrder(newer, S)
    <3>1. S \cup {k} = S
      BY <2>3
    <3> QED
      BY <2>4, <3>1, InFrontIs
  <2>6. newer \in SUBSET (CacheKeys \X CacheKeys)
    BY <2>3, <2>5 DEF IsOrder
  <2>7. Linked(c, b, k)
    BY DEF Linked
  <2>8. IsList(b, Among(R, T), T)
    <3> HIDE DEF b, R, p, n, S
    <3> QED
      BY <1>1, <2>3, <2>4, <2>7, ListLoses
  <2>9. IsOrder(Among(R, T), T)
    BY <2>3, <2>4, AmongIs
  <2>10. p # Nil /\ p \in CacheKeys
    <3>1. Follows(R, S, p, k)
      BY <1>3, <2>4 DEF IsList
    <3>2. \A i, j : <<i, j>> \in R => i \in S
      BY <2>4 DEF IsOrder
    <3>3. p \in S
      BY <3>1, <3>2 DEF Follows
    <3> QED
      BY <1>1, <2>3, <3>3
  <2>11. b.head = c.head /\ b.tail = tail /\ tail # Nil
    <3>1. c.tail \in S
      BY <2>4 DEF IsList
    <3> QED
      BY <1>1, <2>3, <2>10, <3>1
  <2>12. DOMAIN b.next = CacheKeys /\ b.next[k] = Nil
    BY <1>1
  <2>13. next = [b.next EXCEPT ![k] = b.head]
    BY <1>1, <2>11
  <2>14. prev = [x \in CacheKeys |-> IF x = k THEN Nil ELSE IF x = b.head THEN k ELSE b.prev[x]]
    BY <2>11
  <2> HIDE DEF S, T, R, p, n, next, prev, tail, newer, b
  <2>15. d \in Caches
    BY <1>1, <2>1, <2>2, <2>6 DEF Caches
  <2>16. /\ d.next = next /\ d.prev = prev /\ d.head = k /\ d.tail = tail /\ d.newer = newer
         /\ d.map = c.map /\ d.total = c.total /\ d.lazy = c.lazy /\ d.used = c.used
    BY <1>1, <2>1 DEF Caches
  <2>17. Headed(b, d, k)
    BY <2>11, <2>13, <2>14, <2>16 DEF Headed
  <2>18. IsList(d, InFront(Among(R, T), k, T \cup {k}), T \cup {k})
    BY <1>1, <2>3, <2>8, <2>9, <2>12, <2>17, ListGains
  <2>19. InFront(Among(R, T), k, T \cup {k}) = newer
    <3>1. Among(Among(R, T), T) = Among(R, T)
      BY DEF Among
    <3>2. S \ {k} = T /\ (T \cup {k}) \ {k} = T
      BY <2>3 DEF T
    <3> QED
      BY <3>1, <3>2 DEF InFront, newer
  <2>20. Stored(d) = S
    BY <2>16 DEF S, Stored
  <2>21. IsList(d, d.newer, Stored(d)) /\ IsOrder(d.newer, Stored(d))
    BY <2>3, <2>5, <2>16, <2>18, <2>19, <2>20
  <2>22. Sound(d)
    BY <2>15, <2>16, <2>21 DEF Sound
  <2> QED
    BY <2>16, <2>22 DEF Fronted, newer, R, S
<1> QED
  BY <1>2, <1>3

----------------------------------------------------------------------------
(* Sweeps *)

\* d is c without some of its keys.
Within(c, d) ==
    /\ Sound(d)
    /\ Stored(d) \subseteq Stored(c)
    /\ \A k \in Stored(d) : d.map[k] = c.map[k]
    /\ d.newer = Among(c.newer, Stored(d))
    /\ d.lazy = c.lazy /\ d.used = c.used

\* d is c without some of its expired keys.
Swept(c, d) ==
    /\ Within(c, d)
    /\ \A k \in Stored(c) \ Stored(d) : IsExpired(c.map[k])

\* A sound cache is what it is,
LEMMA WithinItself ==
    ASSUME NEW c, Sound(c)
    PROVE  Swept(c, c)
<1>1. Among(c.newer, Stored(c)) = c.newer
  BY DEF Among, Sound, IsOrder
<1> QED
  BY <1>1 DEF Swept, Within

\* and with one node less it is a part of what it was.
LEMMA RemoveStaysWithin ==
    ASSUME NEW c, NEW d, Within(c, d), NEW k \in Stored(d), NEW e, e = RemoveNode(d, k)
    PROVE  Within(c, e) /\ Stored(e) = Stored(d) \ {k}
<1>1. /\ Sound(e) /\ Stored(e) = Stored(d) \ {k}
      /\ \A j \in CacheKeys \ {k} : e.map[j] = d.map[j]
      /\ e.newer = Among(d.newer, Stored(e))
      /\ e.lazy = d.lazy /\ e.used = d.used
  BY RemoveKeeps DEF Within
<1>2. d.newer = Among(c.newer, Stored(d))
  BY DEF Within
<1>3. e.newer = Among(c.newer, Stored(e))
  BY <1>1, <1>2 DEF Among
<1>4. \A j \in Stored(e) : e.map[j] = c.map[j]
  BY <1>1 DEF Within, Stored
<1> QED
  BY <1>1, <1>3, <1>4 DEF Within

\* The states of a sweep, and one turn of it along the links L.
Strides == [c : Caches, at : Keys0]

Stride(L) ==
    [w \in Strides |->
        IF w.at = Nil THEN w
        ELSE [c |-> RemoveIfExpired(w.c, w.at), at |-> L[w.c][w.at]]]

\* A turn leads to a state of the sweep.
LEMMA StridesAre ==
    ASSUME NEW L \in [Caches -> [CacheKeys -> Keys0]]
    PROVE  Stride(L) \in [Strides -> Strides]
<1> SUFFICES ASSUME NEW w \in Strides, w.at # Nil
             PROVE  [c |-> RemoveIfExpired(w.c, w.at), at |-> L[w.c][w.at]] \in Strides
  BY DEF Stride
<1>1. w.c \in Caches /\ w.at \in CacheKeys
  BY DEF Strides, Keys0
<1>2. RemoveIfExpired(w.c, w.at) \in Caches
  BY <1>1, RemoveIs DEF RemoveIfExpired
<1>3. L[w.c][w.at] \in Keys0
  BY <1>1
<1> QED
  BY <1>2, <1>3 DEF Strides

\* A sweep along the links drops expired keys only.
LEMMA SweepKeeps ==
    ASSUME NEW c, Sound(c), NEW start \in Stored(c) \cup {Nil}, NEW n \in Nat,
           NEW L \in [Caches -> [CacheKeys -> Keys0]],
           \A d \in Caches : L[d] = d.next \/ L[d] = d.prev,
           NEW g, IsLoop(Strides, [c |-> c, at |-> start], Stride(L), n, g)
    PROVE  Swept(c, g[n].c)
<1> DEFINE a == [c |-> c, at |-> start]
           Q == {q \in (0..n) \X Strides :
                    Swept(c, q[2].c) /\ q[2].at \in Stored(q[2].c) \cup {Nil}}
<1>1. a \in Strides
  BY DEF Strides, Sound, Keys0, Stored
<1>2. <<0, a>> \in Q
  BY <1>1, WithinItself
<1>3. ASSUME NEW i \in 1..n, NEW w \in Strides, <<i - 1, w>> \in Q
      PROVE  <<i, Stride(L)[w]>> \in Q
  <2> DEFINE d == w.c
             k == w.at
             e == RemoveIfExpired(d, k)
             v == Stride(L)[w]
  <2>1. Swept(c, d) /\ k \in Stored(d) \cup {Nil} /\ i \in 0..n
    BY <1>3
  <2>2. v \in Strides
    BY StridesAre
  <2>3. CASE k = Nil
    <3>1. v = w
      BY <2>3 DEF Stride
    <3> QED
      BY <2>1, <2>2, <3>1
  <2>4. CASE k # Nil
    <3>1. v = [c |-> e, at |-> L[d][k]]
      BY <2>4 DEF Stride
    <3>2. k \in Stored(d) /\ Sound(d) /\ Within(c, d) /\ d \in Caches
      BY <2>1, <2>4 DEF Swept, Within, Sound
    <3>3. Swept(c, e) /\ Stored(d) \ {k} \subseteq Stored(e)
      <4>1. CASE IsExpired(d.map[k])
        <5>1. e = RemoveNode(d, k)
          BY <4>1 DEF RemoveIfExpired
        <5> HIDE DEF e
        <5>2. Within(c, e) /\ Stored(e) = Stored(d) \ {k}
          BY <3>2, <5>1, RemoveStaysWithin
        <5>3. IsExpired(c.map[k])
          BY <3>2, <4>1 DEF Within
        <5> QED
          BY <2>1, <5>2, <5>3 DEF Swept
      <4>2. CASE ~ IsExpired(d.map[k])
        BY <2>1, <4>2 DEF RemoveIfExpired
      <4> QED
        BY <4>1, <4>2
    <3>4. L[d][k] \in (Stored(d) \ {k}) \cup {Nil}
      <4>1. IsOrder(d.newer, Stored(d)) /\ IsList(d, d.newer, Stored(d))
        BY <3>2 DEF Sound
      <4> QED
        BY <3>2, <4>1, NeighboursAre
    <3> HIDE DEF e, d, k, v
    <3>5. Swept(c, v.c) /\ v.at \in Stored(v.c) \cup {Nil}
      BY <3>1, <3>3, <3>4
    <3> QED
      BY <2>1, <2>2, <3>5 DEF v
  <2> QED
    BY <2>3, <2>4
<1>4. \A i \in 0..n : <<i, g[i]>> \in Q
  <2>1. Stride(L) \in [Strides -> Strides]
    BY StridesAre
  <2>2. IsLoop(Strides, a, Stride(L), n, g)
    OBVIOUS
  <2> HIDE DEF Q, a
  <2> QED
    BY <1>1, <1>2, <1>3, <2>1, <2>2, LoopKeeps
<1> QED
  <2>1. n \in 0..n
    OBVIOUS
  <2>2. <<n, g[n]>> \in Q
    BY <1>4, <2>1
  <2> QED
    BY <2>2

\* The walk of batchedSweep().
PrevWalk(c, start, n, walk) ==
    walk = [i \in 0..n |->
               IF i = 0 THEN [c |-> c, at |-> start]
               ELSE LET w == walk[i - 1]
                    IN  IF w.at = Nil THEN w
                        ELSE [c |-> RemoveIfExpired(w.c, w.at), at |-> w.c.prev[w.at]]]

\* It can be walked, and drops expired keys only.
LEMMA PrevWalks ==
    ASSUME NEW c, Sound(c), NEW start \in Stored(c) \cup {Nil}, NEW n \in Nat
    PROVE  /\ \E g : PrevWalk(c, start, n, g)
           /\ \A g : PrevWalk(c, start, n, g) => Swept(c, g[n].c)
<1> DEFINE a == [c |-> c, at |-> start]
           L == [d \in Caches |-> d.prev]
<1>1. a \in Strides
  BY DEF Strides, Sound, Keys0, Stored
<1>2. L \in [Caches -> [CacheKeys -> Keys0]] /\ \A d \in Caches : L[d] = d.prev
  BY DEF Caches
<1> HIDE DEF L, a
<1>3. Stride(L) \in [Strides -> Strides]
  BY <1>2, StridesAre
<1>4. \A w \in Strides : Stride(L)[w] = IF w.at = Nil THEN w
         ELSE [c |-> RemoveIfExpired(w.c, w.at), at |-> w.c.prev[w.at]]
  BY <1>2 DEF Stride, Strides
<1>5. PICK h : IsLoop(Strides, a, Stride(L), n, h)
  BY <1>1, <1>3, LoopRuns
<1>6. PrevWalk(c, start, n, h)
  <2>1. h \in [0..n -> Strides] /\ h[0] = a /\ \A i \in 1..n : h[i] = Stride(L)[h[i - 1]]
    BY <1>5 DEF IsLoop
  <2>2. ASSUME NEW i \in 0..n
        PROVE  h[i] = IF i = 0 THEN [c |-> c, at |-> start]
                      ELSE LET w == h[i - 1]
                           IN  IF w.at = Nil THEN w
                               ELSE [c |-> RemoveIfExpired(w.c, w.at), at |-> w.c.prev[w.at]]
    <3>1. CASE i = 0
      BY <2>1, <3>1 DEF a
    <3>2. CASE i # 0
      <4>1. i \in 1..n /\ i - 1 \in 0..n
        BY <3>2
      <4>2. h[i] = Stride(L)[h[i - 1]] /\ h[i - 1] \in Strides
        BY <2>1, <4>1
      <4> QED
        BY <1>4, <3>2, <4>2
    <3> QED
      BY <3>1, <3>2
  <2>3. h = [i \in 0..n |-> h[i]]
    BY <2>1
  <2> QED
    BY <2>2, <2>3 DEF PrevWalk
<1>7. ASSUME NEW g, PrevWalk(c, start, n, g) PROVE Swept(c, g[n].c)
  <2>1. g = [i \in 0..n |-> g[i]] /\ g[0] = a
    BY <1>7 DEF PrevWalk, a
  <2>2. ASSUME NEW i \in 1..n, g[i - 1] \in Strides PROVE g[i] = Stride(L)[g[i - 1]]
    <3>1. i \in 0..n /\ i # 0
      OBVIOUS
    <3>2. g[i] = IF g[i - 1].at = Nil THEN g[i - 1]
                 ELSE [c |-> RemoveIfExpired(g[i - 1].c, g[i - 1].at),
                       at |-> g[i - 1].c.prev[g[i - 1].at]]
      BY <1>7, <3>1 DEF PrevWalk
    <3> QED
      BY <1>4, <2>2, <3>2
  <2>3. IsLoop(Strides, a, Stride(L), n, g)
    BY <1>1, <1>3, <2>1, <2>2, LoopIs
  <2> QED
    BY <1>2, <2>3, SweepKeeps DEF a
<1> QED
  BY <1>6, <1>7

\* The walk of sweep().
NextWalk(c, start, n, walk) ==
    walk = [i \in 0..n |->
               IF i = 0 THEN [c |-> c, at |-> start]
               ELSE LET w == walk[i - 1]
                    IN  IF w.at = Nil THEN w
                        ELSE [c |-> RemoveIfExpired(w.c, w.at), at |-> w.c.next[w.at]]]

\* It can be walked, and drops expired keys only.
LEMMA NextWalks ==
    ASSUME NEW c, Sound(c), NEW start \in Stored(c) \cup {Nil}, NEW n \in Nat
    PROVE  /\ \E g : NextWalk(c, start, n, g)
           /\ \A g : NextWalk(c, start, n, g) => Swept(c, g[n].c)
<1> DEFINE a == [c |-> c, at |-> start]
           L == [d \in Caches |-> d.next]
<1>1. a \in Strides
  BY DEF Strides, Sound, Keys0, Stored
<1>2. L \in [Caches -> [CacheKeys -> Keys0]] /\ \A d \in Caches : L[d] = d.next
  BY DEF Caches
<1> HIDE DEF L, a
<1>3. Stride(L) \in [Strides -> Strides]
  BY <1>2, StridesAre
<1>4. \A w \in Strides : Stride(L)[w] = IF w.at = Nil THEN w
         ELSE [c |-> RemoveIfExpired(w.c, w.at), at |-> w.c.next[w.at]]
  BY <1>2 DEF Stride, Strides
<1>5. PICK h : IsLoop(Strides, a, Stride(L), n, h)
  BY <1>1, <1>3, LoopRuns
<1>6. NextWalk(c, start, n, h)
  <2>1. h \in [0..n -> Strides] /\ h[0] = a /\ \A i \in 1..n : h[i] = Stride(L)[h[i - 1]]
    BY <1>5 DEF IsLoop
  <2>2. ASSUME NEW i \in 0..n
        PROVE  h[i] = IF i = 0 THEN [c |-> c, at |-> start]
                      ELSE LET w == h[i - 1]
                           IN  IF w.at = Nil THEN w
                               ELSE [c |-> RemoveIfExpired(w.c, w.at), at |-> w.c.next[w.at]]
    <3>1. CASE i = 0
      BY <2>1, <3>1 DEF a
    <3>2. CASE i # 0
      <4>1. i \in 1..n /\ i - 1 \in 0..n
        BY <3>2
      <4>2. h[i] = Stride(L)[h[i - 1]] /\ h[i - 1] \in Strides
        BY <2>1, <4>1
      <4> QED
        BY <1>4, <3>2, <4>2
    <3> QED
      BY <3>1, <3>2
  <2>3. h = [i \in 0..n |-> h[i]]
    BY <2>1
  <2> QED
    BY <2>2, <2>3 DEF NextWalk
<1>7. ASSUME NEW g, NextWalk(c, start, n, g) PROVE Swept(c, g[n].c)
  <2>1. g = [i \in 0..n |-> g[i]] /\ g[0] = a
    BY <1>7 DEF NextWalk, a
  <2>2. ASSUME NEW i \in 1..n, g[i - 1] \in Strides PROVE g[i] = Stride(L)[g[i - 1]]
    <3>1. i \in 0..n /\ i # 0
      OBVIOUS
    <3>2. g[i] = IF g[i - 1].at = Nil THEN g[i - 1]
                 ELSE [c |-> RemoveIfExpired(g[i - 1].c, g[i - 1].at),
                       at |-> g[i - 1].c.next[g[i - 1].at]]
      BY <1>7, <3>1 DEF NextWalk
    <3> QED
      BY <1>4, <2>2, <3>2
  <2>3. IsLoop(Strides, a, Stride(L), n, g)
    BY <1>1, <1>3, <2>1, <2>2, LoopIs
  <2> QED
    BY <1>2, <2>3, SweepKeeps DEF a
<1> QED
  BY <1>6, <1>7

\* What is left of a sound cache after a sweep.
LEMMA SweepsAre ==
    ASSUME NEW c, Sound(c)
    PROVE  Swept(c, BatchedSweep(c)) /\ Swept(c, FullSweep(c))
<1> DEFINE n == Cardinality(CacheKeys)
<1>1. n \in Nat /\ MaxChecks \in Nat
  BY StoreAssumption, FS_CardinalityType
<1>2. c.head \in Stored(c) \cup {Nil} /\ c.tail \in Stored(c) \cup {Nil}
  BY DEF Sound, IsList
<1>3. Swept(c, BatchedSweep(c))
  <2> DEFINE g == CHOOSE g : PrevWalk(c, c.tail, MaxChecks, g)
  <2>1. BatchedSweep(c) = g[MaxChecks].c
    BY DEF BatchedSweep, PrevWalk
  <2>2. PrevWalk(c, c.tail, MaxChecks, g)
    BY <1>1, <1>2, PrevWalks
  <2> QED
    BY <1>1, <1>2, <2>1, <2>2, PrevWalks
<1>4. Swept(c, FullSweep(c))
  <2> DEFINE g == CHOOSE g : NextWalk(c, c.head, n, g)
  <2>1. FullSweep(c) = g[n].c
    BY DEF FullSweep, NextWalk
  <2>2. NextWalk(c, c.head, n, g)
    BY <1>1, <1>2, NextWalks
  <2> QED
    BY <1>1, <1>2, <2>1, <2>2, NextWalks
<1> QED
  BY <1>3, <1>4

----------------------------------------------------------------------------
(* Eviction *)

\* The keys of c up to j, from the newest.
UpTo(c, j) == {i \in Stored(c) : i = j \/ <<i, j>> \in c.newer}

\* d is c without the oldest keys, none of which fits with the newer ones.
Trimmed(c, d) ==
    /\ Within(c, d)
    /\ \A j \in Stored(d), i \in Stored(c) : <<i, j>> \in c.newer => i \in Stored(d)
    /\ \A j \in Stored(c) \ Stored(d) : ~ Lru!Fits(UpTo(c, j), c.map)

SizesIn(S, m) == [k \in CacheKeys |-> IF k \in S THEN m[k].sz ELSE 0]

\* What fits, in the words of this module.
LEMMA FitsIs ==
    \A S, m : Lru!Fits(S, m) <=>
        Cardinality(S) <= MaxEntries /\ SumFunction(SizesIn(S, m)) <= MaxSize
<1>1. \A S : Lru!Cardinality(S) = Cardinality(S)
  BY DEF Lru!Cardinality, Cardinality
<1>2. \A f : Lru!SumFunction(f) = SumFunction(f)
  BY DEF Lru!SumFunction, Lru!SumFunctionOnSet, Lru!FoldFunctionOnSet, Lru!MapThenFoldSet,
         SumFunction, SumFunctionOnSet, FoldFunctionOnSet, MapThenFoldSet
<1> QED
  BY <1>1, <1>2 DEF Lru!Fits, SizesIn

\* The total of a part of a cache is the size of its keys.
LEMMA TotalWithin ==
    ASSUME NEW c, NEW d, Within(c, d)
    PROVE  d.total = SumFunction(SizesIn(Stored(d), c.map))
<1>1. SizesOf(d.map) = SizesIn(Stored(d), c.map)
  <2>1. \A k \in CacheKeys \ Stored(d) : d.map[k] = Gone
    BY DEF Stored
  <2>2. \A k \in CacheKeys : d.map[k].sz = IF k \in Stored(d) THEN c.map[k].sz ELSE 0
    BY <2>1, EntriesAre DEF Within
  <2> QED
    BY <2>2 DEF SizesOf, SizesIn
<1> QED
  BY <1>1 DEF Within, Sound

\* Fewer keys are no larger,
LEMMA FewerWeighLess ==
    ASSUME NEW m \in [CacheKeys -> AnyEntries], NEW T \in SUBSET CacheKeys, NEW S \in SUBSET T
    PROVE  /\ SumFunction(SizesIn(S, m)) \in Nat /\ SumFunction(SizesIn(T, m)) \in Nat
           /\ SumFunction(SizesIn(S, m)) <= SumFunction(SizesIn(T, m))
<1>1. /\ SizesIn(S, m) \in [CacheKeys -> Nat] /\ SizesIn(T, m) \in [CacheKeys -> Nat]
      /\ \A k \in CacheKeys : SizesIn(S, m)[k] <= SizesIn(T, m)[k]
  <2>1. \A k \in CacheKeys : m[k].sz \in Nat
    BY SizesAre
  <2> QED
    BY <2>1 DEF SizesIn
<1>2. \A k \in CacheKeys : SizesIn(T, m)[k] <= SizesIn(T, m)[k]
  BY <1>1
<1>3. SumFunction(SizesIn(S, m)) \in Nat /\ SumFunction(SizesIn(S, m)) <= SumFunction(SizesIn(T, m))
  BY <1>1, StoreAssumption, SumGrows
<1>4. SumFunction(SizesIn(T, m)) \in Nat
  BY <1>1, <1>2, StoreAssumption, SumGrows
<1> QED
  BY <1>3, <1>4

\* and fit where more do.
LEMMA FewerFit ==
    ASSUME NEW m \in [CacheKeys -> AnyEntries], NEW T \in SUBSET CacheKeys, NEW S \in SUBSET T,
           Lru!Fits(T, m)
    PROVE  Lru!Fits(S, m)
<1>1. IsFiniteSet(T) /\ IsFiniteSet(S)
  BY StoreAssumption, FS_Subset
<1>2. Cardinality(S) <= Cardinality(T) /\ Cardinality(S) \in Nat /\ Cardinality(T) \in Nat
  BY <1>1, FS_Subset, FS_CardinalityType
<1>3. MaxEntries \in Nat /\ MaxSize \in Nat
  BY StoreAssumption
<1>4. Cardinality(T) <= MaxEntries /\ SumFunction(SizesIn(T, m)) <= MaxSize
  BY FitsIs
<1>5. /\ SumFunction(SizesIn(S, m)) \in Nat /\ SumFunction(SizesIn(T, m)) \in Nat
      /\ SumFunction(SizesIn(S, m)) <= SumFunction(SizesIn(T, m))
  BY FewerWeighLess
<1>6. Cardinality(S) <= MaxEntries /\ SumFunction(SizesIn(S, m)) <= MaxSize
  BY <1>2, <1>3, <1>4, <1>5
<1> QED
  BY <1>6, FitsIs

\* A part of a cache that is over a limit does not fit, and one that is over
\* none does.
LEMMA OverIs ==
    ASSUME NEW c, NEW d, Within(c, d)
    PROVE  /\ \A limit : Over(d, limit) => ~ Lru!Fits(Stored(d), c.map)
           /\ ~ OverSize(d) /\ ~ OverCount(d) => Lru!Fits(Stored(d), c.map)
<1>1. d.total = SumFunction(SizesIn(Stored(d), c.map))
  BY TotalWithin
<1>2. Lru!Fits(Stored(d), c.map) <=> Cardinality(Stored(d)) <= MaxEntries /\ d.total <= MaxSize
  BY <1>1, FitsIs
<1>3. Cardinality(Stored(d)) \in Nat /\ d.total \in Int /\ MaxEntries \in Nat /\ MaxSize \in Nat
  <2>1. IsFiniteSet(Stored(d))
    BY StoreAssumption, FS_Subset DEF Stored
  <2> QED
    BY <2>1, StoreAssumption, FS_CardinalityType DEF Within, Sound, Caches
<1> QED
  BY <1>2, <1>3 DEF Over, OverSize, OverCount

\* The tail goes, which does not fit with the rest.
LEMMA TailGoes ==
    ASSUME NEW c, Sound(c), NEW d, Trimmed(c, d), NEW limit, Over(d, limit), d.tail # Nil,
           NEW e, e = RemoveNode(d, d.tail)
    PROVE  /\ Trimmed(c, e)
           /\ d.tail \in Stored(d) /\ Stored(e) = Stored(d) \ {d.tail}
<1> DEFINE t == d.tail
<1>1. Within(c, d) /\ Sound(d) /\ Sound(c)
  BY DEF Trimmed, Within
<1>2. t \in Stored(d) /\ \A j \in Stored(d) : j # t => <<j, t>> \in d.newer
  BY <1>1 DEF Sound, IsList
<1>3. Within(c, e) /\ Stored(e) = Stored(d) \ {t}
  BY <1>1, <1>2, RemoveStaysWithin
<1>4. \A i, j : <<i, j>> \in c.newer => i # j /\ <<j, i>> \notin c.newer
  BY <1>1, OrderIs DEF Sound
<1>5. \A i, j : <<i, j>> \in d.newer => <<i, j>> \in c.newer
  BY <1>1 DEF Within, Among
<1>6. ASSUME NEW j \in Stored(e), NEW i \in Stored(c), <<i, j>> \in c.newer PROVE i \in Stored(e)
  <2>1. j \in Stored(d) /\ j # t
    BY <1>3
  <2>2. i \in Stored(d)
    BY <1>6, <2>1 DEF Trimmed
  <2>3. i # t
    BY <1>2, <1>4, <1>5, <1>6, <2>1
  <2> QED
    BY <1>3, <2>2, <2>3
<1>7. UpTo(c, t) = Stored(d)
  <2>1. \A i \in Stored(d) : i \in UpTo(c, t)
    BY <1>1, <1>2, <1>5 DEF UpTo, Within
  <2>2. \A i \in UpTo(c, t) : i \in Stored(d)
    BY <1>2 DEF UpTo, Trimmed
  <2> QED
    BY <2>1, <2>2
<1>8. ~ Lru!Fits(UpTo(c, t), c.map)
  BY <1>1, <1>7, OverIs
<1>9. \A j \in Stored(c) \ Stored(e) : ~ Lru!Fits(UpTo(c, j), c.map)
  BY <1>3, <1>8 DEF Trimmed
<1> QED
  BY <1>2, <1>3, <1>6, <1>9 DEF Trimmed

\* A cache over a limit has a tail to remove.
LEMMA OverHasTail ==
    ASSUME NEW d, Sound(d), NEW limit, Over(d, limit)
    PROVE  d.tail \in Stored(d) /\ d.tail # Nil
<1>1. Nil \notin Stored(d) /\ IsFiniteSet(CacheKeys) /\ MaxEntries \in Nat /\ MaxSize \in Nat
  BY StoreAssumption DEF Stored
<1>2. Stored(d) # {}
  <2> SUFFICES ASSUME Stored(d) = {} PROVE FALSE
    OBVIOUS
  <2>1. Cardinality(Stored(d)) = 0
    BY FS_EmptySet
  <2>2. d.map \in [CacheKeys -> AnyEntries] /\ \A k \in CacheKeys : d.map[k] = Gone
    BY DEF Sound, Caches, Stored
  <2>3. SizesOf(d.map) \in [CacheKeys -> Nat] /\ \A k \in CacheKeys : SizesOf(d.map)[k] = 0
    BY <2>2, SizesAre, EntriesAre
  <2>4. d.total = 0
    BY <1>1, <2>3, SumOfNothing DEF Sound
  <2> QED
    BY <1>1, <2>1, <2>4 DEF Over, OverSize, OverCount
<1> QED
  BY <1>1, <1>2 DEF Sound, IsList

\* One turn of a loop of evict().
Trim(limit) ==
    [d \in Caches |-> IF Over(d, limit) /\ d.tail # Nil THEN RemoveNode(d, d.tail) ELSE d]

TrimRun(c, limit, n, trim) ==
    trim = [i \in 0..n |->
               IF i = 0 THEN c
               ELSE LET d == trim[i - 1]
                    IN  IF Over(d, limit) /\ d.tail # Nil THEN RemoveNode(d, d.tail) ELSE d]

\* A turn leads to a cache.
LEMMA TrimsAre == \A limit : Trim(limit) \in [Caches -> Caches]
<1> SUFFICES ASSUME NEW d \in Caches, d.tail # Nil PROVE RemoveNode(d, d.tail) \in Caches
  BY DEF Trim
<1>1. d.tail \in CacheKeys
  BY DEF Caches, Keys0
<1> QED
  BY <1>1, RemoveIs

\* After as many turns as there are keys the limit is kept, and what went does
\* not fit.
LEMMA TrimEnds ==
    ASSUME NEW c, Sound(c), NEW b, Trimmed(c, b), NEW limit, NEW n \in Nat,
           Cardinality(Stored(b)) <= n,
           NEW g, IsLoop(Caches, b, Trim(limit), n, g)
    PROVE  Trimmed(c, g[n]) /\ Stored(g[n]) \subseteq Stored(b) /\ ~ Over(g[n], limit)
<1> DEFINE Good(i, d) ==
               /\ Trimmed(c, d) /\ Stored(d) \subseteq Stored(b)
               /\ ~ Over(d, limit) \/ Cardinality(Stored(d)) <= n - i
           Q == {q \in (0..n) \X Caches : Good(q[1], q[2])}
<1>1. \A d : Trimmed(c, d) => Sound(d) /\ d \in Caches /\ IsFiniteSet(Stored(d))
                              /\ Cardinality(Stored(d)) \in Nat
  <2> SUFFICES ASSUME NEW d, Trimmed(c, d)
               PROVE  Sound(d) /\ d \in Caches /\ IsFiniteSet(Stored(d))
                      /\ Cardinality(Stored(d)) \in Nat
    OBVIOUS
  <2>1. Sound(d) /\ d \in Caches
    BY DEF Trimmed, Within, Sound
  <2>2. IsFiniteSet(Stored(d))
    BY StoreAssumption, FS_Subset DEF Stored
  <2> QED
    BY <2>1, <2>2, FS_CardinalityType
<1>2. <<0, b>> \in Q
  <2>1. Good(0, b)
    BY <1>1
  <2> QED
    BY <1>1, <2>1
<1>3. ASSUME NEW i \in 1..n, NEW d \in Caches, <<i - 1, d>> \in Q
      PROVE  <<i, Trim(limit)[d]>> \in Q
  <2>1. Good(i - 1, d)
    BY <1>3
  <2>2. Good(i, Trim(limit)[d])
    <3>1. CASE Over(d, limit)
      <4> DEFINE e == RemoveNode(d, d.tail)
      <4>1. d.tail \in Stored(d) /\ d.tail # Nil
        BY <1>1, <2>1, <3>1, OverHasTail
      <4>2. Trim(limit)[d] = e
        BY <3>1, <4>1 DEF Trim
      <4>3. Trimmed(c, e) /\ Stored(e) = Stored(d) \ {d.tail}
        BY <2>1, <3>1, <4>1, TailGoes
      <4>4. Cardinality(Stored(e)) = Cardinality(Stored(d)) - 1
        BY <1>1, <2>1, <4>1, <4>3, FS_RemoveElement
      <4>5. Cardinality(Stored(d)) <= n - (i - 1) /\ Cardinality(Stored(d)) \in Nat
        BY <1>1, <2>1, <3>1
      <4> HIDE DEF e
      <4>6. Cardinality(Stored(e)) <= n - i
        BY <4>4, <4>5
      <4> QED
        BY <2>1, <4>2, <4>3, <4>6
    <3>2. CASE ~ Over(d, limit)
      <4>1. Trim(limit)[d] = d
        BY <3>2 DEF Trim
      <4> QED
        BY <2>1, <3>2, <4>1
    <3> QED
      BY <3>1, <3>2
  <2>3. Trim(limit)[d] \in Caches /\ i \in 0..n
    BY TrimsAre
  <2> HIDE DEF Good
  <2> QED
    BY <2>2, <2>3
<1>4. <<n, g[n]>> \in Q
  <2>1. Trim(limit) \in [Caches -> Caches] /\ b \in Caches
    BY <1>1, TrimsAre
  <2>2. n \in 0..n
    OBVIOUS
  <2> HIDE DEF Q
  <2>3. \A i \in 0..n : <<i, g[i]>> \in Q
    BY <1>2, <1>3, <2>1, LoopKeeps
  <2> QED
    BY <2>2, <2>3
<1>5. Good(n, g[n])
  <2> HIDE DEF Good
  <2> QED
    BY <1>4
<1>6. ~ Over(g[n], limit)
  <2> SUFFICES ASSUME Over(g[n], limit) PROVE FALSE
    OBVIOUS
  <2>1. Trimmed(c, g[n]) /\ Cardinality(Stored(g[n])) <= n - n
    BY <1>5
  <2>2. Sound(g[n]) /\ IsFiniteSet(Stored(g[n])) /\ Cardinality(Stored(g[n])) = 0
    BY <1>1, <2>1
  <2>3. Stored(g[n]) = {}
    BY <2>2, FS_EmptySet
  <2> QED
    BY <2>2, <2>3, OverHasTail
<1> QED
  BY <1>5, <1>6

\* A loop of evict() does both.
LEMMA TrimTailIs ==
    ASSUME NEW c, Sound(c), NEW b, Trimmed(c, b), NEW limit
    PROVE  LET d == TrimTail(b, limit)
           IN  Trimmed(c, d) /\ Stored(d) \subseteq Stored(b) /\ ~ Over(d, limit)
<1> DEFINE n == Cardinality(CacheKeys)
           g == CHOOSE g : TrimRun(b, limit, n, g)
<1>1. TrimTail(b, limit) = g[n]
  BY DEF TrimTail, TrimRun
<1>2. n \in Nat /\ Cardinality(Stored(b)) <= n
  BY StoreAssumption, FS_CardinalityType, FS_Subset DEF Stored
<1>3. b \in Caches /\ Trim(limit) \in [Caches -> Caches]
  BY TrimsAre DEF Trimmed, Within, Sound
<1> HIDE DEF n
<1>4. \E h : TrimRun(b, limit, n, h)
  <2>1. PICK h : IsLoop(Caches, b, Trim(limit), n, h)
    BY <1>2, <1>3, LoopRuns
  <2>2. h \in [0..n -> Caches] /\ h[0] = b /\ \A i \in 1..n : h[i] = Trim(limit)[h[i - 1]]
    BY <2>1 DEF IsLoop
  <2>3. ASSUME NEW i \in 0..n
        PROVE  h[i] = IF i = 0 THEN b
                      ELSE LET d == h[i - 1]
                           IN  IF Over(d, limit) /\ d.tail # Nil THEN RemoveNode(d, d.tail) ELSE d
    <3>1. CASE i = 0
      BY <2>2, <3>1
    <3>2. CASE i # 0
      <4>1. i \in 1..n /\ i - 1 \in 0..n
        BY <1>2, <3>2
      <4>2. h[i] = Trim(limit)[h[i - 1]] /\ h[i - 1] \in Caches
        BY <2>2, <4>1
      <4> QED
        BY <3>2, <4>2 DEF Trim
    <3> QED
      BY <3>1, <3>2
  <2>4. h = [i \in 0..n |-> h[i]]
    BY <2>2
  <2>5. TrimRun(b, limit, n, h)
    BY <2>3, <2>4 DEF TrimRun
  <2> QED
    BY <2>5
<1>5. TrimRun(b, limit, n, g)
  BY <1>4
<1> HIDE DEF g
<1>6. IsLoop(Caches, b, Trim(limit), n, g)
  <2>1. g = [i \in 0..n |-> g[i]] /\ g[0] = b
    BY <1>2, <1>5 DEF TrimRun
  <2>2. ASSUME NEW i \in 1..n, g[i - 1] \in Caches PROVE g[i] = Trim(limit)[g[i - 1]]
    <3>1. i \in 0..n /\ i # 0
      OBVIOUS
    <3>2. g[i] = IF Over(g[i - 1], limit) /\ g[i - 1].tail # Nil
                 THEN RemoveNode(g[i - 1], g[i - 1].tail) ELSE g[i - 1]
      BY <1>5, <3>1 DEF TrimRun
    <3> QED
      BY <2>2, <3>2 DEF Trim
  <2> QED
    BY <1>2, <1>3, <2>1, <2>2, LoopIs
<1> QED
  BY <1>1, <1>2, <1>6, TrimEnds

\* What a set() keeps of c once S is swept away.
Staying(c, S) ==
    {j \in Stored(c) \ S : Lru!Fits({i \in Stored(c) \ S : i = j \/ <<i, j>> \in c.newer}, c.map)}

\* d is c after evict() swept S away.
Evicted(c, d, S) ==
    /\ Sound(d)
    /\ Stored(d) = Staying(c, S)
    /\ d.newer = Among(c.newer, Staying(c, S))
    /\ \A k \in Staying(c, S) : d.map[k] = c.map[k]
    /\ d.lazy = c.lazy /\ d.used = c.used
    /\ ~ OverSize(d) /\ ~ OverCount(d)

\* What is trimmed until it fits are the keys that fit with the newer ones.
LEMMA TrimmedIs ==
    ASSUME NEW c, Sound(c), NEW w, Swept(c, w), NEW d, Trimmed(w, d), ~ OverSize(d), ~ OverCount(d)
    PROVE  Evicted(c, d, Stored(c) \ Stored(w))
<1> DEFINE S == Stored(c) \ Stored(w)
<1>1. /\ Within(w, d) /\ Sound(d) /\ Within(c, w) /\ Sound(w)
      /\ Stored(w) \subseteq Stored(c) /\ Stored(c) \ S = Stored(w) /\ Stored(d) \subseteq Stored(w)
  BY DEF Swept, Trimmed, Within
<1>2. w.map \in [CacheKeys -> AnyEntries] /\ c.map \in [CacheKeys -> AnyEntries]
      /\ Stored(w) \in SUBSET CacheKeys
  BY <1>1 DEF Sound, Caches, Stored
<1>3. \A i, j \in Stored(w) : <<i, j>> \in w.newer <=> <<i, j>> \in c.newer
  BY <1>1 DEF Within, Among
<1>4. \A j \in Stored(w) :
          UpTo(w, j) = {i \in Stored(c) \ S : i = j \/ <<i, j>> \in c.newer}
  BY <1>1, <1>3 DEF UpTo
<1>5. \A X \in SUBSET Stored(w) : Lru!Fits(X, w.map) <=> Lru!Fits(X, c.map)
  <2> SUFFICES ASSUME NEW X \in SUBSET Stored(w)
               PROVE  SizesIn(X, w.map) = SizesIn(X, c.map)
    BY FitsIs
  <2>1. \A k \in X : w.map[k] = c.map[k]
    BY <1>1 DEF Within
  <2> QED
    BY <2>1 DEF SizesIn
<1>6. ASSUME NEW j \in Stored(w) PROVE j \in Stored(d) <=> Lru!Fits(UpTo(w, j), w.map)
  <2>1. CASE j \in Stored(d)
    <3>1. UpTo(w, j) \in SUBSET Stored(d)
      BY <2>1 DEF UpTo, Trimmed
    <3>2. Lru!Fits(Stored(d), w.map)
      BY <1>1, OverIs
    <3>3. Stored(d) \in SUBSET CacheKeys
      BY DEF Stored
    <3> QED
      BY <1>2, <2>1, <3>1, <3>2, <3>3, FewerFit
  <2>2. CASE j \notin Stored(d)
    BY <2>2 DEF Trimmed
  <2> QED
    BY <2>1, <2>2
<1>7. ASSUME NEW j \in Stored(w)
      PROVE  j \in Stored(d)
                 <=> Lru!Fits({i \in Stored(c) \ S : i = j \/ <<i, j>> \in c.newer}, c.map)
  <2>1. UpTo(w, j) \in SUBSET Stored(w)
    BY DEF UpTo
  <2>2. Lru!Fits(UpTo(w, j), w.map) <=> Lru!Fits(UpTo(w, j), c.map)
    BY <1>5, <2>1
  <2> QED
    BY <1>4, <1>6, <2>2
<1> HIDE DEF S
<1>8. Stored(d) = Staying(c, S)
  BY <1>1, <1>7 DEF Staying
<1>9. d.newer = Among(c.newer, Stored(d))
  BY <1>1 DEF Within, Among
<1>10. \A k \in Stored(d) : d.map[k] = c.map[k]
  BY <1>1 DEF Within
<1>11. d.lazy = c.lazy /\ d.used = c.used
  BY <1>1 DEF Within
<1>12. Evicted(c, d, S)
  BY <1>1, <1>8, <1>9, <1>10, <1>11 DEF Evicted
<1> QED
  BY <1>12 DEF S

\* evict() keeps of a sound cache what fits, with some of the expired left out.
LEMMA EvictIs ==
    ASSUME NEW c, Sound(c)
    PROVE  \E S \in SUBSET {k \in Stored(c) : IsExpired(c.map[k])} : Evicted(c, Evict(c), S)
<1> DEFINE w == IF c.lazy
                THEN IF OverSize(c) \/ OverCount(c) THEN BatchedSweep(c) ELSE c
                ELSE FullSweep(c)
           b == TrimTail(w, "size")
           d == TrimTail(b, "count")
<1>1. Evict(c) = d
  BY DEF Evict
<1>2. Swept(c, w)
  BY SweepsAre, WithinItself
<1> HIDE DEF w
<1>3. Sound(w)
  BY <1>2 DEF Swept, Within
<1>4. Trimmed(w, w)
  BY <1>3, WithinItself DEF Trimmed, Swept, Sound, IsOrder
<1>5. Trimmed(w, b) /\ ~ Over(b, "size")
  BY <1>3, <1>4, TrimTailIs
<1> HIDE DEF b
<1>6. Trimmed(w, d) /\ Stored(d) \subseteq Stored(b) /\ ~ Over(d, "count")
  BY <1>3, <1>5, TrimTailIs
<1> HIDE DEF d
<1>7. ~ OverCount(d) /\ ~ OverSize(b)
  BY <1>5, <1>6 DEF Over
<1>8. ~ OverSize(d)
  <2>1. d.total = SumFunction(SizesIn(Stored(d), w.map)) /\ b.total = SumFunction(SizesIn(Stored(b), w.map))
    BY <1>5, <1>6, TotalWithin DEF Trimmed
  <2>2. w.map \in [CacheKeys -> AnyEntries] /\ Stored(b) \in SUBSET CacheKeys
    BY <1>3 DEF Sound, Caches, Stored
  <2>3. d.total \in Nat /\ b.total \in Nat /\ d.total <= b.total
    BY <1>6, <2>1, <2>2, FewerWeighLess
  <2>4. MaxSize \in Nat
    BY StoreAssumption
  <2> QED
    BY <1>7, <2>3, <2>4 DEF OverSize
<1>9. Evicted(c, d, Stored(c) \ Stored(w))
  BY <1>2, <1>6, <1>7, <1>8, TrimmedIs
<1>10. Stored(c) \ Stored(w) \in SUBSET {k \in Stored(c) : IsExpired(c.map[k])}
  BY <1>2 DEF Swept
<1> QED
  BY <1>1, <1>9, <1>10

----------------------------------------------------------------------------
(* The methods *)

CacheInv(c) == Sound(c) /\ ~ OverSize(c) /\ ~ OverCount(c)

\* A part of what keeps the limits keeps them.
LEMMA PartsKeepLimits ==
    ASSUME NEW c, CacheInv(c), NEW d, Within(c, d)
    PROVE  CacheInv(d)
<1>1. Within(c, c) /\ Sound(c) /\ Sound(d)
  BY WithinItself DEF CacheInv, Swept, Within
<1>2. Lru!Fits(Stored(c), c.map)
  BY <1>1, OverIs DEF CacheInv
<1>3. c.map \in [CacheKeys -> AnyEntries] /\ Stored(c) \in SUBSET CacheKeys
  BY <1>1 DEF Sound, Caches, Stored
<1>4. Stored(d) \in SUBSET Stored(c)
  BY DEF Within
<1>5. Lru!Fits(Stored(d), c.map)
  BY <1>2, <1>3, <1>4, FewerFit
<1>6. \A limit : ~ Over(d, limit)
  BY <1>5, OverIs
<1>7. ~ OverSize(d) /\ ~ OverCount(d)
  <2>1. ~ Over(d, "size") /\ ~ Over(d, "count")
    BY <1>6
  <2> QED
    BY <2>1 DEF Over
<1> QED
  BY <1>1, <1>7 DEF CacheInv

\* The fields a method sets before it touches the list.
Relabelled(c, d) ==
    /\ d.head = c.head /\ d.tail = c.tail /\ d.next = c.next /\ d.prev = c.prev
    /\ d.newer = c.newer

\* An entry that stays one of the same size changes neither the list nor the
\* total.
LEMMA RelabelKeeps ==
    ASSUME NEW c, CacheInv(c), NEW d \in Caches, Relabelled(c, d), d.total = c.total,
           Stored(d) = Stored(c), \A k \in CacheKeys : d.map[k].sz = c.map[k].sz
    PROVE  CacheInv(d)
<1>1. SizesOf(d.map) = SizesOf(c.map)
  BY DEF SizesOf
<1>2. IsList(d, d.newer, Stored(d)) /\ IsOrder(d.newer, Stored(d))
  BY DEF CacheInv, Sound, Relabelled, IsList
<1>3. Sound(d)
  BY <1>1, <1>2 DEF CacheInv, Sound
<1> QED
  BY <1>3 DEF CacheInv, OverSize, OverCount

\* The empty cache is sound.
LEMMA EmptyKeeps == \A b \in BOOLEAN : CacheInv(EmptyCache(b)) /\ Stored(EmptyCache(b)) = {}
<1> SUFFICES ASSUME NEW b \in BOOLEAN PROVE CacheInv(EmptyCache(b)) /\ Stored(EmptyCache(b)) = {}
  OBVIOUS
<1> DEFINE c == EmptyCache(b)
           none == [k \in CacheKeys |-> Gone]
<1>1. /\ c.head = Nil /\ c.tail = Nil /\ c.map = none /\ c.total = 0 /\ c.newer = {}
  BY DEF EmptyCache
<1>2. none \in [CacheKeys -> AnyEntries]
  BY EntriesAre
<1>3. c \in Caches
  <2>1. Blank \in [CacheKeys -> Keys0] /\ Nil \in Keys0
    BY DEF Blank, Keys0
  <2>2. {} \in SUBSET (CacheKeys \X CacheKeys)
    OBVIOUS
  <2> HIDE DEF none
  <2>3. c = [lazy |-> b, head |-> Nil, tail |-> Nil, next |-> Blank, prev |-> Blank,
             map |-> none, total |-> 0, used |-> Nil, newer |-> {}]
    BY DEF EmptyCache, none
  <2> QED
    BY <1>2, <2>1, <2>2, <2>3 DEF Caches
<1>4. Stored(c) = {}
  BY <1>1 DEF Stored
<1>5. \A k \in CacheKeys : c.map[k] = Gone
  BY <1>1
<1> HIDE DEF c
<1>6. IsList(c, c.newer, Stored(c)) /\ IsOrder(c.newer, Stored(c))
  BY <1>1, <1>4 DEF IsList, IsOrder
<1>7. SumFunction(SizesOf(c.map)) = 0
  <2>1. c.map \in [CacheKeys -> AnyEntries]
    BY <1>3 DEF Caches
  <2>2. SizesOf(c.map) \in [CacheKeys -> Nat] /\ \A k \in CacheKeys : SizesOf(c.map)[k] = 0
    BY <1>5, <2>1, SizesAre, EntriesAre
  <2> QED
    BY <2>2, StoreAssumption, SumOfNothing
<1>8. ~ OverSize(c) /\ ~ OverCount(c)
  <2>1. MaxSize \in Nat /\ MaxEntries \in Nat /\ Cardinality(Stored(c)) = 0
    BY <1>4, StoreAssumption, FS_EmptySet
  <2> QED
    BY <1>1, <2>1 DEF OverSize, OverCount
<1> QED
  BY <1>1, <1>3, <1>4, <1>6, <1>7, <1>8 DEF c, CacheInv, Sound

\* A call that is neither a hit nor a set leaves a sound cache alone.
LEMMA CalledKeepsCache ==
    ASSUME CacheInv(cache)
    PROVE  /\ CacheInv(CacheCalled)
           /\ CacheCalled.used = Nil /\ CacheCalled.newer = cache.newer
           /\ CacheCalled.map = cache.map /\ Stored(CacheCalled) = Stored(cache)
<1>1. cache \in Caches /\ Nil \in Keys0
  BY DEF CacheInv, Sound, Keys0
<1>2. CacheCalled \in Caches
  BY <1>1 DEF CacheCalled, Caches
<1>3. /\ CacheCalled.used = Nil /\ CacheCalled.newer = cache.newer
      /\ CacheCalled.map = cache.map /\ CacheCalled.total = cache.total
      /\ Relabelled(cache, CacheCalled)
  BY <1>1 DEF CacheCalled, Caches, Relabelled
<1>4. Stored(CacheCalled) = Stored(cache)
  BY <1>3 DEF Stored
<1> QED
  BY <1>2, <1>3, <1>4, RelabelKeeps

\* What is left of a cache, in the words of LruList.
LEMMA WithinIsKept ==
    ASSUME NEW T \in SUBSET Stored(cache), Stored(cache') = T,
           cache'.newer = Among(cache.newer, T), cache' \in Caches,
           \A k \in T : cache'.map[k] = cache.map[k]
    PROVE  Lru!Keep(T, cache.newer, cache.map)
<1>1. cache'.map = [k \in CacheKeys |-> IF k \in T THEN cache.map[k] ELSE Gone]
  <2>1. \A k \in CacheKeys \ T : cache'.map[k] = Gone
    BY DEF Stored
  <2>2. cache'.map = [k \in CacheKeys |-> cache'.map[k]]
    BY DEF Caches
  <2> QED
    BY <2>1, <2>2
<1> QED
  BY <1>1 DEF Lru!Keep, Lru!Among, Among, Lru!Gone, Gone, Lru!Never, Never

\* get() of an entry that has not expired is a use of it.
LEMMA GetHitIsUse ==
    ASSUME CacheInv(cache), NEW k \in CacheKeys, GetHit(k)
    PROVE  CacheInv(cache') /\ Lru!Use(k)
<1> DEFINE x == cache.map[k]
           y == [x EXCEPT !.left = IF x.sl > 0 THEN x.sl ELSE @]
           map == [cache.map EXCEPT ![k] = y]
           c == [cache EXCEPT !.used = k, !.map = map]
<1>1. cache \in Caches /\ cache.map \in [CacheKeys -> AnyEntries] /\ k \in Stored(cache)
  BY DEF CacheInv, Sound, Caches, GetHit
<1>2. cache' = MoveToFront(c, k)
  <2>1. map = [cache.map EXCEPT ![k].left = IF cache.map[k].sl > 0 THEN cache.map[k].sl ELSE @]
    BY <1>1
  <2>2. [cache EXCEPT !.used = k, !.map[k].left =
                       IF cache.map[k].sl > 0 THEN cache.map[k].sl ELSE @] = c
    BY <1>1, <2>1 DEF Caches
  <2> QED
    BY <2>2 DEF GetHit
<1>3. x \in LiveEntries
  BY <1>1, EntriesAre DEF Stored
<1>4. y \in LiveEntries /\ y.sz = x.sz
  BY <1>3 DEF LiveEntries
<1>5. y \in AnyEntries /\ y # Gone
  BY <1>4, EntriesAre DEF AnyEntries
<1>6. /\ map \in [CacheKeys -> AnyEntries] /\ map[k] = y
      /\ \A j \in CacheKeys \ {k} : map[j] = cache.map[j]
  BY <1>1, <1>5
<1> HIDE DEF map, y, x
<1>7. /\ c \in Caches /\ c.map = map /\ c.used = k /\ c.total = cache.total
      /\ Relabelled(cache, c)
  BY <1>1, <1>6 DEF Caches, Relabelled, Keys0
<1> HIDE DEF c
<1>8. Stored(c) = Stored(cache)
  BY <1>1, <1>5, <1>6, <1>7 DEF Stored
<1>9. CacheInv(c)
  BY <1>4, <1>6, <1>7, <1>8, RelabelKeeps DEF x
<1>10. Fronted(c, cache', k)
  BY <1>1, <1>2, <1>8, <1>9, MoveKeeps DEF CacheInv
<1>11. CacheInv(cache')
  <2>1. Stored(cache') = Stored(c)
    BY <1>10 DEF Fronted, Stored
  <2>2. cache'.total = c.total
    BY <1>9, <1>10 DEF Fronted, CacheInv, Sound
  <2> QED
    BY <1>9, <1>10, <2>1, <2>2 DEF Fronted, CacheInv, OverSize, OverCount
<1>12. Lru!Use(k)
  <2>1. cache'.map = map /\ cache'.used = k /\ cache'.newer = InFront(cache.newer, k, Stored(cache))
    BY <1>7, <1>8, <1>10 DEF Fronted, Relabelled
  <2>2. map = [cache.map EXCEPT ![k].left = IF cache.map[k].sl > 0 THEN cache.map[k].sl ELSE @]
    BY <1>1 DEF map, y, x
  <2>3. Lru!Present = Stored(cache)
    BY DEF Lru!Present, Stored, Lru!Gone, Gone, Lru!Never, Never
  <2>4. k \notin Lru!Expired
    BY DEF Lru!Expired, Lru!IsExpired, IsExpired, GetHit
  <2>5. Lru!InFront(cache.newer, k, Stored(cache)) = InFront(cache.newer, k, Stored(cache))
    BY DEF Lru!InFront, InFront, Lru!Among, Among
  <2> QED
    BY <1>1, <2>1, <2>2, <2>3, <2>4, <2>5 DEF Lru!Use
<1> QED
  BY <1>11, <1>12

\* What removes one key drops it.
LEMMA RemovalIsDrop ==
    ASSUME CacheInv(cache), NEW k \in Stored(cache), cache' = RemoveNode(CacheCalled, k)
    PROVE  CacheInv(cache') /\ Lru!Drop(k)
<1>1. /\ CacheInv(CacheCalled) /\ CacheCalled.used = Nil /\ CacheCalled.newer = cache.newer
      /\ CacheCalled.map = cache.map /\ Stored(CacheCalled) = Stored(cache)
  BY CalledKeepsCache
<1>2. Within(CacheCalled, CacheCalled)
  BY <1>1, WithinItself DEF CacheInv, Swept
<1>3. Within(CacheCalled, cache') /\ Stored(cache') = Stored(cache) \ {k}
  BY <1>1, <1>2, RemoveStaysWithin
<1>4. CacheInv(cache')
  BY <1>1, <1>3, PartsKeepLimits
<1>5. Lru!Keep(Stored(cache) \ {k}, cache.newer, cache.map)
  <2>1. /\ cache' \in Caches
        /\ cache'.newer = Among(cache.newer, Stored(cache) \ {k})
        /\ \A j \in Stored(cache) \ {k} : cache'.map[j] = cache.map[j]
    BY <1>1, <1>3 DEF Within, Sound
  <2> QED
    BY <1>3, <2>1, WithinIsKept
<1>6. cache'.used = Nil
  BY <1>1, <1>3 DEF Within
<1>7. Lru!Present = Stored(cache)
  BY DEF Lru!Present, Stored, Lru!Gone, Gone, Lru!Never, Never
<1> QED
  BY <1>4, <1>5, <1>6, <1>7 DEF Lru!Drop

\* The janitor drops expired entries.
LEMMA JanitorDrops ==
    ASSUME CacheInv(cache), Janitor
    PROVE  CacheInv(cache') /\ Lru!DropExpired
<1>1. /\ CacheInv(CacheCalled) /\ CacheCalled.used = Nil /\ CacheCalled.newer = cache.newer
      /\ CacheCalled.map = cache.map /\ Stored(CacheCalled) = Stored(cache)
  BY CalledKeepsCache
<1>2. Swept(CacheCalled, cache')
  BY <1>1, SweepsAre DEF CacheInv, Janitor
<1>3. CacheInv(cache')
  BY <1>1, <1>2, PartsKeepLimits DEF Swept
<1> DEFINE T == Stored(cache')
           S == Stored(cache) \ T
<1>4. Lru!Keep(T, cache.newer, cache.map)
  <2>1. /\ cache' \in Caches
        /\ T \in SUBSET Stored(cache)
        /\ cache'.newer = Among(cache.newer, T)
        /\ \A j \in T : cache'.map[j] = cache.map[j]
    BY <1>1, <1>2 DEF Swept, Within, Sound
  <2> QED
    BY <2>1, WithinIsKept
<1>5. cache'.used = Nil
  BY <1>1, <1>2 DEF Swept, Within
<1>6. Lru!Present = Stored(cache)
  BY DEF Lru!Present, Stored, Lru!Gone, Gone, Lru!Never, Never
<1>7. S \in SUBSET Lru!Expired /\ Stored(cache) \ S = T
  <2>1. T \subseteq Stored(cache) /\ \A j \in S : IsExpired(cache.map[j])
    BY <1>1, <1>2 DEF Swept, Within
  <2> QED
    BY <1>6, <2>1 DEF Lru!Expired, Lru!IsExpired, IsExpired
<1> HIDE DEF S, T
<1> QED
  BY <1>3, <1>4, <1>5, <1>6, <1>7 DEF Lru!DropExpired

\* clear() empties the store.
LEMMA ClearEmpties ==
    ASSUME CacheInv(cache), ClearStore
    PROVE  CacheInv(cache') /\ Lru!Empty
<1>1. cache' = EmptyCache(cache.lazy) /\ cache.lazy \in BOOLEAN
  BY DEF ClearStore, CacheInv, Sound, Caches
<1>2. CacheInv(cache') /\ Stored(cache') = {}
  BY <1>1, EmptyKeeps
<1>3. cache'.used = Nil /\ cache'.newer = {}
  BY <1>1 DEF EmptyCache
<1>4. Lru!Keep({}, cache.newer, cache.map)
  <2>1. Among(cache.newer, {}) = {}
    BY DEF Among
  <2>2. {} \in SUBSET Stored(cache) /\ cache' \in Caches
    BY <1>2 DEF CacheInv, Sound
  <2> QED
    BY <1>2, <1>3, <2>1, <2>2, WithinIsKept
<1> QED
  BY <1>2, <1>3, <1>4 DEF Lru!Empty

\* A tick ages the entries.
LEMMA AgedIs ==
    ASSUME NEW x \in AnyEntries
    PROVE  Aged(x) \in AnyEntries /\ Aged(x).sz = x.sz /\ (Aged(x) = Gone <=> x = Gone)
<1> DEFINE left == IF x.left > 0 THEN x.left - 1 ELSE x.left
<1>1. CASE x = Gone
  <2>1. Aged(Gone) = Gone
    BY DEF Aged, Gone, Never
  <2> QED
    BY <1>1, <2>1, EntriesAre
<1>2. CASE x # Gone
  <2>1. x \in LiveEntries
    BY <1>2, EntriesAre
  <2>2. x.left \in Int /\ x.sl \in Int /\ x.sz \in Nat /\ x.gone = FALSE
    BY <2>1 DEF LiveEntries
  <2>3. left \in Int
    BY <2>2
  <2>4. Aged(x) = [x EXCEPT !.left = left]
    BY DEF Aged
  <2> HIDE DEF left
  <2>5. Aged(x) \in LiveEntries /\ Aged(x).sz = x.sz
    BY <2>1, <2>3, <2>4 DEF LiveEntries
  <2> QED
    BY <1>2, <2>5, EntriesAre DEF AnyEntries
<1> QED
  BY <1>1, <1>2

LEMMA TickAges ==
    ASSUME CacheInv(cache), CacheTick
    PROVE  CacheInv(cache') /\ Lru!Age
<1> DEFINE map == [k \in CacheKeys |-> Aged(cache.map[k])]
<1>1. cache \in Caches /\ cache.map \in [CacheKeys -> AnyEntries]
  BY DEF CacheInv, Sound, Caches
<1>2. cache' = [cache EXCEPT !.map = map]
  BY DEF CacheTick
<1>4. /\ map \in [CacheKeys -> AnyEntries]
      /\ \A k \in CacheKeys : map[k].sz = cache.map[k].sz /\ (map[k] = Gone <=> cache.map[k] = Gone)
  BY <1>1, AgedIs
<1>8. map = [k \in CacheKeys |-> Lru!Aged(cache.map[k])]
  BY DEF Aged, Lru!Aged
<1> HIDE DEF map
<1>5. /\ cache' \in Caches /\ cache'.map = map /\ cache'.used = cache.used
      /\ cache'.total = cache.total /\ cache'.newer = cache.newer /\ Relabelled(cache, cache')
  BY <1>1, <1>2, <1>4 DEF Caches, Relabelled
<1>6. Stored(cache') = Stored(cache)
  BY <1>4, <1>5 DEF Stored
<1>7. CacheInv(cache')
  BY <1>4, <1>5, <1>6, RelabelKeeps
<1>9. Lru!Age
  BY <1>5, <1>8 DEF Lru!Age
<1> QED
  BY <1>7, <1>9

\* set() puts its key in front, before it evicts.
Entered(k, x) ==
    [cache EXCEPT !.used = k, !.map[k] = x, !.total = @ - cache.map[k].sz + x.sz]
PutInFront(k, x) ==
    IF cache.map[k] = Gone THEN AddToFront(Entered(k, x), k) ELSE MoveToFront(Entered(k, x), k)

LEMMA SetPutsInFront ==
    ASSUME CacheInv(cache), NEW k \in CacheKeys, NEW x \in LiveEntries
    PROVE  /\ Sound(PutInFront(k, x)) /\ PutInFront(k, x).used = k
           /\ PutInFront(k, x).map = [cache.map EXCEPT ![k] = x]
           /\ Stored(PutInFront(k, x)) = Stored(cache) \cup {k}
           /\ PutInFront(k, x).newer = InFront(cache.newer, k, Stored(cache) \cup {k})
<1> DEFINE c == Entered(k, x)
           f == PutInFront(k, x)
           map == [cache.map EXCEPT ![k] = x]
           total == cache.total - cache.map[k].sz + x.sz
           S == Stored(cache)
<1>1. /\ cache \in Caches /\ cache.map \in [CacheKeys -> AnyEntries] /\ cache.total \in Int
      /\ cache.total = SumFunction(SizesOf(cache.map)) /\ S \in SUBSET CacheKeys
      /\ IsOrder(cache.newer, S) /\ IsList(cache, cache.newer, S)
  BY DEF CacheInv, Sound, Caches, Stored
<1>2. x \in AnyEntries /\ x # Gone /\ x.sz \in Nat /\ cache.map[k].sz \in Nat
  BY <1>1, EntriesAre, SizesAre DEF AnyEntries
<1>3. /\ map \in [CacheKeys -> AnyEntries] /\ map[k] = x
      /\ \A j \in CacheKeys \ {k} : map[j] = cache.map[j]
      /\ total \in Int /\ total = SumFunction(SizesOf(map))
  <2>1. total = SumFunction(SizesOf(map))
    BY <1>1, <1>2, SizesChange
  <2> QED
    BY <1>1, <1>2, <2>1
<1>4. c = [cache EXCEPT !.used = k, !.map = map, !.total = total]
  BY <1>1 DEF Caches, Entered
<1>10. f = IF cache.map[k] = Gone THEN AddToFront(c, k) ELSE MoveToFront(c, k)
  BY DEF PutInFront
<1> HIDE DEF map, total, c, f
<1>5. /\ c \in Caches /\ c.map = map /\ c.total = total /\ c.used = k /\ Relabelled(cache, c)
  BY <1>1, <1>3, <1>4 DEF Caches, Relabelled, Keys0
<1>6. Stored(c) = S \cup {k} /\ k \in Stored(c)
  BY <1>2, <1>3, <1>5 DEF Stored
<1>7. IsOrder(c.newer, S) /\ IsList(c, c.newer, S) /\ c.newer = cache.newer
  BY <1>1, <1>5 DEF Relabelled, IsList
<1>8. Fronted(c, f, k)
  <2>1. CASE cache.map[k] = Gone
    <3>1. Stored(c) \ {k} = S /\ f = AddToFront(c, k)
      BY <1>6, <1>10, <2>1 DEF Stored
    <3> QED
      BY <1>3, <1>5, <1>6, <1>7, <3>1, AddGains
  <2>2. CASE cache.map[k] # Gone
    <3>1. Stored(c) = S /\ f = MoveToFront(c, k)
      BY <1>6, <1>10, <2>2 DEF Stored
    <3>2. Sound(c)
      BY <1>3, <1>5, <1>7, <3>1 DEF Sound
    <3> QED
      BY <1>6, <3>1, <3>2, MoveKeeps
  <2> QED
    BY <2>1, <2>2
<1>9. Stored(f) = Stored(c)
  BY <1>8 DEF Fronted, Stored
<1> QED
  BY <1>5, <1>6, <1>7, <1>8, <1>9 DEF Fronted, map, f

\* set() stores, and keeps what fits.
LEMMA SetIsStore ==
    ASSUME CacheInv(cache), NEW k \in CacheKeys, NEW x \in Entries, SetKey(k, x)
    PROVE  CacheInv(cache') /\ Lru!Store(k, x)
<1> DEFINE f == PutInFront(k, x)
           all == Stored(cache) \cup {k}
           e == [cache.map EXCEPT ![k] = x]
           R == InFront(cache.newer, k, all)
<1>1. x \in LiveEntries
  BY StoreAssumption DEF Entries, LiveEntries
<1>2. cache' = Evict(f)
  BY DEF SetKey, PutInFront, Entered
<1>3. Sound(f) /\ f.used = k /\ f.map = e /\ Stored(f) = all /\ f.newer = R
  BY <1>1, SetPutsInFront
<1> HIDE DEF f
<1>4. PICK S \in SUBSET {j \in Stored(f) : IsExpired(f.map[j])} : Evicted(f, cache', S)
  BY <1>2, <1>3, EvictIs
<1> DEFINE K == {j \in all \ S : Lru!Fits({i \in all \ S : i = j \/ <<i, j>> \in R}, e)}
<1>5. Staying(f, S) = K
  BY <1>3 DEF Staying
<1>6. /\ Sound(cache') /\ Stored(cache') = K /\ cache'.newer = Among(R, K)
      /\ \A j \in K : cache'.map[j] = e[j]
      /\ cache'.used = k /\ ~ OverSize(cache') /\ ~ OverCount(cache')
  BY <1>3, <1>4, <1>5 DEF Evicted
<1>7. cache'.map = [j \in CacheKeys |-> IF j \in K THEN e[j] ELSE Gone]
  <2> HIDE DEF K, e
  <2>1. \A j \in CacheKeys \ K : cache'.map[j] = Gone
    BY <1>6 DEF Stored
  <2>2. cache'.map = [j \in CacheKeys |-> cache'.map[j]]
    BY <1>6 DEF Sound, Caches
  <2> QED
    BY <1>6, <2>1, <2>2
<1>8. Lru!Present = Stored(cache)
  BY DEF Lru!Present, Stored, Lru!Gone, Gone, Lru!Never, Never
<1>9. Lru!InFront(cache.newer, k, all) = R
  BY DEF Lru!InFront, InFront, Lru!Among, Among
<1>10. S \in SUBSET {j \in all : Lru!IsExpired(e[j])}
  BY <1>3 DEF Lru!IsExpired, IsExpired
<1>11. Lru!Keep(K, R, e)
  <2> HIDE DEF K, R, e
  <2> QED
    BY <1>6, <1>7 DEF Lru!Keep, Lru!Among, Among, Lru!Gone, Gone, Lru!Never, Never
<1>12. Lru!Store(k, x)
  <2>1. \E T \in SUBSET {j \in all : Lru!IsExpired(e[j])} :
            Lru!Keep({j \in all \ T : Lru!Fits({i \in all \ T : i = j \/ <<i, j>> \in R}, e)}, R, e)
    <3> HIDE DEF R, all, e
    <3> QED
      BY <1>10, <1>11
  <2>2. \E T \in SUBSET {j \in Lru!Present \cup {k} : Lru!IsExpired(e[j])} :
            Lru!Keep({j \in (Lru!Present \cup {k}) \ T :
                        Lru!Fits({i \in (Lru!Present \cup {k}) \ T :
                                    i = j \/ <<i, j>> \in Lru!InFront(cache.newer, k, Lru!Present \cup {k})}, e)},
                     Lru!InFront(cache.newer, k, Lru!Present \cup {k}), e)
    <3>1. /\ Lru!Present \cup {k} = all
          /\ Lru!InFront(cache.newer, k, all) = R
      BY <1>8, <1>9
    <3> HIDE DEF R, all, e
    <3> QED
      BY <2>1, <3>1
  <2>3. cache'.used = k
    BY <1>6
  <2> QED
    BY <2>2, <2>3 DEF Lru!Store
<1> QED
  BY <1>6, <1>12 DEF CacheInv

\* Every step of the cache is one of LruList, or none.
StoreInv == CacheInv(cache)

LEMMA CacheSteps == StoreInv /\ [CacheNext]_cache => StoreInv' /\ [Lru!LruNext]_(Lru!lruVars)
<1> SUFFICES ASSUME CacheInv(cache), [CacheNext]_cache
             PROVE  CacheInv(cache') /\ [Lru!LruNext]_(Lru!lruVars)
  BY DEF StoreInv
<1>1. ASSUME NEW k \in CacheKeys, GetHit(k) PROVE CacheInv(cache') /\ Lru!LruNext
  BY <1>1, GetHitIsUse DEF Lru!LruNext
<1>2. ASSUME NEW k \in CacheKeys, GetExpired(k) PROVE CacheInv(cache') /\ Lru!LruNext
  BY <1>2, RemovalIsDrop DEF GetExpired, Lru!LruNext
<1>3. ASSUME NEW k \in CacheKeys, DelKey(k) PROVE CacheInv(cache') /\ Lru!LruNext
  BY <1>3, RemovalIsDrop DEF DelKey, Lru!LruNext
<1>4. ASSUME NEW k \in CacheKeys, NEW x \in Entries, SetKey(k, x)
      PROVE  CacheInv(cache') /\ Lru!LruNext
  <2>1. CacheInv(cache') /\ Lru!Store(k, x)
    BY <1>4, SetIsStore
  <2>2. x \in Lru!Entries
    BY DEF Entries, Lru!Entries
  <2> QED
    BY <2>1, <2>2 DEF Lru!LruNext
<1>5. ASSUME ClearStore PROVE CacheInv(cache') /\ Lru!LruNext
  BY <1>5, ClearEmpties DEF Lru!LruNext
<1>6. ASSUME Janitor PROVE CacheInv(cache') /\ Lru!LruNext
  BY <1>6, JanitorDrops DEF Lru!LruNext
<1>7. ASSUME CacheTick PROVE CacheInv(cache') /\ Lru!LruNext
  BY <1>7, TickAges DEF Lru!LruNext
<1>8. ASSUME UNCHANGED cache PROVE CacheInv(cache') /\ UNCHANGED Lru!lruVars
  BY <1>8 DEF Lru!lruVars
<1> QED
  BY <1>1, <1>2, <1>3, <1>4, <1>5, <1>6, <1>7, <1>8 DEF CacheNext

\* What the invariant says of the list and the totals.
LEMMA SoundIsExact == StoreInv => ListIsSound /\ TotalsAreExact
<1> SUFFICES ASSUME CacheInv(cache) PROVE ListIsSound /\ TotalsAreExact
  BY DEF StoreInv
<1>1. IsFiniteSet(Stored(cache)) /\ MaxSize \in Nat /\ MaxEntries \in Nat
  BY StoreAssumption, FS_Subset DEF Stored
<1>2. Cardinality(Stored(cache)) \in Nat /\ cache.total \in Int
  BY <1>1, FS_CardinalityType DEF CacheInv, Sound, Caches
<1> QED
  BY <1>1, <1>2 DEF CacheInv, Sound, ListIsSound, TotalsAreExact, SizesOf, OverSize, OverCount

\* The pointers of the list, the sweeps and the loops of evict() keep the
\* least recently used promise: the list is sound, the totals are exact, and
\* every method does what LruList says it does.
THEOREM CacheIsLruList == CacheSpec => CacheIsLru
<1>1. CacheInit => StoreInv /\ Lru!LruInit
  <2> SUFFICES ASSUME CacheInit PROVE CacheInv(cache) /\ Lru!LruInit
    BY DEF StoreInv
  <2>1. PICK b \in BOOLEAN : cache = EmptyCache(b)
    BY DEF CacheInit
  <2>2. cache.newer = {} /\ cache.map = [k \in CacheKeys |-> Gone] /\ cache.used = Nil
    BY <2>1 DEF EmptyCache
  <2> QED
    BY <2>1, <2>2, EmptyKeeps DEF Lru!LruInit, Lru!Gone, Gone, Lru!Never, Never
<1>2. CacheSpec => []StoreInv
  BY <1>1, CacheSteps, PTL DEF CacheSpec
<1>3. CacheSpec => Lru!LruSpec
  BY <1>1, <1>2, CacheSteps, PTL DEF CacheSpec, Lru!LruSpec
<1> QED
  BY <1>2, <1>3, SoundIsExact, PTL DEF CacheIsLru

============================================================================
