----------------------------- MODULE KeyedLock -----------------------------
(***************************************************************************)
(* KeyedLock of shareds/cache/src/keyed-lock.ts: a lock per key.  release()*)
(* frees the key and lets the oldest waiter try again at once, in the same *)
(* step, so that nobody comes in between.  A caller holds or awaits a key  *)
(* once, and calls the release() it was given once.                        *)
(***************************************************************************)
EXTENDS Integers, Sequences

CONSTANTS
    LockKeys,
    KeyCallers     \* who acquires

VARIABLES
    heldKeys,   \* KeyedLock.held
    waits,      \* KeyedLock.waits, per key, oldest first
    holders     \* per key, those whose promise is resolved and not released

keyedVars == <<heldKeys, waits, holders>>

KeyedInit ==
    /\ heldKeys = {}
    /\ waits = [k \in LockKeys |-> <<>>]
    /\ holders = [k \in LockKeys |-> {}]

----------------------------------------------------------------------------
IsOut(c, k) == c \notin holders[k] /\ \A i \in DOMAIN waits[k] : waits[k][i] # c

\* tryAcquire() of caller c, with the key's state as release() or the first
\* attempt left it: take the key, or go to the end of the queue.
TryAcquire(c, k, taken, queue, others) ==
    /\ waits' = [waits EXCEPT ![k] = IF taken THEN Append(queue, c) ELSE queue]
    /\ holders' = [holders EXCEPT ![k] = IF taken THEN others ELSE others \cup {c}]
    /\ heldKeys' = heldKeys \cup {k}

AcquireKey(c, k) ==
    /\ IsOut(c, k)
    /\ TryAcquire(c, k, k \in heldKeys, waits[k], holders[k])

\* Mutant: the waiter tries while the key still counts as held, and loses its
\* place in the queue.
ReleaseLate(c, k) ==
    /\ c \in holders[k]
    /\ waits[k] # <<>>
    /\ TryAcquire(Head(waits[k]), k, TRUE, Tail(waits[k]), holders[k] \ {c})

ReleaseToWaiter(c, k) ==
    /\ c \in holders[k]
    /\ waits[k] # <<>>
    /\ TryAcquire(Head(waits[k]), k, FALSE, Tail(waits[k]), holders[k] \ {c})

ReleaseKey(c, k) ==
    /\ c \in holders[k]
    /\ waits[k] = <<>>
    /\ heldKeys' = heldKeys \ {k}
    /\ holders' = [holders EXCEPT ![k] = @ \ {c}]
    /\ UNCHANGED waits

KeyedNext ==
    \E c \in KeyCallers, k \in LockKeys :
        AcquireKey(c, k) \/ ReleaseToWaiter(c, k) \/ ReleaseKey(c, k)

KeyedSpec == KeyedInit /\ [][KeyedNext]_keyedVars

----------------------------------------------------------------------------
(* Properties *)

KeyMutex(k) ==
    INSTANCE AsyncMutex WITH
        Lockers <- KeyCallers,
        locked <- k \in heldKeys, q <- waits[k], owners <- holders[k]

\* Every key is a mutex of its own: releasing by freeing and trying again
\* hands the key to the oldest waiter of that key, without letting anybody in
\* between, and never disturbs another key.
KeysAreMutexes ==
    /\ \A k \in LockKeys : KeyMutex(k)!MutexInit
    /\ [][\A k \in LockKeys : [KeyMutex(k)!MutexNext]_(KeyMutex(k)!mutexVars)]_keyedVars

============================================================================
