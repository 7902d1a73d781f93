---------------------------- MODULE Singleflight ----------------------------
(***************************************************************************)
(* Singleflight (shareds/cache/src/cache.ts) and SingleflightWithTimeout   *)
(* (singleflight-optimized.ts): calls for a key that is in flight share    *)
(* one promise.  fn() settles first; the promise that callers hold settles *)
(* after the finally, which is a microtask of its own, and which forgets   *)
(* the flight if it is still the key's.                                    *)
(***************************************************************************)
EXTENDS Integers, Sequences

CONSTANTS
    FlightKeys,
    MaxFlights      \* bound of the model on the calls of fn

VARIABLES
    inflight,       \* per key: the flight in the map, or 0
    flights,        \* all calls of fn so far, see Flight
    withTimeout     \* whether the object is a SingleflightWithTimeout

flightVars == <<inflight, flights, withTimeout>>

\* st: fn is running, has settled, or the finally has run too (also: fn threw
\* before it gave a promise).  given up: by clear() or by the timeout.
Flight(k, st) == [key |-> k, st |-> st, timer |-> withTimeout, givenUp |-> FALSE]

FlightInit ==
    /\ inflight = [k \in FlightKeys |-> 0]
    /\ flights = <<>>
    /\ withTimeout \in BOOLEAN

----------------------------------------------------------------------------
\* do() of a key that is not in flight.
StartFlight(k) ==
    /\ inflight[k] = 0
    /\ Len(flights) < MaxFlights
    /\ flights' = Append(flights, Flight(k, "running"))
    /\ inflight' = [inflight EXCEPT ![k] = Len(flights) + 1]
    /\ UNCHANGED withTimeout

\* do() whose fn throws before it returns a promise: nothing is registered,
\* but the timeout was set before the call.
ThrowAtOnce(k) ==
    /\ inflight[k] = 0
    /\ Len(flights) < MaxFlights
    /\ flights' = Append(flights, Flight(k, "done"))
    /\ UNCHANGED <<inflight, withTimeout>>

\* fn's promise settles, with a value or with an error.
FnSettles(f) ==
    /\ flights[f].st = "running"
    /\ flights' = [flights EXCEPT ![f].st = "settled"]
    /\ UNCHANGED <<inflight, withTimeout>>

\* Mutant: the finally forgets the key's flight, whichever it is.
FinallyAnyFlight(f) ==
    /\ flights[f].st = "settled"
    /\ flights' = [flights EXCEPT ![f].st = "done", ![f].timer = FALSE]
    /\ inflight' = [inflight EXCEPT ![flights[f].key] = 0]
    /\ UNCHANGED withTimeout

\* The finally.
Finally(f) ==
    LET own == inflight[flights[f].key] = f
    IN  /\ flights[f].st = "settled"
        /\ flights' = [flights EXCEPT ![f].st = "done",
                                      ![f].timer = @ /\ ~own]
        /\ inflight' = [inflight EXCEPT ![flights[f].key] = IF own THEN 0 ELSE @]
        /\ UNCHANGED withTimeout

\* The timeout of a flight, stuck or thrown, forgets it if it is still there.
TimerFires(f) ==
    LET own == inflight[flights[f].key] = f
    IN  /\ flights[f].timer
        /\ flights' = [flights EXCEPT ![f].timer = FALSE, ![f].givenUp = @ \/ own]
        /\ inflight' = [inflight EXCEPT ![flights[f].key] = IF own THEN 0 ELSE @]
        /\ UNCHANGED withTimeout

\* clear(): the timers of the flights in the map are cleared with them.
ClearFlights ==
    /\ \E k \in FlightKeys : inflight[k] # 0
    /\ flights' = [f \in DOMAIN flights |->
                     IF inflight[flights[f].key] = f
                     THEN [flights[f] EXCEPT !.timer = FALSE, !.givenUp = TRUE]
                     ELSE flights[f]]
    /\ inflight' = [k \in FlightKeys |-> 0]
    /\ UNCHANGED withTimeout

FlightNext ==
    \/ \E k \in FlightKeys : StartFlight(k) \/ ThrowAtOnce(k)
    \/ \E f \in DOMAIN flights : FnSettles(f) \/ Finally(f) \/ TimerFires(f)
    \/ ClearFlights

FlightSpec == FlightInit /\ [][FlightNext]_flightVars

----------------------------------------------------------------------------
(* Properties *)

\* A flight whose promise is not settled is the one that a call for its key
\* joins, hence the only one, unless somebody gave it up; and a call never
\* joins a flight that is over.  Late finallys and late timers of flights
\* that were given up leave their successors alone.
FlightsAreShared ==
    /\ \A f \in DOMAIN flights :
          flights[f].st # "done" /\ ~flights[f].givenUp => inflight[flights[f].key] = f
    /\ \A k \in FlightKeys :
          inflight[k] # 0 => flights[inflight[k]].st # "done"

============================================================================
