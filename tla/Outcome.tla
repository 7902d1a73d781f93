------------------------------- MODULE Outcome -------------------------------
(***************************************************************************)
(* shareds/error: results, the errors they carry, and what becomes of an   *)
(* error that is thrown, caught and thrown again.  A chain of calls is at  *)
(* a result, ok or err, or outside of one: it gave a value or it threw.    *)
(* Values are sequences, for `and` makes pairs; the functions that callers *)
(* pass look at the first.                                                 *)
(***************************************************************************)
EXTENDS Sequences, Naturals

CONSTANTS
    Payloads,
    Codes       \* of AppErrors

VARIABLE chain
\* held: "ok", "err", "gave" or "threw", with its value or its error; and for
\* OutcomesAreKept, failure: what the chain failed with first, since it last
\* was well or an error was answered

----------------------------------------------------------------------------
\* What is thrown: AppErrors, with what of a foreign error they hold, and
\* anything else.
AppError(code, holds) == [app |-> TRUE, code |-> code, holds |-> holds]
Foreign(kind) == [app |-> FALSE, code |-> kind, holds |-> ""]
Raised == {AppError(c, "") : c \in Codes} \cup {Foreign(k) : k \in {"Error", "string", "object"}}
NoError == Foreign("null")

\* fromUnknown, wrap
FromUnknown(e) ==
    IF e.app THEN e
    ELSE AppError("error/from-unknown",
                  CASE e.code = "Error" -> "cause"
                    [] e.code = "string" -> "message"
                    [] OTHER -> "data")
Wrap(e, code) == IF e.app THEN e ELSE AppError(code, "cause")

Ok(v) == [held |-> "ok", value |-> v, error |-> NoError]
Err(e) == [held |-> "err", value |-> <<>>, error |-> e]
Gave(v) == [held |-> "gave", value |-> v, error |-> NoError]
Threw(e) == [held |-> "threw", value |-> <<>>, error |-> e]

\* What the functions of callers do with a content, and with an error.
Outcomes == {Gave(<<c>>) : c \in Payloads} \cup {Threw(e) : e \in Raised}
Results == {Ok(<<c>>) : c \in Payloads} \cup {Err(e) : e \in Raised}
Functions1 == [Payloads -> Outcomes]
Links == [Payloads -> Results \cup {Threw(e) : e \in Raised}]
Applied(fn, r) == fn[r.value[1]]

----------------------------------------------------------------------------
\* match of error codes, `_` for the others.
Matched(e, handlers, answer) ==
    IF ~e.app THEN IF "_" \in handlers THEN answer ELSE Threw(Foreign("Error"))
    ELSE IF handlers \cap {e.code, "_"} # {} THEN answer
    ELSE Threw(Foreign("Error"))

\* safeFunc and safeAwait catch; everything else lets a throw through.
SafeFunc(o) == IF o.held = "threw" THEN Err(FromUnknown(o.error)) ELSE Ok(o.value)

Map(r, fn) ==
    IF r.held # "ok" THEN r
    ELSE LET o == Applied(fn, r) IN IF o.held = "gave" THEN Ok(o.value) ELSE o
MapAsync(r, fn) ==
    IF r.held # "ok" THEN r
    ELSE LET o == Applied(fn, r)
         IN  IF o.held = "gave" THEN Ok(o.value) ELSE Err(FromUnknown(o.error))
MapErr(r, answer) == IF r.held # "err" THEN r ELSE answer
FlatMap(r, link) == IF r.held # "ok" THEN r ELSE Applied(link, r)
Tap(r, fn) == IF r.held = "ok" /\ Applied(fn, r).held = "threw" THEN Applied(fn, r) ELSE r
TapErr(r, o) == IF r.held = "err" /\ o.held = "threw" THEN o ELSE r
Unwrap(r) == IF r.held = "ok" THEN Gave(r.value) ELSE Threw(r.error)
UnwrapErr(r) == IF r.held = "err" THEN r ELSE Threw(Foreign("Error"))
UnwrapOr(r, v) == IF r.held = "ok" THEN Gave(r.value) ELSE Gave(v)
UnwrapOrElse(r, o) == IF r.held = "ok" THEN Gave(r.value) ELSE o
MatchResult(r, fn, o) == IF r.held = "ok" THEN Applied(fn, r) ELSE o
ToPromise(r) == IF r.held = "ok" THEN Gave(r.value) ELSE Threw(r.error)
BothOk(r, s) ==
    IF r.held = "ok" /\ s.held = "ok" THEN Ok(r.value \o s.value)
    ELSE IF r.held = "err" THEN r ELSE s
EitherOk(r, s) == IF r.held = "ok" THEN r ELSE s

----------------------------------------------------------------------------
Current == [held |-> chain.held, value |-> chain.value, error |-> chain.error]
IsFailing(r) == r.held \in {"err", "threw"}
Begun(r, failure) ==
    [held |-> r.held, value |-> r.value, error |-> r.error, failure |-> failure]

OutcomeInit == \E r \in Results : chain = Begun(r, r.error)

\* The chain goes on with r; what it failed with stays, unless a function
\* answered the error.
GoesOn(r) ==
    chain' = Begun(r, IF IsFailing(r) /\ IsFailing(Current) THEN chain.failure ELSE r.error)
AnswersError(r) == chain' = Begun(r, r.error)

\* A method for values, one for errors, and a way out of the wrapper.
OnValue ==
    /\ chain.held \in {"ok", "err"}
    /\ \/ \E fn \in Functions1 : \/ GoesOn(Map(Current, fn))
                                 \/ GoesOn(MapAsync(Current, fn))
                                 \/ GoesOn(Tap(Current, fn))
       \/ \E link \in Links : GoesOn(FlatMap(Current, link))
       \/ Len(chain.value) < 2 /\ \E s \in Results : GoesOn(BothOk(Current, s))

OnError ==
    /\ chain.held = "err"
    /\ \/ \E e \in Raised : \/ AnswersError(MapErr(Current, Err(e)))
                          \/ AnswersError(MapErr(Current, Threw(e)))
       \/ \E o \in Outcomes : IF o.held = "threw" THEN AnswersError(TapErr(Current, o))
                             ELSE GoesOn(TapErr(Current, o))
       \/ \E s \in Results : AnswersError(EitherOk(Current, s))
       \/ \E o \in Outcomes : AnswersError(UnwrapOrElse(Current, o))
       \/ \E c \in Payloads : AnswersError(UnwrapOr(Current, <<c>>))

Out ==
    /\ chain.held \in {"ok", "err"}
    /\ GoesOn(Unwrap(Current)) \/ GoesOn(ToPromise(Current))

\* What was given or thrown is caught, wrapped or matched.
Caught == chain.held \in {"gave", "threw"} /\ GoesOn(SafeFunc(Current))
Wrapped == chain.held = "threw" /\ \E c \in Codes : GoesOn(Threw(Wrap(chain.error, c)))
MatchedOut ==
    /\ chain.held = "threw"
    /\ \E handlers \in SUBSET (Codes \cup {"_"}), o \in Outcomes :
            AnswersError(Matched(chain.error, handlers, o))

OutcomeNext == OnValue \/ OnError \/ Out \/ Caught \/ Wrapped \/ MatchedOut

----------------------------------------------------------------------------
\* The ways to go on from a result that come to the same: a map after a map,
\* a link after a link, to catch what is unwrapped, to map asynchronously, and
\* the three ways to answer an error.
MeansTheSame(r) ==
    /\ \A f \in Functions1, g \in Functions1 :
            Map(Map(r, f), g) =
            Map(r, [c \in Payloads |->
                        IF f[c].held = "gave" THEN g[f[c].value[1]] ELSE f[c]])
    /\ \A l \in Links, f \in Functions1 :
            Map(FlatMap(r, l), f) = FlatMap(r, [c \in Payloads |-> Map(l[c], f)])
    /\ r.held = "ok" \/ r.error.app => SafeFunc(Unwrap(r)) = r
    /\ \A f \in Functions1 :
            MapAsync(r, f) = IF r.held = "ok" THEN SafeFunc(Applied(f, r)) ELSE r
    /\ \A s \in Results :
            /\ BothOk(r, s).held = "ok" <=> r.held = "ok" /\ s.held = "ok"
            /\ EitherOk(r, s).held = "ok" <=> r.held = "ok" \/ s.held = "ok"
            /\ UnwrapOr(EitherOk(r, s), <<>>) = UnwrapOrElse(r, UnwrapOr(s, <<>>))
    /\ UnwrapErr(r) = r <=> Unwrap(r).held = "threw"
    /\ \A f \in Functions1 : MatchResult(r, f, Threw(r.error)) = Unwrap(Map(r, f))
                                \/ IsFailing(Map(r, f))

\* A chain that failed ends with what it failed with first, through every
\* method for values and every throw and catch: an AppError is itself, anything
\* else is what it was or the AppError that was made of it once.
OutcomesAreKept ==
    /\ IsFailing(Current) =>
            /\ chain.value = <<>>
            /\ IF chain.failure.app THEN chain.error = chain.failure
               ELSE chain.error \in
                        {chain.failure, FromUnknown(chain.failure)}
                            \cup {Wrap(chain.failure, c) : c \in Codes}
    /\ ~IsFailing(Current) => chain.error = NoError
    /\ chain.held \in {"ok", "err"} => MeansTheSame(Current)
=============================================================================
