------------------------------ MODULE Evaluator ------------------------------
(***************************************************************************)
(* ExpressionEvaluator: expressions are compiled by an asynchronous engine *)
(* and the promises of their builds kept in an LRU cache, while calls race *)
(* with a timeout.                                                         *)
(*                                                                         *)
(* An expression is its id, its version ("" for none) and its operations,  *)
(* a value; the engine can build operations whose operators it knows.      *)
(***************************************************************************)
EXTENDS Naturals, Sequences, SequencesExt

CONSTANTS
    Expressions,   \* records with id, version and operations
    Unknown,       \* operations with an operator addKeyword has yet to add
    MaxCompiled,   \* cache.maxEntries
    MaxCompiles,   \* bound on the builds
    MaxEvaluations \* bound on the calls

ASSUME EvaluatorAssumption ==
    /\ MaxCompiled \in Nat
    /\ \A x \in Expressions :
        x = [id |-> x.id, version |-> x.version, operations |-> x.operations]

VARIABLE evaluator
\* strict: config.strictMode; known: the operations the engine can build;
\* cache: keys with their builds, the one used last in front; builds:
\* the operations of each build and its state; calls: the expression and
\* the build of each call of evaluate, and how it went

EvaluatorInit ==
    \E strict \in BOOLEAN :
        evaluator = [strict |-> strict, known |-> FALSE, cache |-> <<>>,
                     builds |-> <<>>, calls |-> <<>>]

----------------------------------------------------------------------------
\* getCacheKey; the hash of the operations stands for them.
BaseKey(x) == IF x.version = "" THEN x.id ELSE x.id \o "@" \o x.version

\* Mutant of CacheKey: strict mode leaves the operations out as well.
CacheKeyLoose(x) == <<BaseKey(x), "">>

CacheKey(x) == <<BaseKey(x), IF evaluator.strict THEN x.operations ELSE "">>

\* No two ids and versions have one key, which ids with an "@" could have.
KeysDiffer ==
    \A x, y \in Expressions :
        BaseKey(x) = BaseKey(y) => x.id = y.id /\ x.version = y.version

\* The operations the engine has no operator for make build reject.
CanBuild(operations) == operations \notin Unknown \/ evaluator.known

\* compile: the cached build, moved to the front, or a new one in front of a
\* cache that drops its oldest.  The engine looks operators up when called.
Compile(x) ==
    LET key == CacheKey(x)
        hits == {i \in DOMAIN evaluator.cache : evaluator.cache[i].key = key}
        hit == CHOOSE i \in hits : TRUE
        others == IF hits = {} THEN evaluator.cache ELSE RemoveAt(evaluator.cache, hit)
        new == Len(evaluator.builds) + 1
        build == IF hits = {} THEN new ELSE evaluator.cache[hit].build
        kept == <<[key |-> key, build |-> build]>> \o others
    IN  [ev |->
            [evaluator EXCEPT
                !.cache = SubSeq(kept, 1,
                    IF Len(kept) < MaxCompiled THEN Len(kept) ELSE MaxCompiled),
                !.builds = IF hits # {} THEN @
                           ELSE Append(@, [operations |-> x.operations,
                                           works |-> CanBuild(x.operations),
                                           state |-> "pending"])],
         build |-> build]

Room == Len(evaluator.builds) < MaxCompiles

\* evaluate, up to the race between the build and the timeout.
Evaluate(x) ==
    /\ Room
    /\ Len(evaluator.calls) < MaxEvaluations
    /\ LET c == Compile(x)
       IN  evaluator' = [c.ev EXCEPT
            !.calls = Append(@, [expression |-> x, build |-> c.build,
                                 state |-> "racing"])]

\* precompile and validate compile without evaluating.
Precompile(x) ==
    /\ Room
    /\ evaluator' = Compile(x).ev

\* The engine ends a build, in any order.
EngineBuilds(b) ==
    /\ evaluator.builds[b].state = "pending"
    /\ evaluator' = [evaluator EXCEPT
        !.builds[b].state = IF evaluator.builds[b].works THEN "built" ELSE "rejected"]

\* The race is won by the build, whose function is applied to the data ...
BuildWins(c) ==
    LET call == evaluator.calls[c]
        state == evaluator.builds[call.build].state
    IN  /\ call.state = "racing"
        /\ state # "pending"
        /\ evaluator' = [evaluator EXCEPT
            !.calls[c].state = IF state = "built" THEN "answered" ELSE "failed"]

\* ... or by the timer.
TimesOut(c) ==
    /\ evaluator.calls[c].state = "racing"
    /\ evaluator' = [evaluator EXCEPT !.calls[c].state = "late"]

ClearCache ==
    /\ evaluator.cache # <<>>
    /\ evaluator' = [evaluator EXCEPT !.cache = <<>>]

AddKeyword ==
    /\ ~evaluator.known
    /\ evaluator' = [evaluator EXCEPT !.known = TRUE]

EvaluatorNext ==
    \/ \E x \in Expressions : Evaluate(x) \/ Precompile(x)
    \/ \E b \in DOMAIN evaluator.builds : EngineBuilds(b)
    \/ \E c \in DOMAIN evaluator.calls : BuildWins(c) \/ TimesOut(c)
    \/ ClearCache
    \/ AddKeyword

EvaluatorSpec == EvaluatorInit /\ [][EvaluatorNext]_evaluator

----------------------------------------------------------------------------
\* Whatever is cached, dropped, cleared or still being built, a call is
\* answered by the function of an expression with its id and version, and
\* in strict mode by the function of its own operations.
AnswersAreOwn ==
    \A c \in DOMAIN evaluator.calls :
        LET call == evaluator.calls[c]
            built == evaluator.builds[call.build].operations
        IN  call.state = "answered" =>
            /\ built \notin Unknown \/ evaluator.known
            /\ \E x \in Expressions :
                /\ x.operations = built
                /\ x.id = call.expression.id
                /\ x.version = call.expression.version
                /\ evaluator.strict => x = call.expression
=============================================================================
