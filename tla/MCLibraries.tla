---------------------------- MODULE MCLibraries ----------------------------
(***************************************************************************)
(* The packages that stand alone, on small instances.  They share no       *)
(* state: a behaviour exercises the one that `part` names.                 *)
(***************************************************************************)
EXTENDS ExpressionBuilder, Evaluator, Specification, Patterns, Schemas, Validator,
        PooledCache, Memoize, Listeners, Timers, Heap, Scopes, Retry, Calendar, Topics,
        SpecOperators, Outcome, Relation

CONSTANT Parts    \* the parts to exercise

VARIABLES part,
          asked     \* the expressions detectRecursion is asked about, by id

libVars ==
    <<part, asked, builder, drafting, evaluator, use, matching, making, registry, pooled,
      memo, bus, timed, heap, scope, retry, plan, routing,
      limiter, dsl, chain>>

----------------------------------------------------------------------------
\* Expressions.
MCOperators == {"not", "-", "+", "if", "reduce", "keys", "**"}
MCOperands == {Single("var", Str("x")), Single("val", Arr(<<Str("x")>>)), Str("s")}

\* What is set on a drafted expression schema.
MCSettings == [name |-> "n", validator |-> "refuses"]

\* Every reference graph on three expressions, the fourth id dangling; the
\* references sit at different depths.
Ids == {"a", "b", "c"}
RefTo(r) ==
    IF r = "b" THEN Single("not", Single("ref", Str(r))) ELSE Single("ref", Str(r))
Referring(refs) ==
    <<Single("and", Arr(<<Str("s")>> \o SetToSeq({RefTo(r) : r \in refs})))>>
Graphs3 ==
    {[id \in Ids |-> Referring(g[id])] : g \in [Ids -> SUBSET (Ids \cup {"z"})]}

\* Versions and operations of two expressions under one id.
MCExpressions ==
    {[id |-> "a", version |-> "1", operations |-> "p"],
     [id |-> "a", version |-> "1", operations |-> "q"],
     [id |-> "a", version |-> "", operations |-> "q"],
     [id |-> "b", version |-> "1", operations |-> "r"]}

\* Specifications: of one part, of two, and two levels of not and xor.
MCLeaves ==
    {Leaf("field", "p", FALSE, FALSE, FALSE), Leaf("field", "q", TRUE, FALSE, TRUE),
     Leaf("custom", "q", FALSE, TRUE, FALSE), Leaf("custom", "p", TRUE, TRUE, FALSE),
     Leaf("plain", "q", FALSE, FALSE, FALSE)}
Combined(S) ==
    {Not(a) : a \in S} \cup {All(<<a, b>>) : a, b \in S}
        \cup {AnyOf(<<a, b>>) : a, b \in S}
MCTrees ==
    MCLeaves \cup Combined(MCLeaves)
        \cup
            UNION {{Not(a), NoneOf(<<a>>)} : a \in Combined(MCLeaves)}
        \cup {Xor(a, b) : a, b \in MCLeaves} \cup {Implies(a, b) : a, b \in MCLeaves}
MCValues == [{"p", "q"} -> {"yes", "no", "throws"}]
MCAsked ==
    {[p |-> "yes", q |-> "no"], [p |-> "no", q |-> "throws"], [p |-> "no", q |-> "yes"]}

\* Patterns, of values whose strings and keys are sequences of characters.
Number == Guard({"number"}, "is", 0)
String == Guard({"string"}, "is", 0)
Word(w) == Str(<<w>>)
Event == Fields(<<"a">> :> Literal(Word("a")) @@ <<"b">> :> Select("x", Number))
Renamed == Fields(<<"a">> :> Select("y", String) @@ <<"b">> :> Literal(Num(4)))
Rest3 == ArrayOf("rest", Select("x", Number))
MCLazies ==
    "tree" :> Or(<<Number, Fields(<<"a">> :> Select("x", Number)
                                    @@ <<"b">> :> Optional(Lazy("tree")))>>)
Spreading == {Tuple(<<Rest3, String>>), Tuple(<<Select("f", Number), Rest3>>),
              Tuple(<<String, Rest3, Select("l", Number)>>)}
MCPatterns ==
    {Event, Or(<<Event, Renamed>>), ArrayOf("rows", Or(<<Event, Renamed>>)), Rest3,
     Tuple(<<Rest3, String>>), NotP(Event), Lazy("tree"), ArrayOf("trees", Lazy("tree")),
     Tuple(<<Select("x", Refined(Number, {"number"}, "above", 2)),
             Refined(String, {"string"}, "least", 1)>>),
     Tuple(<<Refined(Number, {"number"}, "int", 0), Refined(Number, {"number"}, "below", 4)>>),
     RecordOf(Select("k", Or(<<String, Number>>)), Select("v", Number)),
     RecordOf(Guard({"number"}, "int", 0), Number),
     Entries2(Select("k", String), Select("v", Number)), Elements(Select("x", Number)),
     ArrayOf("opt", Fields(<<"a">> :> Optional(Select("x", String)))),
     And(<<Shaped(Event), Select(AnonymousKey, Event)>>),
     Refined(String, {"string"}, "startsWith", <<"a">>),
     And(<<String, Guard({"string"}, "endsWith", <<"b">>),
           Guard({"string"}, "includes", <<"a">>)>>),
     Guard({"string", "array", "set"}, "equals", 2), Guard({"map", "set"}, "most", 1)}
One(p) == [patterns |-> <<p>>, guard |-> TRUE,
           spreads |-> IF p \in Spreading THEN {"rest"} ELSE {}]
MCClauses ==
    {One(p) : p \in MCPatterns \cup Spreading}
        \cup {[patterns |-> <<Event, Renamed>>, guard |-> g, spreads |-> {}] : g \in BOOLEAN}
        \cup {[One(Renamed) EXCEPT !.guard = FALSE]}
Pair(a, b) == Obj(<<"a">> :> a @@ <<"b">> :> b)
MCInputs ==
    LET atoms == {Num(2), Num(3), Num(4), Word("a"), Str(<<"a", "b">>), Undef, Null}
        pairs == {Pair(Word("a"), Num(4)), Pair(Word("b"), Num(4)), Pair(Word("a"), Num(2)),
                  Pair(Num(2), Pair(Num(3), Num(4))), Obj(<<"a">> :> Word("b"))}
        keyed == Obj(<<"1">> :> Num(2) @@ <<"a">> :> Num(4))
    IN  atoms \cup pairs \cup {keyed, Obj(<<>>), Arr(<<>>)}
            \cup {Arr(<<a, b>>) : a, b \in atoms \ {Null}} \cup {Arr(<<a, b>>) : a, b \in pairs}
            \cup {Arr(<<Word("a"), Num(2), Num(4)>>), Arr(<<Num(2), Num(4), Word("a")>>)}
            \cup {SetOf(s) : s \in {<<>>, <<Num(2)>>, <<Num(2), Num(4)>>}}
            \cup {MapOf(m) : m \in {<<>>, <<<<Word("a"), Num(2)>>>>,
                                    <<<<Word("a"), Num(2)>>, <<Word("b"), Word("a")>>>>}}

\* Bindings and keys of a topic.
SeqsTo(S, n) == UNION {[1..k -> S] : k \in 1..n}
MCBindings == SeqsTo({"a", "b", "*", "#"}, 4) \cup SeqsTo({"a", "a*"}, 2)
MCRoutings == SeqsTo({"a", "b"}, 4) \cup SeqsTo({"a", "", "a*"}, 3)
                  \cup {<<"a", "b", "a", "b", "a">>}
MCTopics == SeqsTo({<<"a">>, <<"*">>, <<"#">>, <<"a", "b">>, <<"b", "#">>}, 3)
MCTables == UNION {[ks -> {1, 2}] : ks \in SUBSET {"h", "k"}}

\* Fields of a document, and what operators compare them with.
MCCompared ==
    {Undef, Null, Num(0), Num(1), Num(2), Str(<<>>), Word("a"), Word("b"), Word("("),
     Arr(<<>>), Arr(<<Num(2), Word("a")>>)}
MCDocuments ==
    {Obj("f" :> v) : v \in {Undef, Null, Num(0), Num(2), Str(<<>>), Str(<<"a", "b">>), Arr(<<>>),
                            Arr(<<Num(2), Word("a")>>), Obj("k" :> Num(1))}}
        \cup {Obj("g" :> Num(1)), Arr(<<Obj("f" :> Num(2))>>)}
MCPaths == {<<>>, <<"f">>, <<"f", "0">>, <<"f", "length">>, <<"0", "f">>, <<"f", "k">>}
MCBadPatterns == {<<"(">>}

\* The cached objects and the timers.
MCPoolTtls == {NoTime, 1}
MCMaxWaits == {Never, 1, 4}

\* Recurrence rules, from a year and four months.
Daily == [freq |-> "DAILY", interval |-> 1, byMonth |-> {}, byMonthDay |-> {},
          byDay |-> {}, bySetPos |-> {}, byHour |-> {}, start |-> 3, endAt |-> 99999,
          maxRuns |-> 99, exdates |-> {}, calendars |-> <<>>]
Weekly(days, pos) == [Daily EXCEPT !.freq = "WEEKLY", !.byDay = days, !.bySetPos = pos]
Monthly(days, pos) == [Daily EXCEPT !.freq = "MONTHLY", !.byDay = days, !.bySetPos = pos]
DayOf(month, day) == [year |-> 2024, month |-> month, day |-> day]
MCRules ==
    {Daily, [Daily EXCEPT !.interval = 2, !.byHour = {1}],
     [Daily EXCEPT !.byHour = {0, 1}, !.exdates = {6}],
     [Weekly({1, 3, 5}, {}) EXCEPT !.interval = 2],
     [Weekly({1, 3, 5}, {2}) EXCEPT !.maxRuns = 2], Weekly({1, 5}, {-1}),
     Monthly({1}, {1}), [Monthly({5}, {-1}) EXCEPT !.interval = 2],
     [Monthly({}, {}) EXCEPT !.byMonthDay = {29}, !.byMonth = {2}],
     [Daily EXCEPT !.endAt = 100,
        !.calendars = <<[include |-> {DayOf(0, 2)}, exclude |-> {}],
                        [include |-> {}, exclude |-> {DayOf(1, 2)}]>>]}
MCMonths == ({2024} \X (1..12)) \cup ({2025} \X (1..4))

----------------------------------------------------------------------------
\* One initial state for each part that a behaviour does not exercise.
LibInit ==
    /\ part \in Parts
    /\ IF part = "builders" THEN BuilderInit ELSE builder = Builder("not", <<>>)
    /\ DraftInit /\ (part # "drafts" => ~drafting.drafts[1].strict)
    /\ EvaluatorInit /\ (part # "evaluator" => ~evaluator.strict)
    /\ UseInit
    /\ part # "specifications" =>
            use.spec = CHOOSE t \in Trees : TRUE
    /\ MatchInit
    /\ part # "patterns" => matching.input = Undef /\ matching.spread = {}
    /\ MakingInit
    /\ ValidatorInit
    /\ part # "validator" => registry = Bare(FALSE, FALSE)
    /\ PooledInit /\ (part # "pool" => ~pooled.flat /\ pooled.hears = "")
    /\ MemoInit /\ (part # "memo" => memo.swr = 0 /\ memo.cacheErrors)
    /\ BusInit /\ (part # "bus" => bus.kind = "cron")
    /\ TimedInit
    /\ part # "timers" =>
            timed.kind = "debounce" /\ timed.leading /\ timed.trailing /\ timed.max = 1
    /\ HeapInit /\ (part # "heap" => heap.kind = "heap")
    /\ ScopeInit /\ (part # "scopes" => scope.kind = "withDefer")
    /\ RetryInit /\ (part # "retries" => retry.kind = "http" /\ ~retry.timeout)
    /\ CalendarInit
    /\ part # "calendar" => plan = PlanOf("rrule", <<2024, 1>>, Daily)
    /\ IF part = "topics" THEN RoutingInit ELSE routing = Starts(<<"a">>, <<"a">>)
    /\ LimiterInit
    /\ part # "limiter" => limiter.rate = 1 /\ limiter.tokens = 0
    /\ DslInit
    /\ part # "dsl" => dsl.doc = Obj("g" :> Num(1)) /\ dsl.operators = <<>>
    /\ OutcomeInit /\ (part # "results" => chain.value = <<"x">>)
    /\ IF part = "graphs" THEN asked \in Graphs3 ELSE asked = [id \in Ids |-> <<>>]

\* The parts that are not p keep still.
Others(p) ==
    /\ part = p
    /\ UNCHANGED <<part, asked>>
    /\ IF p = "builders" THEN TRUE ELSE UNCHANGED builder
    /\ IF p = "drafts" THEN TRUE ELSE UNCHANGED drafting
    /\ IF p = "evaluator" THEN TRUE ELSE UNCHANGED evaluator
    /\ IF p = "specifications" THEN TRUE ELSE UNCHANGED use
    /\ IF p = "patterns" THEN TRUE ELSE UNCHANGED matching
    /\ IF p = "schemas" THEN TRUE ELSE UNCHANGED making
    /\ IF p = "validator" THEN TRUE ELSE UNCHANGED registry
    /\ IF p = "pool" THEN TRUE ELSE UNCHANGED pooled
    /\ IF p = "memo" THEN TRUE ELSE UNCHANGED memo
    /\ IF p = "bus" THEN TRUE ELSE UNCHANGED bus
    /\ IF p = "timers" THEN TRUE ELSE UNCHANGED timed
    /\ IF p = "heap" THEN TRUE ELSE UNCHANGED heap
    /\ IF p = "scopes" THEN TRUE ELSE UNCHANGED scope
    /\ IF p = "retries" THEN TRUE ELSE UNCHANGED retry
    /\ IF p = "calendar" THEN TRUE ELSE UNCHANGED plan
    /\ IF p = "topics" THEN TRUE ELSE UNCHANGED routing
    /\ IF p = "limiter" THEN TRUE ELSE UNCHANGED limiter
    /\ IF p = "dsl" THEN TRUE ELSE UNCHANGED dsl
    /\ IF p = "results" THEN TRUE ELSE UNCHANGED chain

LibNext ==
    \/ Others("builders") /\ BuilderNext
    \/ Others("drafts") /\ DraftNext
    \/ Others("evaluator") /\ EvaluatorNext
    \/ Others("specifications") /\ UseNext
    \/ Others("patterns") /\ MatchNext
    \/ Others("schemas") /\ MakingNext
    \/ Others("validator") /\ ValidatorNext
    \/ Others("pool") /\ PooledNext
    \/ Others("memo") /\ MemoNext
    \/ Others("bus") /\ BusNext
    \/ Others("timers") /\ TimedNext
    \/ Others("heap") /\ HeapNext
    \/ Others("scopes") /\ ScopeNext
    \/ Others("retries") /\ RetryNext
    \/ Others("calendar") /\ CalendarNext
    \/ Others("topics") /\ RoutingNext
    \/ Others("limiter") /\ LimiterNext
    \/ Others("dsl") /\ DslNext
    \/ Others("results") /\ OutcomeNext

LibSpec == LibInit /\ [][LibNext]_libVars

----------------------------------------------------------------------------
\* detectRecursion reports a cycle for every expression on one, and for no
\* other: each issue ends where its path closes.
CyclesAreFound ==
    LET edges == [x, y \in Ids |-> y \in Extract("ref", asked[x])]
        onCycle == {id \in Ids : TransitiveClosure(edges, Ids)[id, id]}
    IN  {Last(p) : p \in DetectRecursion(asked)} = onCycle

\* The expressions that the builders let through are valid, and those whose
\* references go in circles are told apart from the others; a schema that was
\* built stays as it was.
ExpressionsAreSound ==
    /\ part = "builders" => BuiltIsValid
    /\ part = "drafts" => BuiltStands
    /\ part = "graphs" => CyclesAreFound

\* Specifications answer, and explain their answers, as they mean, and the
\* operators they are made of stand to each other as their names say.
SpecificationsAreSound ==
    /\ part = "specifications" => AnswersAreMeant /\ ExplainNeverLies
    /\ part = "dsl" => OperatorsAgree

\* Values match the patterns, and keys the bindings, that mean them, with every
\* branch that was tried and left behind.
MatchesAreMeant ==
    /\ part = "patterns" => MatchIsMeant
    /\ part = "topics" => RoutesAreMeant

\* A schema is nobody else's, from the builder that makes it to the validator
\* that was compiled from it.
SchemasAreKept ==
    /\ part = "schemas" => SchemasAreApart
    /\ part = "validator" => SchemasAgree

\* The structures that are changed in place keep their order, their items and
\* their slots, whatever was popped, removed, recycled or evicted in between.
StructuresAreSound ==
    /\ part = "heap" => HeapIsOrdered /\ HeapKeeps
    /\ part = "pool" => RecyclingIsSafe

\* The functions that wrap a caller's run it as often, and as late, as they say,
\* and pass on what it gives or throws: debounced, throttled, rate limited and
\* memoized ones, retries, results, and the finalizers of a scope.
WrappersAreExact ==
    /\ part = "timers" => PaceIsKept
    /\ part = "retries" => RetriesAreOwn
    /\ part = "memo" => MemoIsFaithful
    /\ part = "limiter" => RateIsKept
    /\ part = "results" => OutcomesAreKept
    /\ part = "scopes" => ScopesUnwind
=============================================================================
