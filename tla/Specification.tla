---------------------------- MODULE Specification ----------------------------
(***************************************************************************)
(* packages/specification: specifications combined with and, or and not,   *)
(* their synchronous and asynchronous evaluation, their explanations, the  *)
(* memo of a specification and the round trip through the AST.             *)
(*                                                                         *)
(* A specification asks one predicate of a value, or combines others.  A   *)
(* value is what each predicate answers on it: "yes", "no" or "throws".    *)
(***************************************************************************)
EXTENDS Naturals, Sequences, SequencesExt

CONSTANTS
    Trees,       \* specifications
    Values,      \* functions from predicates to their answers
    Asked,       \* those that a specification in use is asked about
    Plugins,  \* predicates of the specifications the registry has
    MaxRuns      \* bound on the evaluations that are open

\* class: FieldSpec, another subclass of BaseSpec, or an object that has
\* isSatisfiedBy only; extra: operator input that the AST schema refuses.
Leaf(class, pred, async, memoize, extra) ==
    [mode |-> "leaf", class |-> class, pred |-> pred, async |-> async,
     memoize |-> memoize, extra |-> extra]

\* createAllSpec, createAnySpec, createNotSpec.
All(specs) == [mode |-> "and", specs |-> specs]
AnyOf(specs) == [mode |-> "or", specs |-> specs]
Not(spec) == [mode |-> "not", specs |-> <<spec>>]

NoneOf(specs) == Not(AnyOf(specs))
Xor(a, b) == AnyOf(<<All(<<a, Not(b)>>), All(<<Not(a), b>>)>>)
Implies(a, b) == AnyOf(<<Not(a), b>>)

\* typeof spec.isSatisfiedByAsync === "function": true of every BaseSpec.
HasAsync(spec) == spec.mode = "leaf" => spec.class # "plain"

Flip(answer) ==
    CASE answer = "yes" -> "no" [] answer = "no" -> "yes" [] OTHER -> answer

\* every and some, and the loop of evaluateLogical: in order, until the
\* answer is known or one throws.
Until(mode, answers) ==
    LET going == IF mode = "and" THEN "yes" ELSE "no"
    IN  FoldLeft(LAMBDA acc, a : IF acc = going THEN a ELSE acc, going, answers)

\* isSatisfiedBy without the memo: a promise makes it throw, and a composite
\* answers with one as soon as a part of it has isSatisfiedByAsync.
RECURSIVE RunSync(_, _)
RunSync(spec, value) ==
    CASE spec.mode = "leaf" ->
            IF spec.async THEN "throws" ELSE value[spec.pred]
      [] spec.mode # "leaf" /\ \E i \in DOMAIN spec.specs : HasAsync(spec.specs[i]) ->
            "throws"
      [] OTHER ->
            LET answers == [i \in DOMAIN spec.specs |-> RunSync(spec.specs[i], value)]
            IN  IF spec.mode = "not" THEN Flip(answers[1])
                ELSE Until(spec.mode, answers)

\* evaluateSpec: isSatisfiedByAsync where there is one.
RECURSIVE RunAsync(_, _)
RunAsync(spec, value) ==
    IF spec.mode = "leaf" THEN value[spec.pred]
    ELSE LET answers == [i \in DOMAIN spec.specs |-> RunAsync(spec.specs[i], value)]
         IN  IF spec.mode = "not" THEN Flip(answers[1])
             ELSE Until(spec.mode, answers)

----------------------------------------------------------------------------
\* Mutant of CompositeVerdict: what is unknown does not count.
CompositeVerdictOfKnown(mode, passes) ==
    LET has(p) == \E i \in DOMAIN passes : passes[i] = p
    IN  CASE has("throws") -> "throws"
          [] mode = "not" /\ ~has("throws") ->
                IF passes[1] = "no" THEN "yes" ELSE "unknown"
          [] mode = "and" /\ ~has("throws") -> IF has("no") THEN "no" ELSE "yes"
          [] OTHER -> IF has("yes") THEN "yes" ELSE "no"

\* computeCompositeVerdict; the last line's `!child.pass || "unknown"` turns
\* the false of a negation into "unknown".
CompositeVerdict(mode, passes) ==
    LET has(p) == \E i \in DOMAIN passes : passes[i] = p
    IN  CASE has("throws") -> "throws"
          [] ~has("throws") /\ has("unknown") -> "unknown"
          [] mode = "not" /\ ~has("throws") /\ ~has("unknown") ->
                IF passes[1] = "no" THEN "yes" ELSE "unknown"
          [] mode = "and" /\ ~has("throws") /\ ~has("unknown") ->
                IF has("no") THEN "no" ELSE "yes"
          [] OTHER -> IF has("yes") THEN "yes" ELSE "no"

\* explain leaves what it would have to wait for unknown; explainAsync waits.
RECURSIVE Explain(_, _, _)
Explain(spec, value, waits) ==
    IF spec.mode = "leaf"
    THEN IF spec.async /\ ~waits THEN "unknown" ELSE value[spec.pred]
    ELSE CompositeVerdict(spec.mode,
            [i \in DOMAIN spec.specs |-> Explain(spec.specs[i], value, waits)])

----------------------------------------------------------------------------
\* toAst with a registry, then fromAst with the same one: the specification
\* read back, or "throws".  A reference is read back as what is registered.
RECURSIVE ToAst(_)
ToAst(spec) ==
    CASE spec.mode = "leaf" /\ spec.class = "field" ->
            [node |-> "op", leaf |-> spec]
      [] spec.mode = "leaf" /\ spec.class = "custom" ->
            [node |-> "ref", leaf |-> spec]
      [] spec.mode = "leaf" /\ spec.class = "plain" ->
            [node |-> "throws", leaf |-> spec]
      [] OTHER ->
            [node |-> spec.mode,
             nodes |-> [i \in DOMAIN spec.specs |-> ToAst(spec.specs[i])]]

\* astValidator's schema admits an input's known fields only, at any depth.
RECURSIVE Readable(_)
Readable(ast) ==
    CASE ast.node = "op" -> ~ast.leaf.extra
      [] ast.node = "ref" -> ast.leaf.pred \in Plugins
      [] ast.node = "throws" -> FALSE
      [] OTHER -> \A i \in DOMAIN ast.nodes : Readable(ast.nodes[i])

RECURSIVE FromAst(_)
FromAst(ast) ==
    IF ast.node \in {"op", "ref"} THEN ast.leaf
    ELSE [mode |-> ast.node,
          specs |-> [i \in DOMAIN ast.nodes |-> FromAst(ast.nodes[i])]]

----------------------------------------------------------------------------
(***************************************************************************)
(* A specification in use.  memo is the entry of the SpecMemoizer, which   *)
(* FieldSpec and CompositeSpec never have; open the evaluations whose      *)
(* promise is out; answer the last answer, with how it was asked for.      *)
(***************************************************************************)
VARIABLE use

Answered(how, value, verdict) == [how |-> how, value |-> value, verdict |-> verdict]

NoEntry == [hash |-> <<>>, verdict |-> "none"]

UseInit ==
    \E tree \in Trees :
        use = [spec |-> tree, memo |-> NoEntry, open |-> <<>>,
               answer |-> Answered("sync", <<>>, "none")]

Memoized == use.spec.mode = "leaf" /\ use.spec.memoize

\* Mutant of Cached: the entry answers for any value.
CachedForAny(value) == use.memo.verdict

\* SpecMemoizer.get: the hash of a value stands for the value.
Cached(value) ==
    IF use.memo.verdict # "none" /\ use.memo.hash = value
    THEN use.memo.verdict ELSE "none"

Remember(value, verdict) ==
    IF Memoized /\ verdict # "throws"
    THEN [hash |-> value, verdict |-> verdict] ELSE use.memo

IsSatisfiedBy(value) ==
    LET verdict == IF Cached(value) # "none" THEN Cached(value)
                   ELSE RunSync(use.spec, value)
    IN  use' = [use EXCEPT
            !.memo = Remember(value, verdict),
            !.answer = Answered("sync", value, verdict)]

\* The evaluation starts at once and its answer comes with a promise.
IsSatisfiedByAsync(value) ==
    /\ HasAsync(use.spec)
    /\ IF Cached(value) # "none"
       THEN use' = [use EXCEPT !.answer = Answered("async", value, Cached(value))]
       ELSE /\ Len(use.open) < MaxRuns
            /\ use' = [use EXCEPT !.open = Append(@, value)]

Settles(i) ==
    LET value == use.open[i]
        verdict == RunAsync(use.spec, value)
    IN  use' = [use EXCEPT
            !.open = RemoveAt(@, i),
            !.memo = Remember(value, verdict),
            !.answer = Answered("async", value, verdict)]

\* The specification is stored as an AST and read back.
Reload ==
    /\ use.open = <<>>
    /\ Readable(ToAst(use.spec))
    /\ use' = [use EXCEPT !.spec = FromAst(ToAst(use.spec)), !.memo = NoEntry]

UseNext ==
    \/ \E v \in Asked : IsSatisfiedBy(v) \/ IsSatisfiedByAsync(v)
    \/ \E i \in DOMAIN use.open : Settles(i)
    \/ Reload

----------------------------------------------------------------------------
\* What a specification means: a conjunction is decided by its first part
\* that does not hold, a disjunction by its first part that holds.
RECURSIVE Meaning(_, _)
Meaning(spec, value) ==
    IF spec.mode = "leaf" THEN value[spec.pred]
    ELSE LET m(i) == Meaning(spec.specs[i], value)
             neutral == IF spec.mode = "or" THEN "no" ELSE "yes"
             decisive == {i \in DOMAIN spec.specs : m(i) # neutral}
             first == CHOOSE i \in decisive : \A j \in decisive : i <= j
         IN  CASE spec.mode = "not" -> Flip(m(1))
               [] spec.mode # "not" /\ decisive = {} -> neutral
               [] OTHER -> m(first)

\* Every answer is what the specification means, however it was evaluated,
\* remembered, overtaken by another evaluation, stored or read back; only
\* isSatisfiedBy may throw instead.
AnswersAreMeant ==
    LET a == use.answer
    IN  a.verdict # "none" =>
            IF a.how = "sync" /\ a.verdict = "throws" THEN TRUE
            ELSE a.verdict = Meaning(use.spec, a.value)

\* explain and explainAsync never claim what evaluation contradicts: where
\* they answer yes or no, that is the verdict, or an earlier part throws.
ExplainNeverLies ==
    \A v \in Values, waits \in BOOLEAN :
        Explain(use.spec, v, waits) \in {"yes", "no"} =>
            Explain(use.spec, v, waits) = Meaning(use.spec, v)

\* isSatisfiedBy answers where nothing in the specification is asynchronous.
RECURSIVE IsSync(_)
IsSync(spec) ==
    IF spec.mode = "leaf" THEN ~spec.async
    ELSE \A i \in DOMAIN spec.specs : IsSync(spec.specs[i])

SyncAnswers ==
    \A v \in Values :
        IsSync(use.spec) /\ Meaning(use.spec, v) # "throws" =>
            RunSync(use.spec, v) # "throws"
=============================================================================
