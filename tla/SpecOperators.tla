---------------------------- MODULE SpecOperators ----------------------------
(***************************************************************************)
(* packages/specification: the registry, the DSL over it and the built-in  *)
(* operators on the fields of a document.  A string is the sequence of its *)
(* characters, a path the sequence of its tokens.                          *)
(***************************************************************************)
EXTENDS Json, SequencesExt

CONSTANTS
    Documents,
    Paths,
    Compared,      \* values that operators compare with
    BadPatterns,   \* those that RegExp refuses
    DslKinds,      \* the kinds that are registered and made
    SpecIds

VARIABLE dsl
\* doc: the document asked about; operators: the origin of each kind that is
\* registered; specs: the registered specifications; made: the last one

----------------------------------------------------------------------------
\* getPath: an index is a token like any other; nothing is found under
\* undefined and null.
At(items, token) ==
    LET found == {i \in 1..Len(items) : <<"0", "1", "2", "3">>[i] = token}
    IN  IF found = {} THEN Undef ELSE items[CHOOSE i \in found : TRUE]
Member(v, token) ==
    CASE v.type = "object" -> IF Has(v, token) THEN v.fields[token] ELSE Undef
      [] v.type = "array" ->
            IF token = "length" THEN Num(Len(v.items)) ELSE At(v.items, token)
      [] v.type = "string" ->
            IF token = "length" THEN Num(Len(v.string))
            ELSE At([i \in DOMAIN v.string |-> Str(<<v.string[i]>>)], token)
      [] OTHER -> Undef
GetPath(v, path) ==
    FoldLeft(LAMBDA cursor, token :
                IF cursor \in {Undef, Null} THEN Undef ELSE Member(cursor, token),
             v, path)

\* ===, where neither is the other's object; Array.includes.
SameValue(a, b) == a.type \notin {"array", "object"} /\ a = b
Among(v, items) == \E i \in DOMAIN items : SameValue(items[i], v)

\* String(value); String(value ?? "").
AtomText(v) ==
    CASE v.type = "string" -> v.string
      [] v.type = "number" -> <<<<"0", "1", "2", "3", "4">>[v.number + 1]>>
      [] v.type = "object" -> <<"[object Object]">>
      [] OTHER -> <<>>
Joined(items) ==
    FlattenSeq([i \in 1..Len(items) |->
                   (IF i = 1 THEN <<>> ELSE <<",">>) \o AtomText(items[i])])
TextOf(v) == IF IsArr(v) THEN Joined(v.items) ELSE AtomText(v)
StringOf(v) == IF v \in {Undef, Null} THEN <<v.type>> ELSE TextOf(v)
Includes(text, part) ==
    \E i \in 0..Len(text) : IsPrefix(part, SubSeq(text, i + 1, Len(text)))

\* getLength
LengthOf(v) ==
    CASE v.type = "string" -> Num(Len(v.string))
      [] v.type = "array" -> Num(Len(v.items))
      [] v.type = "object" -> Num(Cardinality(DOMAIN v.fields))
      [] OTHER -> Undef

Ordered(relation, a, b) ==
    /\ a.type = "number" /\ b.type = "number"
    /\ CASE relation = "lt" -> a.number < b.number
         [] relation = "lte" -> a.number <= b.number
         [] relation = "gt" -> a.number > b.number
         [] relation = "gte" -> a.number >= b.number

Lengths == [lengthLt |-> "lt", lengthLte |-> "lte", lengthGt |-> "gt", lengthGte |-> "gte"]

\* The predicates of the built-in operators.
Predicate(kind, actual, input) ==
    CASE kind = "eq" -> SameValue(actual, input.value)
      [] kind = "ne" -> ~SameValue(actual, input.value)
      [] kind \in {"lt", "lte", "gt", "gte"} -> Ordered(kind, actual, input.value)
      [] kind = "in" -> Among(actual, input.values)
      [] kind = "notIn" -> ~Among(actual, input.values)
      [] kind = "exists" -> actual \notin {Undef, Null}
      [] kind = "missing" -> actual \in {Undef, Null}
      [] kind = "regex" ->
            /\ actual.type = "string" /\ input.pattern \notin {<<>>} \cup BadPatterns
            /\ Includes(actual.string, input.pattern)
      [] kind = "startsWith" ->
            actual.type = "string" /\ IsPrefix(TextOf(input.value), actual.string)
      [] kind = "endsWith" ->
            actual.type = "string" /\ IsSuffix(TextOf(input.value), actual.string)
      [] kind = "contains" ->
            \/ actual.type = "string" /\ Includes(actual.string, TextOf(input.value))
            \/ actual.type = "array" /\ Among(input.value, actual.items)
      [] kind = "lengthEq" -> SameValue(LengthOf(actual), input.value)
      [] kind \in DOMAIN Lengths -> Ordered(Lengths[kind], LengthOf(actual), input.value)

----------------------------------------------------------------------------
\* What the operators are given; what is not given is undefined, or empty.
InputOf(path) == [path |-> path, value |-> Undef, values |-> <<>>, pattern |-> <<>>]

\* spec.field(path): a method for each operator.
FluentInput(kind, path, v) ==
    CASE kind \in {"in", "notIn"} -> [InputOf(path) EXCEPT !.values = v.items]
      [] kind \in {"exists", "missing"} -> InputOf(path)
      [] kind = "regex" -> [InputOf(path) EXCEPT !.pattern = v.string]
      [] OTHER -> [InputOf(path) EXCEPT !.value = v]

\* spec.op: any value will do.
DynamicInput(kind, path, v) ==
    CASE kind \in {"in", "notIn"} ->
            [InputOf(path) EXCEPT !.values = IF IsArr(v) THEN v.items ELSE <<v>>]
      [] kind \in {"exists", "missing"} -> InputOf(path)
      [] kind = "regex" -> [InputOf(path) EXCEPT !.pattern = StringOf(v)]
      [] OTHER -> [InputOf(path) EXCEPT !.value = v]

\* create of an operator: a FieldSpec, which evaluates the field.
Created(kind, origin, input) == [kind |-> kind, origin |-> origin, input |-> input]
Test(kind, input, doc) == Predicate(kind, GetPath(doc, input.path), input)

NothingMade == Created("none", "none", InputOf(<<>>))

\* createRegistry, with the built-in operators or with none.
DslInit ==
    \E doc \in Documents, builtIn \in BOOLEAN :
        dsl = [doc |-> doc, specs |-> <<>>, made |-> NothingMade,
               operators |-> IF builtIn THEN [k \in DslKinds |-> "builtin"] ELSE <<>>]

\* A kind, or an id, that is taken is refused.
AddOperator(kind) ==
    /\ kind \notin DOMAIN dsl.operators
    /\ dsl' = [dsl EXCEPT !.operators =
                    [k \in DOMAIN @ \cup {kind} |-> IF k = kind THEN "plugin" ELSE @[k]]]
AddSpec(id) ==
    /\ id \notin DOMAIN dsl.specs
    /\ dsl.made # NothingMade
    /\ dsl' = [dsl EXCEPT !.specs =
                    [k \in DOMAIN @ \cup {id} |-> IF k = id THEN dsl.made ELSE @[k]]]

\* ensure: an operator that is not registered throws.
Make(kind, input) ==
    /\ kind \in DOMAIN dsl.operators
    /\ dsl' = [dsl EXCEPT !.made = Created(kind, dsl.operators[kind], input)]

\* getSpec calls the factory.
GetSpec(id) ==
    /\ id \in DOMAIN dsl.specs
    /\ dsl' = [dsl EXCEPT !.made = dsl.specs[id]]

DslNext ==
    \/ \E kind \in DslKinds :
        \/ AddOperator(kind)
        \/ \E path \in Paths, v \in {o \in Compared : IsArr(o)} :
                Make(kind, FluentInput(kind, path, v)) \/ Make(kind, DynamicInput(kind, path, v))
    \/ \E id \in SpecIds : AddSpec(id) \/ GetSpec(id)

----------------------------------------------------------------------------
\* How the operators stand to each other on a field, whatever it holds: those
\* that are negations of each other, those that leave no case between them for
\* numbers and lengths and hold of nothing else, and those that imply others;
\* both ways to write one mean the same, and `in` of a single value is eq.
LawsHold(doc, path, v) ==
    LET actual == GetPath(doc, path)
        is(kind) == Test(kind, DynamicInput(kind, path, v), doc)
        written(kind) == Test(kind, FluentInput(kind, path, v), doc)
        numbers(a) == a.type = "number" /\ v.type = "number"
        onlyOne(p, q, r) == (p /\ ~q /\ ~r) \/ (~p /\ q /\ ~r) \/ (~p /\ ~q /\ r)
    IN  /\ is("ne") = ~is("eq") /\ is("notIn") = ~is("in") /\ is("missing") = ~is("exists")
        /\ IF numbers(actual)
           THEN /\ onlyOne(is("lt"), is("eq"), is("gt"))
                /\ is("lte") = ~is("gt") /\ is("gte") = ~is("lt")
           ELSE ~is("lt") /\ ~is("lte") /\ ~is("gt") /\ ~is("gte")
        /\ IF numbers(LengthOf(actual))
           THEN /\ onlyOne(is("lengthLt"), is("lengthEq"), is("lengthGt"))
                /\ is("lengthLte") = ~is("lengthGt") /\ is("lengthGte") = ~is("lengthLt")
           ELSE ~is("lengthLt") /\ ~is("lengthLte") /\ ~is("lengthGt") /\ ~is("lengthGte")
        /\ is("startsWith") \/ is("endsWith") => is("contains")
        /\ v.type = "string" /\ is("regex") => is("contains")
        /\ ~IsArr(v) => is("in") = is("eq")
        /\ is("eq") /\ v \notin {Undef, Null} => is("exists")
        /\ IsArr(v) => written("in") = is("in") /\ written("notIn") = is("notIn")
        /\ v.type = "string" => written("regex") = is("regex")

\* A kind means what it was first registered as, and so does an id.
OperatorsAgree ==
    /\ dsl.made = NothingMade => \A path \in Paths, v \in Compared : LawsHold(dsl.doc, path, v)
    /\ dsl.made # NothingMade => dsl.operators[dsl.made.kind] = dsl.made.origin
    /\ \A id \in DOMAIN dsl.specs :
            dsl.operators[dsl.specs[id].kind] = dsl.specs[id].origin
=============================================================================
