----------------------------- MODULE Expression -----------------------------
(***************************************************************************)
(* packages/expression without the evaluator: Ops and OperationBuilder,    *)
(* which build operations, and the analyzer and validator that walk them.  *)
(* An operation is an object with one field, its operator; operands are    *)
(* strings, numbers, {var}, {val}, {ref}, {literal} and operations.        *)
(***************************************************************************)
EXTENDS Json, SequencesExt

\* What a builder answers when it throws.
Thrown == [type |-> "thrown"]

\* Ops.v, Ops.val, Ops.ref and Ops.literal.
OperandOf(marker, payload) == Single(marker, payload)
Markers == {"var", "val", "ref", "literal"}
IsMarked(j) == \E m \in Markers : Has(j, m)

----------------------------------------------------------------------------
\* Ops and OperationBuilder.

Op(operator, args) ==
    CASE args = <<>> -> Thrown
      [] Len(args) = 1 -> Single(operator, args[1])
      [] OTHER -> Single(operator, Arr(args))

\* The typed constructors of Ops fix the operator and how many operands it
\* takes; a rest parameter takes up to three here.
Rest == 1..3
Operands1(names) == [o \in names |-> {1}]
Operands2(names) == [o \in names |-> {2}]

MathOps ==
    [o \in {"+", "*", "min", "max"} |-> Rest]
    @@ Operands2({"-", "/", "%", "**"}) @@ Operands1({"abs", "round", "floor", "ceil"})
ComparisonOps == Operands2({"==", "===", "!=", "!==", ">", ">=", "<", "<="})
LogicOps == [o \in {"and", "or"} |-> Rest] @@ [not |-> {1}, xor |-> {2}]
ControlOps == [if |-> {2, 3}, switch |-> {1, 2, 3}]
ArrayOps ==
    Operands2({"map", "filter", "find", "every", "some", "includes", "get"})
    @@ [reduce |-> {2, 3}, slice |-> {2, 3}, length |-> {1}]
StringOps ==
    [concat |-> Rest, substring |-> {2, 3}, replace |-> {3}]
    @@ Operands1({"toLowerCase", "toUpperCase", "trim"})
    @@ Operands2({"contains", "startsWith", "endsWith", "split"})
ValidationOps ==
    Operands1({"isNull", "isDefined", "isEmpty", "isString", "isNumber",
               "isBoolean", "isArray", "isObject", "isEmail", "isUrl"})
    @@ Operands2({"matches"})
ObjectOps ==
    Operands1({"keys", "values", "entries"}) @@ [has |-> {2}, merge |-> Rest]
\* now takes none, and so Ops.now always throws.
DateOps ==
    [now |-> {0}, date |-> {1}] @@ Operands2({"format", "isBefore", "isAfter"})

Typed ==
    MathOps @@ ComparisonOps @@ LogicOps @@ ControlOps @@ ArrayOps @@ StringOps
        @@ ValidationOps @@ ObjectOps @@ DateOps

\* FluentOps: the operand so far becomes the first one of the next operation.
Fluent(operand, operator, others) == Op(operator, <<operand>> \o others)

\* Ops.compose: reduce starts from the first operation and visits it again.
Compose(operations) ==
    CASE operations = <<>> -> Thrown
      [] Len(operations) = 1 -> operations[1]
      [] OTHER -> FoldLeft(LAMBDA acc, op : Op("pipe", <<acc, op>>),
                           operations[1], operations)

\* A builder is its operator and the operands given so far.
Builder(operator, args) == [operator |-> operator, args |-> args]

Build(b) == IF b.operator = "" THEN Thrown ELSE Op(b.operator, b.args)

Nest(b, inner) ==
    IF Build(inner) = Thrown THEN Thrown
    ELSE [b EXCEPT !.args = Append(@, Build(inner))]

\* Mutant of FromOperation: the operands are wrapped once more.
FromOperationWrapped(operation) ==
    IF Cardinality(DOMAIN operation.fields) # 1 THEN Thrown
    ELSE LET operator == CHOOSE o \in DOMAIN operation.fields : TRUE
         IN  Builder(operator, <<operation.fields[operator]>>)

FromOperation(operation) ==
    IF Cardinality(DOMAIN operation.fields) # 1 THEN Thrown
    ELSE LET operator == CHOOSE o \in DOMAIN operation.fields : TRUE
             args == operation.fields[operator]
         IN  Builder(operator, IF IsArr(args) THEN args.items ELSE <<args>>)

\* ArrayOperationBuilder takes array, callback and initial value in order.
ArrayStep(b, step, operand) ==
    IF \/ step = "array" /\ Len(b.args) = 0
       \/ step = "callback" /\ Len(b.args) = 1
       \/ step = "initialValue" /\ b.operator = "reduce" /\ Len(b.args) = 2
    THEN [b EXCEPT !.args = Append(@, operand)]
    ELSE Thrown

----------------------------------------------------------------------------
\* ExpressionAnalyzer.

RECURSIVE Marked(_, _)
Marked(marker, j) ==
    IF Has(j, marker) /\ j.fields[marker].type = "string"
    THEN {j.fields[marker].string}
    ELSE UNION {Marked(marker, k) : k \in Kids(j)}

\* extractVariables and extractReferences look at what operators apply to.
Extract(marker, operations) ==
    UNION {UNION {Marked(marker, k) : k \in Kids(operations[i])}
              : i \in DOMAIN operations}

\* getDependencies of the evaluator walks the combined operation instead.
Dependencies(combination, operations) ==
    Marked("var", Single(combination, Arr(operations)))

RECURSIVE Literals(_)
Literals(j) ==
    CASE Has(j, "literal") -> {j.fields["literal"]}
      [] ~Has(j, "literal") /\ Has(j, "val") -> Kids(j.fields["val"])
      [] j.type \in {"string", "number"} -> {j}
      [] OTHER -> UNION {Literals(k) : k \in Kids(j)}

\* The scores that differ from the default of 2.
Scores ==
    [o \in {"+", "-", ">", ">=", "<", "<=", "==", "===", "!=", "!==",
            "and", "or", "not", "concat"} |-> 1]
    @@ [o \in {"**", "switch", "find", "every", "some", "replace"} |-> 3]
    @@ [map |-> 4, filter |-> 4, reduce |-> 5]
Score(operator) == IF operator \in DOMAIN Scores THEN Scores[operator] ELSE 2

RECURSIVE Complexity(_)
Complexity(j) ==
    CASE IsMarked(j) \/ ~(IsArr(j) \/ IsObj(j)) -> 1
      [] IsArr(j) ->
            FoldLeft(LAMBDA sum, k : sum + Complexity(k), 0, j.items)
      [] OTHER ->
            FoldLeft(LAMBDA sum, o : sum + Score(o) + Complexity(j.fields[o]),
                     0, SetToSeq(DOMAIN j.fields))

\* detectRecursion: a search from every schema, with the nodes seen and the
\* nodes on the path.  refs gives the references of each schema by its id.
RECURSIVE Search(_, _, _, _)

\* Mutant of Search: nodes seen before are left before the path is asked.
SearchVisited(refs, id, path, st) ==
    IF id \in st.visited THEN st
    ELSE LET next == IF id \in DOMAIN refs THEN SetToSeq(refs[id]) ELSE <<>>
         IN  FoldLeft(LAMBDA s, r : Search(refs, r, Append(path, id), s),
                      [st EXCEPT !.visited = @ \cup {id}], next)

Search(refs, id, path, st) ==
    IF id \in Range(path)
    THEN [st EXCEPT !.issues = @ \cup {Append(path, id)}]
    ELSE IF id \in st.visited THEN st
    ELSE LET next == IF id \in DOMAIN refs THEN SetToSeq(refs[id]) ELSE <<>>
         IN  FoldLeft(LAMBDA s, r : Search(refs, r, Append(path, id), s),
                      [st EXCEPT !.visited = @ \cup {id}], next)

DetectRecursion(schemas) ==
    LET refs == [id \in DOMAIN schemas |-> Extract("ref", schemas[id])]
    IN  UNION {Search(refs, id, <<>>, [visited |-> {}, issues |-> {}]).issues
                  : id \in DOMAIN schemas}

----------------------------------------------------------------------------
\* ExpressionValidator.

\* argRequirements; NoMax stands for no upper bound.
NoMax == 99
Requirements ==
    [o \in {"not", "abs", "round"} |-> <<1, 1>>]
    @@ [o \in {"-", "/", ">", ">=", "<", "<=", "==", "===", "!=", "!=="} |-> <<2, 2>>]
    @@ [o \in {"+", "*", "and", "or"} |-> <<1, NoMax>>]
    @@ [if |-> <<2, 3>>]
MeetsRequirement(operator, n) ==
    operator \in DOMAIN Requirements =>
        n \in Requirements[operator][1]..Requirements[operator][2]

Entries(j) == IF IsArr(j) THEN DOMAIN j.items ELSE DOMAIN j.fields

RECURSIVE ValidOperation(_), ValidArgs(_, _)
ValidOperation(j) ==
    /\ IsArr(j) \/ IsObj(j)
    /\ Cardinality(Entries(j)) = 1
    /\ IF IsArr(j) THEN ValidArgs("0", j.items[1])
       ELSE \A o \in DOMAIN j.fields : ValidArgs(o, j.fields[o])

ValidArgs(operator, args) ==
    LET list == IF IsArr(args) THEN args.items ELSE <<args>>
    IN  /\ MeetsRequirement(operator, Len(list))
        /\ \A i \in DOMAIN list :
            (IsArr(list[i]) \/ IsObj(list[i])) /\ ~IsMarked(list[i])
                => ValidOperation(list[i])

\* validate, of a schema with an id, a name and a combination.
Validate(operations) ==
    /\ operations # <<>>
    /\ \A i \in DOMAIN operations : ValidOperation(operations[i])

----------------------------------------------------------------------------
(***************************************************************************)
(* A builder at work: `builder` is given operands, cleared and nested in   *)
(* another one.  Its callers follow the types of the typed constructors,   *)
(* so it never holds more operands than its operator takes.                *)
(***************************************************************************)
CONSTANTS
    Operators,   \* operators whose builders are exercised
    Operands     \* operands that arg, var, val, ref and literal push

VARIABLE builder

BuilderInit == \E o \in Operators : builder = Builder(o, <<>>)

Fits(n) == \E most \in Typed[builder.operator] : n <= most

\* arg, var, literal, val, ref; array, callback and initialValue of the array
\* builders push the same way, in a fixed order.
Give(x) ==
    /\ Fits(Len(builder.args) + 1)
    /\ LET step == <<"array", "callback", "initialValue">>[Len(builder.args) + 1]
       IN  builder' = IF builder.operator \in {"map", "filter", "reduce"}
                      THEN ArrayStep(builder, step, x)
                      ELSE [builder EXCEPT !.args = Append(@, x)]

\* The builder becomes the first operand of a builder for o.
NestIn(o) ==
    /\ builder.operator # o
    /\ Len(builder.args) \in Typed[builder.operator]
    /\ \A i \in DOMAIN builder.args : IsMarked(builder.args[i])
    /\ builder' = Nest(Builder(o, <<>>), builder)

Clear == builder.args # <<>> /\ builder' = [builder EXCEPT !.args = <<>>]

BuilderNext ==
    \/ \E x \in Operands : Give(x)
    \/ \E o \in Operators : NestIn(o)
    \/ Clear

\* What a builder with as many operands as its operator takes builds is an
\* operation the validator accepts, alone and composed with itself, and
\* fromOperation reads the same builder back.
BuiltIsValid ==
    Len(builder.args) \in Typed[builder.operator] =>
        /\ Validate(<<Build(builder)>>)
        /\ Validate(<<Compose(<<Build(builder), Build(builder)>>)>>)
        /\ Fluent(builder.args[1], builder.operator, Tail(builder.args)) = Build(builder)
        /\ FromOperation(Build(builder)) = builder
        /\ Extract("var", <<Build(builder)>>)
            = Dependencies("and", <<Build(builder)>>)
=============================================================================
