------------------------------ MODULE Patterns ------------------------------
(***************************************************************************)
(* packages/pattern-matching: match(input).with(...).with(...), the        *)
(* patterns it is given and what they select for its handlers.             *)
(*                                                                         *)
(* A string is the sequence of its characters, a number counts halves, and *)
(* a set or a map has its items in order of insertion.                     *)
(***************************************************************************)
EXTENDS Json, Integers, SequencesExt, FiniteSetsExt, TLC

CONSTANTS
    Clauses,     \* what with may be given
    Inputs,
    Lazies,      \* the pattern of each lazy one
    Spreadable,  \* the array patterns that stand after `...` in some tuple
    MaxClauses   \* bound on the clauses of a match

VARIABLE matching
\* input; clauses: those given so far; spread: the array patterns that have
\* been spread in the program, which marks them for good; by: the clause that matched, 0 for none; selected:
\* what its handler was given, by key

SetOf(items) == [type |-> "set", items |-> items]
MapOf(entries) == [type |-> "map", entries |-> entries]   \* of <<key, value>>

AnonymousKey == "@anonymous"

Literal(v) == [op |-> "literal", of |-> v]
Fields(fields) == [op |-> "object", fields |-> fields]
Tuple(items) == [op |-> "tuple", items |-> items]
\* name is the identity of an array pattern that is spread.
ArrayOf(name, p) == [op |-> "array", name |-> name, of |-> p]
Elements(p) == [op |-> "set", of |-> p]
Entries2(key, p) == [op |-> "map", key |-> key, of |-> p]
RecordOf(key, p) == [op |-> "record", key |-> key, of |-> p]
And(parts) == [op |-> "and", parts |-> parts]
Or(parts) == [op |-> "or", parts |-> parts]
NotP(p) == [op |-> "not", of |-> p]
Optional(p) == [op |-> "optional", of |-> p]
Select(key, p) == [op |-> "select", key |-> key, of |-> p]
Shaped(p) == [op |-> "shape", of |-> p]
Lazy(name) == [op |-> "lazy", name |-> name]

\* when: of values of one type, or of several.
Guard(types, test, arg) == [op |-> "when", types |-> types, test |-> test, arg |-> arg]

\* A chained .minLength(1), .between(a, b), ... asks the guard as well.
Refined(p, types, test, arg) == And(<<p, Guard(types, test, arg)>>)

Size(v) ==
    CASE v.type = "number" -> v.number [] v.type = "string" -> Len(v.string)
      [] v.type = "map" -> Len(v.entries)
      [] OTHER -> Len(v.items)

Holds(g, v) ==
    /\ v.type \in g.types
    /\ CASE g.test = "is" -> TRUE
         [] g.test = "equals" -> Size(v) = g.arg
         [] g.test = "least" -> Size(v) >= g.arg
         [] g.test = "most" -> Size(v) <= g.arg
         [] g.test = "above" -> Size(v) > g.arg
         [] g.test = "below" -> Size(v) < g.arg
         [] g.test = "int" -> v.number % 2 = 0
         [] g.test = "startsWith" -> IsPrefix(g.arg, v.string)
         [] g.test = "endsWith" -> IsSuffix(g.arg, v.string)
         [] g.test = "includes" -> \E i \in 0..Len(v.string) :
                IsPrefix(g.arg, SubSeq(v.string, i + 1, Len(v.string)))

\* A key that reads as a number is one too; so is the empty one.
Digits == <<"0", "1", "2", "3", "4", "5", "6", "7", "8", "9">>
IsNumeric(key) == \A i \in DOMAIN key : Contains(Digits, key[i])
NumberOf(key) == Num(2 * FoldLeft(LAMBDA n, c : 10 * n + IndexFirstSubSeq(<<c>>, Digits) - 1, 0, key))

----------------------------------------------------------------------------
\* The keys a pattern may select under; a lazy one met within itself has none.
RECURSIVE KeysOf(_, _)
KeysOf(p, busy) ==
    LET of(ps) == UNION {KeysOf(q, busy) : q \in ps}
    IN  CASE p.op = "object" -> of(Range(p.fields))
          [] p.op = "tuple" -> of(ToSet(p.items))
          [] p.op \in {"and", "or"} -> of(ToSet(p.parts))
          [] p.op \in {"array", "set", "optional"} -> of({p.of})
          [] p.op \in {"map", "record"} -> of({p.key, p.of})
          [] p.op = "select" -> of({p.of}) \cup {p.key}
          [] p.op = "lazy" ->
                IF p.name \in busy THEN {} ELSE KeysOf(Lazies[p.name], busy \cup {p.name})
          [] OTHER -> {}

\* A run of a pattern: whether it matched, and the calls of select it made,
\* which may be some even when it did not.
Ran(ok, calls) == [ok |-> ok, calls |-> calls]

\* every and some, in order, up to where they stop.
Every(runs) ==
    FoldLeft(LAMBDA a, r : IF a.ok THEN Ran(r.ok, a.calls \o r.calls) ELSE a,
             Ran(TRUE, <<>>), runs)
Some(runs) ==
    FoldLeft(LAMBDA a, r : IF a.ok THEN a ELSE Ran(r.ok, a.calls \o r.calls),
             Ran(FALSE, <<>>), runs)
Both(runs) ==
    Ran(\A i \in DOMAIN runs : runs[i].ok,
        FlattenSeq([i \in DOMAIN runs |-> runs[i].calls]))

\* A selector that keeps the last value of a key, and one that lists them.
Kept(calls) ==
    FoldLeft(LAMBDA f, c : [k \in DOMAIN f \cup {c[1]} |-> IF k = c[1] THEN c[2] ELSE f[k]],
             <<>>, calls)
Listed(calls) ==
    [k \in {c[1] : c \in ToSet(calls)} |->
        Arr(LET own == SelectSeq(calls, LAMBDA c : c[1] = k)
            IN  [i \in DOMAIN own |-> own[i][2]])]

\* A matcher hands its selections on if it matched.
Answers(ok, selections) ==
    Ran(ok, IF ok THEN SetToSeq({<<k, selections[k]>> : k \in DOMAIN selections}) ELSE <<>>)

\* Mutant of Preset: a union of which one part selects leaves the rest out.
PresetNone(keys, v) == <<>>

\* The selections that a pattern starts with.
Preset(keys, v) == SetToSeq({<<k, v>> : k \in keys})

IsVariadic(p) == p.op = "array" /\ p.name \in matching.spread

RECURSIVE Run(_, _)
Run(p, v) ==
    LET keys == KeysOf(p, {})
        each(q, vs) == [i \in DOMAIN vs |-> Run(q, vs[i])]
        listed(run) == Answers(run.ok, Listed(run.calls))
        kept(first, run) == Answers(run.ok, Kept(first \o run.calls))
        typed(type) == v.type = type
    IN
    CASE p.op = "literal" -> Ran(v = p.of, <<>>)
      [] p.op = "when" -> Ran(Holds(p, v), <<>>)
      [] p.op = "shape" -> Ran(Run(p.of, v).ok, <<>>)
      [] p.op = "not" -> Ran(~Run(p.of, v).ok, <<>>)
      [] p.op = "lazy" -> kept(<<>>, Run(Lazies[p.name], v))
      [] p.op = "select" -> kept(<<<<p.key, v>>>>, Run(p.of, v))
      [] p.op = "optional" ->
            IF v = Undef THEN Answers(TRUE, [k \in keys |-> Undef])
            ELSE kept(<<>>, Run(p.of, v))
      [] p.op = "and" -> kept(<<>>, Every([i \in DOMAIN p.parts |-> Run(p.parts[i], v)]))
      [] p.op = "or" ->
            kept(Preset(keys, Undef), Some([i \in DOMAIN p.parts |-> Run(p.parts[i], v)]))
      [] p.op = "array" ->
            IF ~typed("array") THEN Ran(FALSE, <<>>)
            ELSE IF v.items = <<>> THEN Answers(TRUE, [k \in keys |-> Arr(<<>>)])
            ELSE listed(Every(each(p.of, v.items)))
      [] p.op = "set" ->
            IF ~typed("set") THEN Ran(FALSE, <<>>) ELSE listed(Every(each(p.of, v.items)))
      [] p.op = "map" ->
            IF ~typed("map") THEN Ran(FALSE, <<>>)
            ELSE listed(Every([i \in DOMAIN v.entries |->
                    Both(<<Run(p.key, v.entries[i][1]), Run(p.of, v.entries[i][2])>>)]))
      [] p.op = "record" ->
            IF v.type \notin {"object", "set", "map"} THEN Ran(FALSE, <<>>)
            ELSE IF v.type # "object" THEN Ran(TRUE, <<>>)
            ELSE LET field(k) ==
                        LET coerced == IF IsNumeric(k) THEN Run(p.key, NumberOf(k))
                                       ELSE Ran(FALSE, <<>>)
                            plain == Run(p.key, Str(k))
                            value == Run(p.of, v.fields[k])
                        IN  Ran((plain.ok \/ coerced.ok) /\ value.ok,
                                coerced.calls \o plain.calls \o value.calls)
                 IN  listed(Every([i \in 1..Cardinality(DOMAIN v.fields) |->
                                field(SetToSeq(DOMAIN v.fields)[i])]))
      [] p.op = "object" ->
            LET field(k) ==
                    IF Has(v, k) THEN Run(p.fields[k], v.fields[k])
                    ELSE IF p.fields[k].op = "optional" THEN Run(p.fields[k], Undef)
                    ELSE Ran(FALSE, <<>>)
                ks == SetToSeq(DOMAIN p.fields)
            IN  IF v.type \notin {"object", "array", "set", "map"} THEN Ran(FALSE, <<>>)
                ELSE Every([i \in DOMAIN ks |-> field(ks[i])])
      [] p.op = "tuple" ->
            LET n == Len(p.items)
                at == SelectInSeq(p.items, IsVariadic)
                after == n - at
            IN  IF ~typed("array") THEN Ran(FALSE, <<>>)
                ELSE IF at = 0
                THEN IF n # Len(v.items) THEN Ran(FALSE, <<>>)
                     ELSE Every([i \in 1..n |-> Run(p.items[i], v.items[i])])
                ELSE IF Len(v.items) < n - 1 THEN Ran(FALSE, <<>>)
                ELSE LET m == Len(v.items)
                         start == [i \in 1..at - 1 |-> Run(p.items[i], v.items[i])]
                         end == [i \in 1..after |->
                                    Run(p.items[at + i], v.items[m - after + i])]
                         middle == Arr(SubSeq(v.items, at, m - after))
                     IN  Every(start \o end \o <<Run(p.items[at], middle)>>)

----------------------------------------------------------------------------
MatchInit ==
    \E input \in Inputs, spread \in SUBSET Spreadable :
        matching = [input |-> input, clauses |-> <<>>, spread |-> spread, by |-> 0,
                    selected |-> <<>>]

\* with: after a clause that matched, the rest are passed over.
With(clause) ==
    /\ Len(matching.clauses) < MaxClauses
    /\ clause.spreads \subseteq matching.spread
    /\ LET run == Some([i \in DOMAIN clause.patterns |->
                            Run(clause.patterns[i], matching.input)])
           now == matching.by = 0 /\ run.ok /\ clause.guard
       IN  matching' = [matching EXCEPT
                !.clauses = Append(@, clause),
                !.by = IF now THEN Len(matching.clauses) + 1 ELSE @,
                !.selected = IF now THEN Kept(run.calls) ELSE @]

MatchNext == \E clause \in Clauses : With(clause)

----------------------------------------------------------------------------
\* What a pattern means of a value, without selections or order.
RECURSIVE Means(_, _)
Means(p, v) ==
    LET all(q, vs) == \A i \in DOMAIN vs : Means(q, vs[i])
    IN
    CASE p.op \in {"literal", "when"} -> Run(p, v).ok
      [] p.op \in {"shape", "select"} -> Means(p.of, v)
      [] p.op = "lazy" -> Means(Lazies[p.name], v)
      [] p.op = "not" -> ~Means(p.of, v)
      [] p.op = "optional" -> v # Undef => Means(p.of, v)
      [] p.op = "and" -> \A i \in DOMAIN p.parts : Means(p.parts[i], v)
      [] p.op = "or" -> \E i \in DOMAIN p.parts : Means(p.parts[i], v)
      [] p.op \in {"array", "set"} -> v.type = p.op /\ all(p.of, v.items)
      [] p.op = "map" ->
            v.type = "map" /\ \A i \in DOMAIN v.entries :
                Means(p.key, v.entries[i][1]) /\ Means(p.of, v.entries[i][2])
      [] p.op = "record" ->
            /\ v.type \in {"object", "set", "map"}
            /\ IsObj(v) => \A k \in DOMAIN v.fields :
                /\ Means(p.key, Str(k)) \/ (IsNumeric(k) /\ Means(p.key, NumberOf(k)))
                /\ Means(p.of, v.fields[k])
      [] p.op = "object" ->
            /\ v.type \in {"object", "array", "set", "map"}
            /\ \A k \in DOMAIN p.fields :
                IF Has(v, k) THEN Means(p.fields[k], v.fields[k])
                ELSE p.fields[k].op = "optional"
      [] p.op = "tuple" ->
            LET n == Len(p.items)
                variadic == {i \in 1..n : IsVariadic(p.items[i])}
            IN  v.type = "array" /\ \E s \in [1..n + 1 -> 1..Len(v.items) + 1] :
                    \* item i matches the values s[i] .. s[i + 1] - 1
                    /\ s[1] = 1 /\ s[n + 1] = Len(v.items) + 1
                    /\ \A i \in 1..n :
                        LET part == SubSeq(v.items, s[i], s[i + 1] - 1)
                        IN  IF i \in variadic THEN s[i] <= s[i + 1] /\ Means(p.items[i], Arr(part))
                            ELSE Len(part) = 1 /\ Means(p.items[i], part[1])

\* The first clause of which a pattern means the input, and whose guard holds,
\* is the one that runs.  Its handler is given every key its pattern selects
\* under, whichever alternatives matched (but an empty set, map or record gives
\* none), and where an array is matched the lists selected from its elements
\* line up with it.
MatchIsMeant ==
    LET m == matching
        meant(c) == /\ c.guard
                    /\ \E i \in DOMAIN c.patterns : Means(c.patterns[i], m.input)
        fits == {i \in DOMAIN m.clauses : meant(m.clauses[i])}
        winner == LET c == m.clauses[m.by]
                  IN  c.patterns[Min({i \in DOMAIN c.patterns : Means(c.patterns[i], m.input)})]
    IN  /\ m.by = IF fits = {} THEN 0 ELSE Min(fits)
        /\ m.by # 0 =>
            /\ winner.op \notin {"set", "map", "record"} =>
                    KeysOf(winner, {}) \subseteq DOMAIN m.selected
            /\ winner.op = "array" => \A k \in KeysOf(winner, {}) :
                Len(m.selected[k].items) = Len(m.input.items)
=============================================================================
