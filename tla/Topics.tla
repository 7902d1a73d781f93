-------------------------------- MODULE Topics --------------------------------
(***************************************************************************)
(* shareds/common, regex/amqp.ts and amqp-extras.ts: which bindings of a   *)
(* topic, direct or headers exchange a message matches.  A key is the      *)
(* sequence of its dot-separated atoms, an atom one character or empty.    *)
(***************************************************************************)
EXTENDS Naturals, Sequences, SequencesExt

CONSTANTS
    Bindings,     \* binding keys; "*" and "#" are wildcards
    Routings,     \* routing keys
    Topics,       \* sequences of segments, each a set of atoms to choose from
    Tables,       \* header tables: functions from names to values
    MaxBytes      \* the 255 bytes of a routing key

VARIABLE routing

Bytes(key) == Len(SelectSeq(key, LAMBDA atom : atom # "")) + Len(key) - 1

\* isValidRoutingKey: no empty atom, and neither too short nor too long.
IsValidRoutingKey(key) ==
    /\ key # <<"">> /\ Bytes(key) <= MaxBytes
    /\ \A i \in DOMAIN key : key[i] # ""

\* isValidBindingKey: atoms like "a*" mix a wildcard with something else.
Mixed == {"a*", "#a"}
IsValidBindingKey(key) ==
    IsValidRoutingKey(key) /\ \A i \in DOMAIN key : key[i] \notin Mixed

----------------------------------------------------------------------------
(***************************************************************************)
(* topicMatch is a loop with two indices: i in the binding b and j in the  *)
(* key r, and the place where the last '#' was met.                        *)
(***************************************************************************)
Starts(b, r) ==
    [b |-> b, r |-> r, i |-> 1, j |-> 1, hashAt |-> 0, hashJ |-> 0,
     verdict |-> IF IsValidRoutingKey(r) THEN "open" ELSE "no"]

RoutingInit == \E b \in Bindings, r \in Routings : routing = Starts(b, r)

Looping == routing.verdict = "open" /\ routing.j <= Len(routing.r)
Atom == IF routing.i <= Len(routing.b) THEN routing.b[routing.i] ELSE "none"

\* '#' takes no atom at first; its place is remembered.
MeetHash ==
    /\ Looping /\ Atom = "#"
    /\ routing' = [routing EXCEPT !.hashAt = routing.i, !.hashJ = routing.j,
                                  !.i = @ + 1]

Consumes == Atom # "#" /\ Atom \in {routing.r[routing.j], "*"}
Consume ==
    /\ Looping /\ Consumes
    /\ routing' = [routing EXCEPT !.i = @ + 1, !.j = @ + 1]

\* Mutant of Backtrack: the key is taken up again where the loop stopped.
BacktrackHere ==
    /\ Looping /\ Atom # "#" /\ ~Consumes
    /\ routing' = IF routing.hashAt = 0 THEN [routing EXCEPT !.verdict = "no"]
                  ELSE [routing EXCEPT !.i = routing.hashAt + 1, !.j = @ + 1]

\* Nothing fits: the last '#' takes one atom more, or there is no match.
Backtrack ==
    /\ Looping /\ Atom # "#" /\ ~Consumes
    /\ routing' = IF routing.hashAt = 0 THEN [routing EXCEPT !.verdict = "no"]
                  ELSE [routing EXCEPT !.i = routing.hashAt + 1,
                                       !.hashJ = @ + 1, !.j = routing.hashJ + 1]

\* The key is used up: what is left of the binding may only be '#'.
Finish ==
    /\ routing.verdict = "open" /\ ~Looping
    /\ LET rest == SubSeq(routing.b, routing.i, Len(routing.b))
       IN  routing' = [routing EXCEPT
               !.verdict = IF \A k \in DOMAIN rest : rest[k] = "#" THEN "yes" ELSE "no"]

RoutingNext == MeetHash \/ Consume \/ Backtrack \/ Finish

----------------------------------------------------------------------------
\* bindingToRegExp.  A '#' becomes (?:[^.]+(?:\.|$))*, which takes atoms with
\* the dot after them, and the dots around it are asked for all the same: the
\* last replacement in the code finds nothing to replace.  Position 2k - 1 is
\* before the k-th atom of r, 2k after it, before its dot or the end.
RegExpEnds(atom, r, S) ==
    LET end == 2 * Len(r)
        takes(p) == p % 2 = 1 /\ p < end
    IN  CASE atom = "*" -> {p + 1 : p \in {q \in S : takes(q)}}
          [] atom = "#" ->
                UNION {{p} \cup (IF p % 2 = 1
                                 THEN {q \in p..end : q % 2 = 1 \/ q = end} ELSE {}) : p \in S}
          [] OTHER -> {p + 1 : p \in {q \in S : takes(q) /\ r[(q + 1) \div 2] = atom}}

RegExpMatch(b, r) ==
    LET end == 2 * Len(r)
        dot(S) == {p + 1 : p \in {q \in S : q % 2 = 0 /\ q < end}}
        after(S, i) == RegExpEnds(b[i], r, IF i = 1 THEN S ELSE dot(S))
    IN  end \in FoldLeft(after, {1}, [i \in DOMAIN b |-> i])

----------------------------------------------------------------------------
\* What topicMatch promises: '*' stands for one atom, '#' for any number.
RECURSIVE Matches(_, _)
Matches(b, r) ==
    CASE b = <<>> -> r = <<>>
      [] b # <<>> /\ Head(b) = "#" ->
            Matches(Tail(b), r) \/ (r # <<>> /\ Matches(b, Tail(r)))
      [] OTHER -> /\ r # <<>> /\ Head(b) \in {"*", Head(r)}
                  /\ Matches(Tail(b), Tail(r))

TopicMatch(b, r) == IsValidRoutingKey(r) /\ Matches(b, r)

\* topic.any, topic.all and topic.matchSet; route and directRoute serve the
\* first entry that matches, 0 when there is none.
AnyMatch(bs, r) == \E i \in DOMAIN bs : TopicMatch(bs[i], r)
AllMatch(bs, r) == \A i \in DOMAIN bs : TopicMatch(bs[i], r)
MatchSet(bs, r) == SelectSeq(bs, LAMBDA b : TopicMatch(b, r))
FirstOf(n, hits) == IF hits = {} THEN 0 ELSE CHOOSE i \in hits : \A j \in hits : i <= j
Route(bs, r) == FirstOf(Len(bs), {i \in DOMAIN bs : TopicMatch(bs[i], r)})
DirectRoute(bs, r) == FirstOf(Len(bs), {i \in DOMAIN bs : bs[i] = r})

\* headersMatch; a mode other than all, in any case, means any.
HeadersMatch(mode, table, headers) ==
    LET has(k) == k \in DOMAIN headers /\ headers[k] = table[k]
    IN  IF mode = "all" THEN \A k \in DOMAIN table : has(k)
        ELSE \E k \in DOMAIN table : has(k)
HeadersRoute(entries, headers) ==
    FirstOf(Len(entries), {i \in DOMAIN entries :
                HeadersMatch(entries[i].mode, entries[i].table, headers)})

\* compileTopic: the choices of each segment in turn, after every key so far;
\* no segment gives the empty key.
CompileTopic(segments) ==
    FoldLeft(LAMBDA acc, choices :
                FlattenSeq([k \in DOMAIN acc |->
                    [c \in DOMAIN choices |-> Append(acc[k], choices[c])]]),
             <<<<>>>>, segments)

\* topicKey: the atoms of each literal part, with a value after each.  parts
\* are split at the dots already.
TopicKey(parts, vals) ==
    LET lits(i) == [k \in DOMAIN parts[i] |-> <<parts[i][k]>>]
        step(acc, i) ==
            acc \o lits(i) \o (IF i \in DOMAIN vals THEN <<vals[i]>> ELSE <<>>)
    IN  CompileTopic(FoldLeft(step, <<>>, [i \in DOMAIN parts |-> i]))

----------------------------------------------------------------------------
\* What the bindings of a topic stand for together.
RECURSIVE SegmentsMatch(_, _)
SegmentsMatch(segments, r) ==
    IF segments = <<>> THEN r = <<>>
    ELSE LET choices == Range(Head(segments))
         IN  \/ "#" \in choices
                /\ \E n \in 0..Len(r) :
                        SegmentsMatch(Tail(segments), SubSeq(r, n + 1, Len(r)))
             \/ r # <<>> /\ choices \cap {"*", Head(r)} # {}
                /\ SegmentsMatch(Tail(segments), Tail(r))

TopicsAgree(r) ==
    \A t \in Topics :
        LET bs == CompileTopic(t)
        IN  /\ AnyMatch(bs, r) = (IsValidRoutingKey(r) /\ SegmentsMatch(t, r))
            /\ AllMatch(bs, r) = (MatchSet(bs, r) = bs)
            /\ AnyMatch(bs, r) => bs[Route(bs, r)] = Head(MatchSet(bs, r))
            /\ DirectRoute(bs, r) # 0 /\ IsValidRoutingKey(r) => AnyMatch(bs, r)
            /\ TopicKey(<<<<"a">>, <<"b">>>>, <<Last(t)>>)
                = CompileTopic(<<<<"a">>, Last(t), <<"b">>>>)

HeadersAgree ==
    \A table, headers \in Tables :
        LET route(mode) == HeadersRoute(<<[mode |-> mode, table |-> table]>>, headers)
        IN  DOMAIN table # {} /\ route("all") = 1 => route("any") = 1

\* The loop of topicMatch, with the one '#' it remembers, gives the verdict
\* that the wildcards promise, for every binding and key; the RegExp of a
\* binding matches nothing else, and the same where there is no '#'.  The
\* bindings compiled from a topic stand for its choices, and whichever helper
\* asks, the same ones match.
RoutesAreMeant ==
    routing.verdict # "open" =>
        /\ (routing.verdict = "yes") = TopicMatch(routing.b, routing.r)
        /\ IsValidRoutingKey(routing.r) =>
            IF "#" \in Range(routing.b)
            THEN RegExpMatch(routing.b, routing.r) => routing.verdict = "yes"
            ELSE RegExpMatch(routing.b, routing.r) = (routing.verdict = "yes")
        /\ IsValidBindingKey(routing.b) /\ Range(routing.b) \cap {"*", "#"} = {} =>
            (routing.verdict = "yes") = (routing.b = routing.r)
        /\ routing.b = <<"#">> => TopicsAgree(routing.r) /\ HeadersAgree
=============================================================================
