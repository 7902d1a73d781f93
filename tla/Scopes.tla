------------------------------- MODULE Scopes -------------------------------
(***************************************************************************)
(* withDefer and usingScope of shareds/async: a body registers finalizers, *)
(* which run one after the other when it has ended.  Each may fail, and a  *)
(* resource that the body does not await may come after the body's end.    *)
(***************************************************************************)
EXTENDS Naturals, Sequences, SequencesExt, FiniteSets

CONSTANT MaxFinalizers  \* bound on the finalizers of a scope

VARIABLE scope
\* kind: which function; stacks: the finalizers registered; opening: uses
\* whose value is out; todo: the finalizers of the stack being unwound, and
\* stages: the stacks after it; ok: the pass is that of a success; failed: a
\* finalizer of such a pass failed; ran: the finalizers run; made: how many
\* were registered; timely: those registered before the body ended

StackNames == {"always", "ok", "err", "auto", "manual"}

ScopeInit ==
    \E kind \in {"withDefer", "usingScope"} :
        scope = [kind |-> kind, phase |-> "body", stacks |-> [n \in StackNames |-> <<>>],
                 opening |-> 0, todo |-> <<>>, stages |-> <<>>, ok |-> TRUE,
                 failed |-> FALSE, ran |-> <<>>, made |-> 0, timely |-> {}]

\* defer, onSuccess and onError; addFinalizer.
Stacks(kind) == IF kind = "withDefer" THEN {"always", "ok", "err"} ELSE {"manual"}

WithFinalizer(s, stack) ==
    [s EXCEPT !.made = @ + 1, !.stacks[stack] = Append(@, s.made + 1),
              !.timely = IF s.phase = "body" THEN @ \cup {s.made + 1} ELSE @]

AddFinalizer(stack) ==
    /\ scope.phase = "body" /\ scope.made + scope.opening < MaxFinalizers
    /\ stack \in Stacks(scope.kind)
    /\ scope' = WithFinalizer(scope, stack)

\* use awaits its value ...
Open ==
    /\ scope.phase = "body" /\ scope.kind = "usingScope"
    /\ scope.made + scope.opening < MaxFinalizers
    /\ scope' = [scope EXCEPT !.opening = @ + 1]

\* ... and pushes its closer whenever that comes.
Opened ==
    /\ scope.opening > 0
    /\ scope' = [WithFinalizer(scope, "auto") EXCEPT !.opening = @ - 1]

----------------------------------------------------------------------------
Stages(kind, ok) ==
    CASE kind = "usingScope" -> <<"auto", "manual">>
      [] kind = "withDefer" /\ ok -> <<"always", "ok">>
      [] OTHER -> <<"always", "err">>

\* A pass goes on to its next stack.  When all of a success are done and one
\* failed, withDefer's catch unwinds once more, as a failure.
RECURSIVE Unwound(_)
Unwound(s) ==
    CASE s.todo # <<>> -> s
      [] s.todo = <<>> /\ s.stages # <<>> ->
            Unwound([s EXCEPT !.todo = Reverse(s.stacks[Head(s.stages)]), !.stages = Tail(@)])
      [] s.todo = <<>> /\ s.stages = <<>> /\ s.kind = "withDefer" /\ s.ok /\ s.failed ->
            Unwound([s EXCEPT !.ok = FALSE, !.stages = Stages(s.kind, FALSE)])
      [] OTHER -> [s EXCEPT !.phase = "settled"]

BodyEnds(ok) ==
    /\ scope.phase = "body"
    /\ scope' = Unwound([scope EXCEPT !.phase = "unwinding", !.ok = ok,
                                      !.stages = Stages(scope.kind, ok)])

\* Mutant of Finalized: a finalizer that fails ends its stack.
FinalizedUnlessOneFails(s, fails) ==
    [s EXCEPT !.todo = IF fails THEN <<>> ELSE Tail(@), !.ran = Append(@, Head(s.todo)),
              !.failed = @ \/ (s.ok /\ fails)]

Finalized(s, fails) ==
    [s EXCEPT !.todo = Tail(@), !.ran = Append(@, Head(s.todo)),
              !.failed = @ \/ (s.ok /\ fails)]

RunFinalizer(fails) ==
    /\ scope.todo # <<>>
    /\ scope' = Unwound(Finalized(scope, fails))

ScopeNext ==
    \/ \E stack \in StackNames : AddFinalizer(stack)
    \/ Open \/ Opened
    \/ \E ok \in BOOLEAN : BodyEnds(ok)
    \/ \E fails \in BOOLEAN : RunFinalizer(fails)

----------------------------------------------------------------------------
Runs(f) == {i \in DOMAIN scope.ran : scope.ran[i] = f}
Of(stack) == Range(scope.stacks[stack]) \cap scope.timely

\* When usingScope settles, every finalizer registered in time has run once,
\* the last one of each stack first.  Those of withDefer have run so, whichever
\* failed: the deferred ones, then those of a success or those of a failure.
\* Only if one failed after a success have the deferred ones run again, and those
\* of a failure as well, after those of the success.
ScopesUnwind ==
    LET once(stack) == \A f \in Of(stack) :
            /\ Cardinality(Runs(f)) = 1
            /\ \A g \in Of(stack) : f < g => \A i \in Runs(f), j \in Runs(g) : j < i
        pass(ok) == Reverse(scope.stacks["always"])
                        \o Reverse(scope.stacks[IF ok THEN "ok" ELSE "err"])
    IN  scope.phase = "settled" =>
            IF scope.kind = "usingScope" THEN once("auto") /\ once("manual")
            ELSE scope.ran = IF scope.failed THEN pass(TRUE) \o pass(FALSE) ELSE pass(scope.ok)
=============================================================================
