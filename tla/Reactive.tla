------------------------------ MODULE Reactive ------------------------------
(***************************************************************************)
(* Observables and streams of shareds/reactive, with the operators that    *)
(* join streams.                                                           *)
(*                                                                         *)
(* `net` holds every node.  A call of next() or unsubscribe() runs         *)
(* synchronously through the tree, calling handlers and hooks that may     *)
(* themselves call nodes: such a call is an operator from nets to nets.    *)
(* What a handler's promise brings back later is a job: its value is set   *)
(* in one microtask (stage "out" to "set") and passed on in another.       *)
(*                                                                         *)
(* An emission is a number, the identity of the promise that the root      *)
(* keeps in _rootPromise; a value is the sequence of the emissions it was  *)
(* computed from.                                                          *)
(***************************************************************************)
EXTENDS Integers, Sequences, FiniteSets, SequencesExt

CONSTANTS
    Shapes,      \* bound: what the observer n that clients add may look like
    Joins,       \* the operator that joins streams 1 and 2 into 3, or {"none"}
    MaxEmits,    \* bound: calls of next() by clients
    MaxCalls     \* bound: other calls by clients

VARIABLE net

Streams == 1..3
Nodes == 1..6

\* The stream that an operator returns, and the observer of its input i.
OutStream == 3
Feeder(i) == 3 + i

\* An observer's handlers: what #resolve does ("pass": there is none), if it
\* has a #reject, its condition or differ, and if it "stays", runs "once" or
\* starts "now" with what its parent has.
Shape(does, catches, gate, runs) ==
    [does |-> does, catches |-> catches, gate |-> gate, runs |-> runs]
Plain == Shape("pass", FALSE, "open", "stays")

NewNode(parent, root, shape) ==
    [parent |-> parent, root |-> root, kids |-> <<>>, shape |-> shape,
     status |-> "null", v |-> <<>>, cached |-> 0, promise |-> 0,
     paused |-> FALSE, fin |-> FALSE, uns |-> FALSE,
     onFin |-> <<>>, onUns |-> <<>>, ends |-> 0, since |-> 0, clear |-> TRUE]

\* new Stream(): resolved with undefined, its first promise its own number.
NewStream(s) ==
    [NewNode(0, s, Plain) EXCEPT
        !.status = "resolved", !.cached = s, !.promise = s]

Pending(m, n) == m.node[n].status = "pending"
Rooted(m, n) == m.node[n].root # 0
Current(m, n) == IF Rooted(m, n) THEN m.node[m.node[n].root].promise ELSE 0
RootEnded(m, n) == Rooted(m, n) /\ m.node[m.node[n].root].fin
Odd(v) == v # <<>> /\ Last(v) % 2 = 1

\* The calls that come back to where they were made from, and what they do to
\* a net: Do, at the end of the operators below.
Executes(n, rp, preset) == [do |-> "execute", n |-> n, rp |-> rp, preset |-> preset]
Takes(n, v, prev) == [do |-> "take", n |-> n, v |-> v, prev |-> prev]
Finishes(n, same, preset) == [do |-> "finish", n |-> n, same |-> same, preset |-> preset]
Unsubscribes(n) == [do |-> "unsubscribe", n |-> n]
Leaves(n, active) == [do |-> "leave", n |-> n, active |-> active]
Hears(h) == [do |-> "hear", h |-> h]

RECURSIVE Do(_, _), Fed(_, _, _, _)

----------------------------------------------------------------------------
\* Unsubscribing.

\* A node that others still hang on keeps its gate and its promise.
Clean(m, n) ==
    LET bare == [m.node[n] EXCEPT
                    !.parent = 0, !.root = 0, !.onFin = <<>>, !.onUns = <<>>,
                    !.shape = [@ EXCEPT !.does = "pass", !.catches = FALSE]]
    IN  [m EXCEPT !.node[n] =
            IF bare.kids # <<>> THEN bare
            ELSE [bare EXCEPT !.cached = 0, !.shape.gate = "open"]]

CleanParent(m, p) ==
    IF p # 0 /\ m.node[p].kids = <<>> /\ m.node[p].fin THEN Clean(m, p) ELSE m

Args(m) == IF m.op.kind = "fork" THEN {1} ELSE {1, 2}
\* Mutant: the operators forget to unsubscribe the output.
NeverLater(m) == m

\* setTimeout(() => stream$.unsubscribe()).
Later(m) == [m EXCEPT !.timers = @ \cup {OutStream}]

\* The callbacks that operators register: an input finishes (race minds the
\* winner only) or is unsubscribed, or the output is unsubscribed, which
\* takes the callbacks off the inputs and unsubscribes the feeders.
Hook(m, h) ==
    LET i == h.i
        op == m.op
    IN  CASE h.on = "finish" ->
                [m EXCEPT !.op.count = IF op.kind = "race" THEN @ ELSE @ + 1,
                          !.op.ended[i] = @ \/ op.kind # "race" \/ op.first = i,
                          !.op.rejected = @ \/ m.node[i].status = "rejected"]
          [] h.on = "unsubscribe" ->
                LET told == [m EXCEPT !.op.gone[i] = TRUE,
                                      !.op.left = @ + 1]
                    ends == CASE op.kind = "concat" ->
                                    (i = 1 \/ op.ended[1]) /\ ~op.ended[i]
                              [] op.kind = "race" -> op.first = i
                              [] op.kind = "fork" -> TRUE
                              [] OTHER -> told.op.left = Cardinality(Args(m))
                IN  IF ends THEN Later(told) ELSE told
          [] h.on = "output" ->
                Do([m EXCEPT !.node[i].onUns = <<>>, !.node[i].onFin = <<>>],
                   Unsubscribes(Feeder(i)))

Hooks(m, hs) == FoldLeft(LAMBDA o, h : Do(o, Hears(h)), m, hs)

\* The finish callbacks run with the finish flag still down.
RunFinish(m, n) ==
    LET called == Hooks([m EXCEPT !.node[n].ends = @ + 1], m.node[n].onFin)
    IN  [called EXCEPT !.node[n].fin = TRUE]

UnsubscribeAll(m, ks) == FoldLeft(LAMBDA o, k : Do(o, Unsubscribes(k)), m, ks)

\* A pending node is left in place: its result ends it.
UnsubscribeNode(m, n, active) ==
    IF Pending(m, n) THEN m
    ELSE LET p == m.node[n].parent
             cut == IF p = 0 THEN m
                    ELSE [m EXCEPT !.node[p].kids =
                            SelectSeq(@, LAMBDA k : k # n)]
             told == IF active THEN RunFinish(cut, n) ELSE cut
             gone == Clean(Hooks(told, told.node[n].onUns), n)
             kids == gone.node[n].kids
             busy == \E i \in DOMAIN kids : Pending(gone, kids[i])
             down == UnsubscribeAll(gone, kids)
         IN  IF ~active THEN gone ELSE IF busy THEN down ELSE Clean(down, n)

Unsubscribe(m, n) ==
    IF m.node[n].fin THEN [m EXCEPT !.node[n].uns = TRUE]
    ELSE Do([m EXCEPT !.node[n].fin = TRUE, !.node[n].uns = TRUE], Leaves(n, TRUE))

----------------------------------------------------------------------------
\* Executing.

\* Whether the gate of n lets its value through to the children: a filter
\* lets odd ones pass, a debounce what its timer executes, a throttle the
\* first of a window and what its timer executes.
Gate(m, n) ==
    CASE m.node[n].shape.gate = "filter" ->
            [net |-> m, open |-> Odd(m.node[n].v)]
      [] m.node[n].shape.gate = "debounce" ->
            IF n \in m.fired
            THEN [net |-> [m EXCEPT !.fired = @ \ {n}], open |-> TRUE]
            ELSE [net |-> [m EXCEPT !.timers = @ \cup {n}], open |-> FALSE]
      [] m.node[n].shape.gate = "throttle" ->
            IF n \in m.cooling
            THEN [net |-> [m EXCEPT !.timers = @ \cup {n}], open |-> FALSE]
            ELSE [net |-> [m EXCEPT !.timers = @ \ {n},
                                    !.cooling = @ \cup {n}], open |-> TRUE]
      [] OTHER -> [net |-> m, open |-> TRUE]

\* Mutant: an unsubscribed node feeds its children.
PassesUnsubscribed(m, n, same) == ~(m.node[n].shape.gate = "differ" /\ same)

Passes(m, n, same) ==
    ~m.node[n].uns /\ ~(m.node[n].shape.gate = "differ" /\ same)

\* Mutant: walks the list of children itself, not a copy, and so
\* skips the child after one that leaves.
ExecLive(m, n, ks, preset) ==
    LET step(o, k) ==
            IF k = o.skip THEN [o EXCEPT !.skip = 0]
            ELSE LET done == Do(o.net, Executes(k, o.net.node[n].cached, preset))
                     at == CHOOSE i \in DOMAIN ks : ks[i] = k
                 IN  [net |-> done,
                      skip |-> IF at = Len(ks) \/ Contains(done.node[n].kids, k)
                               THEN 0 ELSE ks[at + 1]]
    IN  FoldLeft(step, [net |-> m, skip |-> 0], ks).net

ExecAll(m, n, ks, preset) ==
    FoldLeft(LAMBDA o, k : Do(o, Executes(k, o.node[n].cached, preset)), m, ks)

\* A node whose stream has finished, that runs once, that was unsubscribed
\* while pending or whose parent is gone leaves the tree; then the value goes
\* to the children, unless the node was unsubscribed or its gate is shut.
ExecFinish(m, n, same, preset) ==
    LET ended == IF RootEnded(m, n) THEN RunFinish(m, n) ELSE m
        me == ended.node[n]
        leaves == \/ me.uns
                  \/ me.shape.runs = "once"
                  \/ RootEnded(ended, n)
                  \/ me.parent # 0 /\ ~Rooted(ended, me.parent)
        left == IF leaves
                THEN CleanParent(Do(ended, Leaves(n, me.uns)), me.parent)
                ELSE ended
        gate == Gate(left, n)
    IN  IF gate.open /\ Passes(gate.net, n, same)
        THEN ExecAll(gate.net, n, gate.net.node[n].kids, preset)
        ELSE gate.net

Same(m, n, v, prev) == prev # "null" /\ Odd(m.node[n].v) = Odd(v)

\* What #executeResult does with a plain result.
Took(m, n, v, prev) ==
    Do([m EXCEPT !.node[n].status = "resolved", !.node[n].v = v],
       Finishes(n, Same(m, n, v, prev), <<>>))

Job(n, rp, v, prev, bad) ==
    [node |-> n, rp |-> rp, v |-> v, prev |-> prev, bad |-> bad,
     stage |-> "out", same |-> FALSE]
Await(m, job) == [m EXCEPT !.jobs = @ \cup {job}]

\* A client unsubscribes n: the observers under it are no longer told.
Quits(m, n) ==
    [m EXCEPT !.quit = @ \/ n = OutStream,
              !.hushed = IF n = 1 /\ m.jobs # {} THEN m.node[1].promise ELSE @,
              !.node = [k \in Nodes |->
                [@[k] EXCEPT !.clear = @ /\ (n \in Streams \/ k < n)]]]

\* Calls the handler of n with v.  An error it throws becomes a rejected
\* promise, and the node is rejected before that is delivered.
Handle(m, n, v, rp, prev) ==
    LET does == m.node[n].shape.does
    IN  CASE does = "pass" -> Do(m, Takes(n, v, prev))
          [] does = "async" ->
                Await(m, Job(n, rp, v, prev, {TRUE, FALSE}))
          [] does = "throw" ->
                Await([m EXCEPT !.node[n].status = "rejected"],
                      Job(n, rp, v, prev, {TRUE}))
          [] does = "cut" ->
                LET last == Cardinality(m.used)
                IN  Do(Do(Quits(m, last), Unsubscribes(last)), Takes(n, v, prev))
          [] does = "feed" -> Do(Fed(m, n - 3, v, TRUE), Takes(n, <<>>, prev))

\* A child of a rejected parent without a #reject of its own keeps its value
\* and passes the error on as the preset value.
Exec(m, n, rp, preset) ==
    LET me == m.node[n]
        p == me.parent
        begun == [m EXCEPT !.node[n].status = "pending", !.node[n].cached = rp]
        error == IF preset = <<>> THEN m.node[p].v ELSE preset
    IN  IF rp = 0 \/ rp # Current(m, n) \/ m.node[me.root].paused \/ p = 0
        THEN m
        ELSE CASE m.node[p].status = "resolved" ->
                    Handle(begun, n, m.node[p].v, rp, me.status)
               [] m.node[p].status = "rejected" /\ me.shape.does = "feed" ->
                    Do(Fed(begun, n - 3, error, FALSE), Takes(n, <<>>, me.status))
               [] m.node[p].status = "rejected" /\ me.shape.catches ->
                    Do(begun, Takes(n, error, me.status))
               [] m.node[p].status = "rejected" /\ ~me.shape.catches ->
                    Do([begun EXCEPT !.node[n].status = "rejected"],
                       Finishes(n, FALSE, error))
               [] OTHER -> [m EXCEPT !.node[n].status = "pending"]

\* next(payload, finishFlag): a value, or a promise with the fates `bad`.
Next(m, s, v, bad, last) ==
    LET rp == m.next
        me == m.node[s]
        new == [m EXCEPT !.next = @ + 1, !.node[s].promise = rp,
                         !.node[s].fin = last]
        begun == [new EXCEPT !.node[s].status = "pending", !.node[s].cached = rp]
    IN  IF me.fin THEN m
        ELSE IF me.paused THEN new
        ELSE IF bad = {} THEN Do(begun, Takes(s, v, me.status))
        ELSE Await(begun, Job(s, rp, v, me.status, bad))

\* Mutant: only a node that has left the tree drops a result.
StaleWhenGone(m, job) == ~Rooted(m, job.node)

\* The root has another promise by now.
Stale(m, job) == job.rp # Current(m, job.node)

\* The promise of a job is settled: a stale result is dropped.
Settled(m, job, bad) ==
    LET rest == [m EXCEPT !.jobs = @ \ {job}]
        n == job.node
        done == [job EXCEPT !.stage = "set", !.bad = {bad},
                            !.same = ~bad /\ Same(m, n, job.v, job.prev)]
    IN  IF Stale(m, job) THEN rest
        ELSE [rest EXCEPT
                !.node[n].v = job.v,
                !.node[n].status = IF bad THEN "rejected" ELSE "resolved",
                !.jobs = @ \cup {done}]

Completed(m, job) ==
    LET rest == [m EXCEPT !.jobs = @ \ {job}]
    IN  IF Stale(m, job) THEN rest
        ELSE Do(rest, Finishes(job.node, job.same, <<>>))

\* then(), catch(), thenOnce() and thenImmediate().
Then(m, n, p, shape) ==
    LET node == [NewNode(p, m.node[p].root, shape) EXCEPT
                    !.since = Current(m, p),
                    !.clear = LET up == m.node[p]
                              IN  /\ up.clear /\ ~up.fin /\ shape.runs # "once"
                                  /\ up.shape.gate = "open" /\ up.shape.runs # "once"]
        added == [m EXCEPT !.node[n] = node, !.used = @ \cup {n},
                           !.node[p].clear = @ /\ ~m.node[p].fin,
                           !.node[p].kids = IF m.node[p].fin THEN @
                                            ELSE Append(@, n)]
    IN  IF shape.runs = "now" /\ m.node[p].status \in {"resolved", "rejected"}
        THEN Do(added, Executes(n, m.node[p].cached, <<>>))
        ELSE added

----------------------------------------------------------------------------
\* Joining: the operators' closures are the fields of m.op.

Emit(m, v, ok, last) == Next(m, OutStream, v, IF ok THEN {} ELSE {TRUE}, last)
\* Mutant: one input is enough.
OneCounted(m) == m.op.count > 0

AllCounted(m) ==
    IF m.op.kind = "concat" THEN m.op.ended[1] /\ m.op.ended[2]
    ELSE m.op.count = Cardinality(Args(m))


\* The payload of combine, promiseAll and finish: the inputs' last values.
Payload(m) == m.op.pay[1] \o m.op.pay[2]
Noted(m, i, v, ok) ==
    [m EXCEPT !.op.st[i] = IF ok THEN "resolved" ELSE "rejected",
              !.op.pay[i] = v]
Waiting(m) == \E i \in Args(m) : m.op.st[i] = "pending"
EmitNoted(m) ==
    IF Waiting(m) THEN m
    ELSE Emit(m, Payload(m), \A i \in Args(m) : m.op.st[i] = "resolved",
              AllCounted(m))

\* promiseAll waits again for every input that is pending.
Reset(m) ==
    LET waits == {i \in Args(m) : Pending(m, i)}
    IN  IF waits = {} THEN m
        ELSE [m EXCEPT !.node[OutStream].status = "pending",
                       !.op.st = [i \in {1, 2} |->
                            IF i \in waits THEN "pending" ELSE @[i]]]

\* Input i delivers v, or the error v.
Fed(m, i, v, ok) ==
    LET op == m.op
        first == IF op.first = 0 THEN i ELSE op.first
    IN  CASE op.kind = "merge" -> Emit(m, v, ok, AllCounted(m))
          [] op.kind = "fork" -> Emit(m, v, ok, op.ended[1])
          [] op.kind = "combine" -> EmitNoted(Noted(m, i, v, ok))
          [] op.kind = "all" ->
                LET ready == Reset(Noted(m, i, v, ok))
                IN  IF Waiting(ready) THEN ready
                    ELSE [EmitNoted(ready) EXCEPT
                            !.op.st = [j \in {1, 2} |-> "pending"]]
          [] op.kind = "finish" ->
                LET noted == Noted(m, i, v, ok)
                IN  IF AllCounted(m)
                    THEN Emit(noted, Payload(noted), ~op.rejected, TRUE)
                    ELSE noted
          [] op.kind = "race" ->
                LET won == [m EXCEPT !.op.first = first]
                IN  IF first = i THEN Emit(won, v, ok, op.ended[first]) ELSE won
          [] op.kind = "concat" ->
                IF i = 2 /\ ~op.ended[1] THEN m
                ELSE LET sent == Emit(m, v, ok, op.ended[1] /\ op.ended[2])
                     IN  IF i = 1 /\ op.ended[1] /\ op.gone[2]
                         THEN Later(sent) ELSE sent

Do(m, call) ==
    CASE call.do = "execute" -> Exec(m, call.n, call.rp, call.preset)
      [] call.do = "take" -> Took(m, call.n, call.v, call.prev)
      [] call.do = "finish" -> ExecFinish(m, call.n, call.same, call.preset)
      [] call.do = "unsubscribe" -> Unsubscribe(m, call.n)
      [] call.do = "leave" -> UnsubscribeNode(m, call.n, call.active)
      [] call.do = "hear" -> Hook(m, call.h)

\* Streams 1 and 2, which may have ended, are joined; the promise that looks
\* whether they all had is `micro`.
Join(m, kind) ==
    LET args == IF kind = "fork" THEN {1} ELSE {1, 2}
        over == {i \in args : m.node[i].fin}
        op == [kind |-> kind, count |-> Cardinality(over), left |-> 0, first |-> 0,
               pay |-> [i \in {1, 2} |-> IF i \in over THEN m.node[i].v ELSE <<>>],
               st |-> [i \in {1, 2} |->
                        IF i \in over /\ kind = "combine" THEN m.node[i].status
                        ELSE IF i \in over THEN "resolved" ELSE "pending"],
               ended |-> [i \in {1, 2} |-> i \in over /\ kind = "concat"],
               gone |-> [i \in {1, 2} |-> FALSE],
               rejected |-> \E i \in over : m.node[i].status = "rejected",
               whole |-> over = {}]
        hooked == [m EXCEPT
            !.op = op, !.micro = kind # "fork",
            !.node = [n \in Nodes |->
                IF n = OutStream
                THEN [@[n] EXCEPT !.onUns =
                        IF kind = "fork"
                        THEN <<[on |-> "output", i |-> 1]>>
                        ELSE <<[on |-> "output", i |-> 1], [on |-> "output", i |-> 2]>>]
                ELSE IF n \in args \ over
                THEN [@[n] EXCEPT !.onUns = <<[on |-> "unsubscribe", i |-> n]>>,
                                  !.onFin = <<[on |-> "finish", i |-> n]>>]
                ELSE @[n]]]
        feeder == Shape("feed", TRUE, "open",
                        IF kind = "fork" THEN "now" ELSE "stays")
        one == Then(hooked, Feeder(1), 1, feeder)
    IN  IF kind = "fork" /\ over # {} THEN [m EXCEPT !.op.kind = "none"]
        ELSE IF kind = "fork" THEN one
        ELSE Then(one, Feeder(2), 2, feeder)

\* Every operator but finish completes the output; finish emits.
Micro(m) ==
    LET done == [m EXCEPT !.micro = FALSE]
    IN  IF ~AllCounted(m) THEN done
        ELSE IF m.op.kind = "finish"
        THEN Emit(done, Payload(m), ~m.op.rejected, TRUE)
        ELSE Do(done, Unsubscribes(OutStream))

----------------------------------------------------------------------------
\* What clients, promises and timers do.

NoOp == [kind |-> "none", count |-> 0, left |-> 0, first |-> 0,
         pay |-> [i \in {1, 2} |-> <<>>], st |-> [i \in {1, 2} |-> "pending"],
         ended |-> [i \in {1, 2} |-> FALSE], gone |-> [i \in {1, 2} |-> FALSE],
         rejected |-> FALSE, whole |-> FALSE]

NetInit ==
    \E join \in Joins : net =
          [join |-> join, quit |-> FALSE, hushed |-> 0, node |-> [n \in Nodes |->
                IF n \in Streams THEN NewStream(n) ELSE NewNode(0, 0, Plain)],
           used |-> Streams, op |-> NoOp, jobs |-> {}, timers |-> {},
           fired |-> {}, cooling |-> {}, micro |-> FALSE,
           next |-> 4, emits |-> 0, calls |-> 0]

Called == [net EXCEPT !.calls = @ + 1]
MayCall == net.calls < MaxCalls

\* next() with a value or a promise, perhaps the last one.
CallNext(s) ==
    /\ net.emits < MaxEmits
    /\ s = 1 \/ net.join # "none"
    /\ \E bad \in {{}, {TRUE, FALSE}}, last \in BOOLEAN :
        net' = Next([net EXCEPT !.emits = @ + 1], s, <<net.next>>, bad, last)

CallThen(n, p) ==
    /\ n \in DOMAIN Shapes \ net.used
    /\ \A k \in Nodes : k < n => k \in net.used
    /\ p \in net.used \ {2, OutStream}
    /\ net.join = "none"
    /\ \E shape \in Shapes[n] : net' = Then(net, n, p, shape)

CallJoin ==
    /\ net.join # "none"
    /\ net.op.kind = "none"
    /\ net' = Join(net, net.join)

\* complete() of a stream is its unsubscribe().
CallUnsubscribe(n) ==
    /\ MayCall
    /\ n \in net.used
    /\ net.join = "none" => n \notin {2, OutStream}
    /\ net' = Do(Quits(Called, n), Unsubscribes(n))

CallPause(s) ==
    /\ MayCall
    /\ s = 1 \/ net.join # "none"
    /\ net' = [Called EXCEPT !.node[s].paused = ~@,
                              !.hushed = net.node[s].promise]

Settle(job) ==
    /\ job.stage = "out"
    /\ \E bad \in job.bad : net' = Settled(net, job, bad)

Complete(job) ==
    /\ job.stage = "set"
    /\ net' = Completed(net, job)

RunMicro == net.micro /\ net' = Micro(net)

\* The timer of a debounce or throttle executes the node; the output's timer
\* unsubscribes it.  Timers wait for microtasks.
FireTimer(n) ==
    /\ n \in net.timers
    /\ ~net.micro
    /\ \A job \in net.jobs : job.stage = "out"
    /\ LET m == [net EXCEPT !.timers = @ \ {n}]
           gate == net.node[n].shape.gate
           again == Executes(n, m.node[n].cached, <<>>)
       IN  net' = IF n = OutStream THEN Do(m, Unsubscribes(n))
                  ELSE IF gate = "debounce"
                  THEN Do([m EXCEPT !.fired = @ \cup {n}], again)
                  ELSE [Do([m EXCEPT !.cooling = @ \ {n}], again)
                            EXCEPT !.cooling = @ \cup {n}]

CoolDown(n) ==
    /\ n \in net.cooling \ net.timers
    /\ net' = [net EXCEPT !.cooling = @ \ {n}]

NetNext ==
    \/ \E s \in {1, 2} : CallNext(s) \/ CallPause(s)
    \/ \E n, p \in Nodes : CallThen(n, p)
    \/ CallJoin
    \/ \E n \in Nodes : CallUnsubscribe(n) \/ FireTimer(n) \/ CoolDown(n)
    \/ \E job \in net.jobs : Settle(job) \/ Complete(job)
    \/ RunMicro

NetSpec == NetInit /\ [][NetNext]_net

----------------------------------------------------------------------------
\* Properties.

AtRest == net.jobs = {} /\ net.timers = {} /\ ~net.micro

\* A stream that was paused, or completed while promises were out, drops what
\* was under way: nothing is claimed of the emission it had then.
Quiet ==
    AtRest /\ net.join = "none" /\ net.hushed # net.node[1].promise

\* What a node unsubscribed while its promise was out brings back reaches no
\* child: no child starts on an emission under an unsubscribed parent
\* (observable.ts #unsubscribeObservable, "the new emit data should not be
\* received by children").
UnsubscribedFeedsNobody ==
    [][\A n, c \in Nodes :
        net.node[n].uns /\ net.node[c].parent = n
            => net'.node[c].cached \in {0, net.node[c].cached}]_net

\* A timer executes a rejected node again without the error that it was
\* passed: such a node, if it catches, may take its parent's older value.
Replays(n) ==
    net.node[n].shape.catches /\ net.node[n].shape.gate \in {"debounce", "throttle"}

\* A node never falls back to the value of an older emission, however late
\* the promises of its handlers settle (the _rootPromise checks).
ValuesNeverGoBack ==
    [][\A n \in {k \in Nodes \ {OutStream} : ~Replays(k)} :
        LET old == net.node[n].v
            new == net'.node[n].v
        IN  old # <<>> /\ new # <<>> => Last(old) <= Last(new)]_net

Lets(n) ==
    \/ net.node[n].shape.gate = "open"
    \/ net.node[n].shape.gate = "filter" /\ Odd(net.node[n].v)

\* Both: what comes late is dropped.
LateIsDropped == UnsubscribedFeedsNobody /\ ValuesNeverGoBack

\* At rest every child of a node that has the latest emission has it too, is
\* done with it and agrees on the value, unless it was added after it or the
\* node's gate is shut.
LatestReachesAll ==
    Quiet => \A n \in Nodes : \A i \in DOMAIN net.node[n].kids :
        LET k == net.node[net.node[n].kids[i]]
            up == net.node[n]
        IN  /\ k.root # 0 /\ ~up.uns
            /\ up.cached = net.node[1].promise /\ up.cached # k.since /\ Lets(n)
            => /\ k.cached = up.cached
               /\ k.status # "pending"
               /\ k.status = "resolved" /\ up.status = "resolved" =>
                    k.v = up.v \/ k.shape.catches

\* When the stream has told its finish, every observer below it was told
\* too, unless a gate, a thenOnce or an unsubscribe stands between them.
EndReachesAll ==
    Quiet /\ net.node[1].ends > 0 => \A n \in net.used \ {2, 3} :
        net.node[n].clear => net.node[n].ends > 0

\* Both: values and the end reach everyone they are for.
EveryoneIsReached == LatestReachesAll /\ EndReachesAll

\* The inputs that the output outlives: race minds its winner.
Closers ==
    IF net.op.kind = "race" /\ net.op.first # 0 THEN {net.op.first} ELSE Args(net)

\* The output of a join finishes only when its inputs have (merge.ts:12, and
\* the same line in combine, promise-all and finish).
OutEndsWithAll ==
    net.op.kind # "none" /\ ~net.quit /\ net.node[OutStream].fin =>
        \A i \in Closers : net.node[i].fin

\* It does, as long as no input tells its finish twice.
OutEndsLast == (\A i \in Args(net) : net.node[i].ends < 2) => OutEndsWithAll

\* When every input has told its finish once, the output ends; not so for
\* race, whose winner may finish before it is known, for concat, which minds
\* no unsubscribe after a finish, for promiseAll, which may have set the
\* output pending, and for inputs that had finished before the join.
OutEnds ==
    net.op.whole /\ net.op.kind \notin {"race", "concat", "all"} /\ AtRest
        /\ (\A i \in Args(net) : net.node[i].ends = 1)
        => net.node[OutStream].ends > 0
=============================================================================
