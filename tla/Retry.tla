-------------------------------- MODULE Retry --------------------------------
(***************************************************************************)
(* Retries of shareds/async: retryAll, whose workers run tasks through     *)
(* retryWith, each attempt within withTimeout, and retryHttp, one worker   *)
(* with a policy.  An attempt that was given up goes on running.           *)
(***************************************************************************)
EXTENDS Naturals, Sequences, FiniteSets, FiniteSetsExt

CONSTANTS
    Tasks,        \* the number of tasks
    Concurrency,
    Retries,      \* the attempts of retryAll
    MaxAttempts   \* those of retryHttp

VARIABLE retry
\* kind: "all", or "http" with or without an idempotent method; timeout:
\* attempts have a time limit; next: the index i; workers: the task and the
\* attempt of each; runs: the calls of fn, settled or not; out: the results;
\* network: an attempt of retryHttp failed without a response

NoResult == [res |-> "none", attempt |-> 0]

Attempts(r) == IF r.kind = "all" THEN Retries ELSE MaxAttempts

\* Workers of retryAll take the next index until there is none.
Taking(r, w) ==
    IF r.next > Tasks THEN [r EXCEPT !.workers[w] = [task |-> 0, attempt |-> 0, st |-> "done"]]
    ELSE [r EXCEPT !.workers[w] = [task |-> r.next, attempt |-> 1, st |-> "begins"],
                   !.next = @ + 1]

RetryInit ==
    \E kind \in {"all", "http", "httpUnsafe"}, timeout \in BOOLEAN :
        LET n == IF kind = "all" THEN Min({Concurrency, Tasks}) ELSE 1
        IN  retry = [kind |-> kind, timeout |-> timeout /\ kind = "all",
                     aborted |-> FALSE, next |-> n + 1,
                     workers |-> [w \in 1..n |-> [task |-> w, attempt |-> 1, st |-> "begins"]],
                     runs |-> {}, out |-> [t \in 1..Tasks |-> NoResult], network |-> FALSE]

\* The result of a task is noted; a worker of retryAll takes another one,
\* unless the signal is aborted.
Done(r, w, res) ==
    LET k == r.workers[w]
        noted == [r EXCEPT !.out[k.task] = [res |-> res, attempt |-> k.attempt]]
    IN  IF r.kind # "all" \/ r.aborted
        THEN [noted EXCEPT !.workers[w].st = "done"]
        ELSE Taking(noted, w)

\* The worker's next attempt calls fn, or finds the signal aborted.
Begin(w) ==
    LET k == retry.workers[w]
    IN  /\ k.st = "begins"
        /\ retry' = IF retry.aborted THEN Done(retry, w, "aborted")
                    ELSE [retry EXCEPT
                            !.workers[w].st = "running",
                            !.runs = @ \cup {[task |-> k.task, attempt |-> k.attempt]}]

\* Mutant of Failed: one attempt more than there may be.
FailedOnceMore(r, w) ==
    IF r.workers[w].attempt <= Attempts(r)
    THEN [r EXCEPT !.workers[w].st = "sleeping"]
    ELSE Done(r, w, "error")

\* An attempt failed: the worker sleeps and tries again, or gives up.
Failed(r, w) ==
    IF r.workers[w].attempt < Attempts(r)
    THEN [r EXCEPT !.workers[w].st = "sleeping"]
    ELSE Done(r, w, "error")

\* httpRetryPolicy: a network error is retried, and so is a response that may
\* be, but for the third one and those after it of an unsafe method, whatever
\* the attempts before met.  What is thrown and is no Error has no status.
PolicyRetries(r, w, answer) ==
    \/ answer = "error"
    \/ answer = "unavailable" /\ (r.kind = "httpUnsafe" => r.workers[w].attempt <= 2)

\* An answer that is not tried again: a response is a success, and what was
\* thrown the error.  retryWith has no policy.
Heeded(r, w, answer) ==
    CASE answer = "value" -> Done(r, w, "ok")
      [] r.kind = "all" \/ PolicyRetries(r, w, answer) -> Failed(r, w)
      [] answer = "unavailable" -> Done(r, w, "ok")
      [] answer = "thrown" -> Done(r, w, "refused")

\* fn settles; a worker that waits for this attempt goes on with the answer.
Ends(run, answer) ==
    LET rest == [retry EXCEPT !.runs = @ \ {run},
                              !.network = @ \/ (answer = "error" /\ retry.kind # "all")]
        waiting == {w \in DOMAIN rest.workers :
            /\ rest.workers[w].st = "running"
            /\ rest.workers[w].task = run.task /\ rest.workers[w].attempt = run.attempt}
    IN  IF waiting = {} THEN retry' = rest
        ELSE \E w \in waiting : retry' = Heeded(rest, w, answer)

\* withTimeout rejects before fn has settled.
TimesOutRun(w) ==
    /\ retry.timeout /\ retry.workers[w].st = "running"
    /\ retry' = Failed(retry, w)

\* An aborted signal ends a timed attempt and every sleep of retryWith;
\* retryHttp sleeps on, and an attempt without a limit has fn see to it.
GivesUp(w) ==
    /\ retry.aborted
    /\ \/ /\ retry.workers[w].st = "running" /\ retry.timeout
          /\ retry' = Failed(retry, w)
       \/ /\ retry.workers[w].st = "sleeping" /\ retry.kind = "all"
          /\ retry' = Done(retry, w, "aborted")

Wakes(w) ==
    /\ retry.workers[w].st = "sleeping"
    /\ retry.kind = "all" => ~retry.aborted
    /\ retry' = [retry EXCEPT !.workers[w].st = "begins", !.workers[w].attempt = @ + 1]

AbortRetry == ~retry.aborted /\ retry' = [retry EXCEPT !.aborted = TRUE]

RetryNext ==
    \/ \E w \in DOMAIN retry.workers : Begin(w) \/ TimesOutRun(w) \/ GivesUp(w) \/ Wakes(w)
    \/ \E run \in retry.runs : \E answer \in {"value", "error", "thrown", "unavailable"} :
          (answer = "unavailable" => retry.kind # "all") /\ Ends(run, answer)
    \/ AbortRetry

----------------------------------------------------------------------------
\* A task is in one worker's hands at most; its result is that of its last
\* attempt, never of one given up before; it is tried no more than maxAttempts
\* times, and as often before it counts as failed, unless what retryHttp caught
\* is no Error.  retryAll leaves a task without a result only if it is aborted
\* before a worker has taken it.  An unsafe method whose every attempt was
\* answered is tried three times, if maxAttempts allows it, and no more.
RetriesAreOwn ==
    LET busy == {w \in DOMAIN retry.workers : retry.workers[w].st # "done"}
    IN  /\ \A v, w \in busy : v # w => retry.workers[v].task # retry.workers[w].task
        /\ \A w \in busy :
            /\ retry.out[retry.workers[w].task] = NoResult
            /\ retry.workers[w].attempt <= Attempts(retry)
            /\ retry.kind = "httpUnsafe" /\ ~retry.network => retry.workers[w].attempt <= 3
        /\ \A t \in 1..Tasks :
            /\ \A run \in retry.runs :
                run.task = t /\ retry.out[t] # NoResult => run.attempt <= retry.out[t].attempt
            /\ retry.out[t].res = "error" => retry.out[t].attempt = Attempts(retry)
            /\ retry.out[t].res = "refused" => retry.kind # "all"
            /\ retry.out[t] = NoResult =>
                \/ t >= retry.next /\ (busy = {} => retry.aborted \/ retry.kind # "all")
                \/ \E w \in busy : retry.workers[w].task = t
=============================================================================
