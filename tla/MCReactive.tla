---------------------------- MODULE MCReactive ----------------------------
(***************************************************************************)
(* Instances of Reactive: two observers added to a stream, or two streams  *)
(* that an operator joins.                                                 *)
(***************************************************************************)
EXTENDS Reactive

\* The first observer fails, is asynchronous or cuts a subscription from within
\* its handler, behind every gate there is; the second is plain or catches.
MCShapes ==
    (4 :> {Shape("throw", FALSE, "throttle", "stays"),
           Shape("async", FALSE, "differ", "once"),
           Shape("cut", TRUE, "debounce", "now")})
    @@ (5 :> {Shape("async", TRUE, "open", "stays"),
              Shape("pass", FALSE, "filter", "now")})
=============================================================================
