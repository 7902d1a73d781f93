----------------------------- MODULE FifoQueue -----------------------------
(***************************************************************************)
(* What a channel promises its users, whatever its capacity: values leave  *)
(* in the order in which they were accepted, each one once, and after the  *)
(* close none is accepted, though those accepted before can still leave.   *)
(***************************************************************************)
EXTENDS Naturals, Sequences

VARIABLES
    accepted,   \* how many values were accepted; the n-th value is n
    items,      \* accepted, not yet delivered
    delivered,  \* in order of delivery
    open        \* whether values are accepted

fifoVars == <<accepted, items, delivered, open>>

FifoInit ==
    /\ accepted = 0
    /\ items = <<>>
    /\ delivered = <<>>
    /\ open = TRUE

Accept ==
    /\ open
    /\ accepted' = accepted + 1
    /\ items' = Append(items, accepted + 1)
    /\ UNCHANGED <<delivered, open>>

Deliver ==
    /\ items # <<>>
    /\ delivered' = Append(delivered, Head(items))
    /\ items' = Tail(items)
    /\ UNCHANGED <<accepted, open>>

\* A value goes straight to somebody who waits for it.
PassOn ==
    /\ open
    /\ items = <<>>
    /\ accepted' = accepted + 1
    /\ delivered' = Append(delivered, accepted + 1)
    /\ UNCHANGED <<items, open>>

Shut ==
    /\ open
    /\ open' = FALSE
    /\ UNCHANGED <<accepted, items, delivered>>

FifoNext == Accept \/ Deliver \/ PassOn \/ Shut

FifoSpec == FifoInit /\ [][FifoNext]_fifoVars

============================================================================
