------------------------------ MODULE Channel ------------------------------
(***************************************************************************)
(* Channel and select() of shareds/async/src/concurrency/channel.ts.       *)
(*                                                                         *)
(* The n-th value that a channel accepts is the number n.  A receiver is   *)
(* the caller of one recv() or one select() at a time; select() registers  *)
(* a one-shot taker with every channel and then awaits the first of them   *)
(* to be called, so that others may be called too before it goes on and    *)
(* cancels what is left.                                                   *)
(*                                                                         *)
(* takeImmediate() has a branch for a receiver that waits while a value is *)
(* buffered (channel.ts:52); NoIdlePair says that it is never taken.       *)
(***************************************************************************)
EXTENDS Integers, Sequences, FiniteSets

CONSTANTS
    NumChannels,    \* select() is given the channels 1..NumChannels
    Capacity,       \* per channel: the constructor's capacity
    Receivers,      \* callers of recv() and select()
    MaxSends        \* bound: values sent on one channel

ASSUME ChannelAssumption ==
    /\ NumChannels \in Nat
    /\ Capacity \in [1..NumChannels -> Nat]
    /\ MaxSends \in Nat

VARIABLES
    buf,        \* Channel.buf
    putters,    \* Channel.putters: values whose send() has not returned
    takers,     \* Channel.takers: the receivers that wait, oldest first
    closed,     \* Channel._closed
    sent,       \* how many values the channel accepted
    out,        \* history: the values taken out of the channel, in order
    rx          \* per receiver: its call, and the results its takers got

chanVars == <<buf, putters, takers, closed, sent, out, rx>>

Channels == 1..NumChannels
Values == 1..MaxSends
Done == 0           \* the value of a result {done: true}
TimedOut == [ch |-> 0, val |-> Done]

Idle == [call |-> "none", ch |-> 0, got |-> <<>>]

BufferTypeOK ==
    /\ buf \in [Channels -> Seq(Values)]
    /\ \A ch \in Channels : Len(buf[ch]) <= Capacity[ch]
    /\ putters \in [Channels -> Seq(Values)]
    /\ closed \in [Channels -> BOOLEAN]
    /\ sent \in [Channels -> 0..MaxSends]
    /\ out \in [Channels -> Seq(Values)]

ChanTypeOK ==
    /\ BufferTypeOK
    /\ takers \in [Channels -> Seq(Receivers)]
    /\ rx \in [Receivers -> [call : {"none", "recv", "select"}, ch : 0..NumChannels,
                             got : Seq([ch : 0..NumChannels, val : 0..MaxSends])]]

ChanInit ==
    /\ buf = [ch \in Channels |-> <<>>]
    /\ putters = [ch \in Channels |-> <<>>]
    /\ takers = [ch \in Channels |-> <<>>]
    /\ closed = [ch \in Channels |-> FALSE]
    /\ sent = [ch \in Channels |-> 0]
    /\ out = [ch \in Channels |-> <<>>]
    /\ rx = [r \in Receivers |-> Idle]

----------------------------------------------------------------------------
\* A taker of r on ch is called with v: recv() resolves, select() notes it.
Called(r, ch, v) ==
    IF rx[r].call = "recv" THEN Idle
    ELSE [rx[r] EXCEPT !.got = Append(@, [ch |-> ch, val |-> v])]

MaySend(ch) == ~closed[ch] /\ sent[ch] < MaxSends

\* send() to a receiver that waits.
SendToTaker(ch) ==
    /\ MaySend(ch)
    /\ takers[ch] # <<>>
    /\ LET r == Head(takers[ch])
           v == sent[ch] + 1
       IN  /\ rx' = [rx EXCEPT ![r] = Called(r, ch, v)]
           /\ out' = [out EXCEPT ![ch] = Append(@, v)]
    /\ takers' = [takers EXCEPT ![ch] = Tail(@)]
    /\ sent' = [sent EXCEPT ![ch] = @ + 1]
    /\ UNCHANGED <<buf, putters, closed>>

\* send() into the buffer.
SendToBuffer(ch) ==
    /\ MaySend(ch)
    /\ takers[ch] = <<>>
    /\ Len(buf[ch]) < Capacity[ch]
    /\ buf' = [buf EXCEPT ![ch] = Append(@, sent[ch] + 1)]
    /\ sent' = [sent EXCEPT ![ch] = @ + 1]
    /\ UNCHANGED <<putters, takers, closed, out, rx>>

\* send() that waits for room.
SendWaits(ch) ==
    /\ MaySend(ch)
    /\ takers[ch] = <<>>
    /\ Len(buf[ch]) >= Capacity[ch]
    /\ putters' = [putters EXCEPT ![ch] = Append(@, sent[ch] + 1)]
    /\ sent' = [sent EXCEPT ![ch] = @ + 1]
    /\ UNCHANGED <<buf, takers, closed, out, rx>>

----------------------------------------------------------------------------
(* takeImmediate() *)

HasValue(ch) == buf[ch] # <<>> \/ putters[ch] # <<>>

Drained(ch) == closed[ch] /\ ~HasValue(ch)

First(ch) == IF buf[ch] # <<>> THEN Head(buf[ch]) ELSE Head(putters[ch])

\* Mutant: the waiting send() is forgotten when its value is buffered.
BufWithoutRefill(ch) == IF buf[ch] # <<>> THEN Tail(buf[ch]) ELSE <<>>

\* The buffer after a value is taken: the oldest waiting send() refills it.
BufAfter(ch) ==
    IF buf[ch] = <<>> THEN <<>>
    ELSE IF putters[ch] # <<>> THEN Append(Tail(buf[ch]), Head(putters[ch]))
    ELSE Tail(buf[ch])

PuttersAfter(ch) == IF putters[ch] # <<>> THEN Tail(putters[ch]) ELSE <<>>

\* A value is taken from every channel of S.
TakeFrom(S) ==
    /\ buf' = [ch \in Channels |-> IF ch \in S THEN BufAfter(ch) ELSE buf[ch]]
    /\ putters' = [ch \in Channels |->
                      IF ch \in S THEN PuttersAfter(ch) ELSE putters[ch]]
    /\ out' = [ch \in Channels |->
                  IF ch \in S THEN Append(out[ch], First(ch)) ELSE out[ch]]

\* recv() that returns at once, with a value or because the channel is drained.
RecvNow(r, ch) ==
    /\ rx[r] = Idle
    /\ \/ HasValue(ch) /\ TakeFrom({ch})
       \/ Drained(ch) /\ UNCHANGED <<buf, putters, out>>
    /\ UNCHANGED <<takers, closed, sent, rx>>

\* Mutant: recv() registers whenever the buffer is empty, whoever waits to send.
RecvPastPutters(r, ch) ==
    /\ rx[r] = Idle
    /\ buf[ch] = <<>>
    /\ ~closed[ch]
    /\ takers' = [takers EXCEPT ![ch] = Append(@, r)]
    /\ rx' = [rx EXCEPT ![r] = [call |-> "recv", ch |-> ch, got |-> <<>>]]
    /\ UNCHANGED <<buf, putters, closed, sent, out>>

\* recv() that waits.
RecvWaits(r, ch) ==
    /\ rx[r] = Idle
    /\ ~HasValue(ch)
    /\ ~closed[ch]
    /\ takers' = [takers EXCEPT ![ch] = Append(@, r)]
    /\ rx' = [rx EXCEPT ![r] = [call |-> "recv", ch |-> ch, got |-> <<>>]]
    /\ UNCHANGED <<buf, putters, closed, sent, out>>

\* The results of the takers that need not wait, in the order of the channels.
ResultsAtOnce ==
    LET results[n \in 0..NumChannels] ==
            IF n = 0 THEN <<>>
            ELSE IF HasValue(n)
                 THEN Append(results[n - 1], [ch |-> n, val |-> First(n)])
            ELSE IF Drained(n)
                 THEN Append(results[n - 1], [ch |-> n, val |-> Done])
            ELSE results[n - 1]
    IN  results[NumChannels]

\* select(): addTakerOnce() on every channel.  Those with a value lose it to
\* this call at once, each of them, and only one result will be returned.
SelectStart(r) ==
    /\ rx[r] = Idle
    /\ TakeFrom({ch \in Channels : HasValue(ch)})
    /\ takers' = [ch \in Channels |->
                     IF HasValue(ch) \/ Drained(ch) THEN takers[ch]
                     ELSE Append(takers[ch], r)]
    /\ rx' = [rx EXCEPT ![r] = [call |-> "select", ch |-> 0, got |-> ResultsAtOnce]]
    /\ UNCHANGED <<closed, sent>>

\* The timer of select() fires before any channel had something: the event
\* loop runs the continuations of earlier results before it fires timers.
SelectTimeout(r) ==
    /\ rx[r].call = "select"
    /\ rx[r].got = <<>>
    /\ rx' = [rx EXCEPT ![r].got = <<TimedOut>>]
    /\ UNCHANGED <<buf, putters, takers, closed, sent, out>>

\* cancel(): indexOf and splice.  A receiver is registered once (TakersAreWaiters),
\* so the first index is the only one.
Without(s, r) ==
    IF \A i \in DOMAIN s : s[i] # r THEN s
    ELSE LET i == CHOOSE j \in DOMAIN s : s[j] = r
         IN  SubSeq(s, 1, i - 1) \o SubSeq(s, i + 1, Len(s))

\* Mutant: after a timeout the takers are left where they are.
SelectEndUncancelled(r) ==
    /\ rx[r].call = "select"
    /\ rx[r].got # <<>>
    /\ rx' = [rx EXCEPT ![r] = Idle]
    /\ takers' = IF Head(rx[r].got) = TimedOut THEN takers
                 ELSE [ch \in Channels |-> Without(takers[ch], r)]
    /\ UNCHANGED <<buf, putters, closed, sent, out>>

\* select() goes on after its race: the first result is returned, the takers
\* that are still registered are cancelled, any other result is dropped.
SelectEnd(r) ==
    /\ rx[r].call = "select"
    /\ rx[r].got # <<>>
    /\ rx' = [rx EXCEPT ![r] = Idle]
    /\ takers' = [ch \in Channels |-> Without(takers[ch], r)]
    /\ UNCHANGED <<buf, putters, closed, sent, out>>

----------------------------------------------------------------------------
\* close(): every waiting receiver is told; waiting senders keep waiting.
Close(ch) ==
    /\ ~closed[ch]
    /\ closed' = [closed EXCEPT ![ch] = TRUE]
    /\ rx' = [r \in Receivers |->
                 IF \E i \in DOMAIN takers[ch] : takers[ch][i] = r
                 THEN Called(r, ch, Done) ELSE rx[r]]
    /\ takers' = [takers EXCEPT ![ch] = <<>>]
    /\ UNCHANGED <<buf, putters, sent, out>>

ChanNext ==
    \/ \E ch \in Channels :
          \/ SendToTaker(ch) \/ SendToBuffer(ch) \/ SendWaits(ch)
          \/ Close(ch)
          \/ \E r \in Receivers : RecvNow(r, ch) \/ RecvWaits(r, ch)
    \/ \E r \in Receivers : SelectStart(r) \/ SelectTimeout(r) \/ SelectEnd(r)

ChanSpec == ChanInit /\ [][ChanNext]_chanVars

----------------------------------------------------------------------------
(* Properties *)

\* No receiver waits while a value or a close is there for it, and no sender
\* waits while the buffer has room; a value that waits goes to no newcomer.
NoIdlePair ==
    \A ch \in Channels :
        /\ takers[ch] # <<>> => ~HasValue(ch) /\ ~closed[ch]
        /\ putters[ch] # <<>> => Len(buf[ch]) = Capacity[ch]

\* The takers of a channel are the receivers that wait for it.  None is left
\* behind by a select() that returned, to swallow a later value, and none is
\* missing, or a later send() or close() would not find its recv().
TakersAreWaiters ==
    /\ \A ch \in Channels :
          /\ \A i \in DOMAIN takers[ch] :
                LET r == takers[ch][i]
                IN  \/ rx[r].call = "recv" /\ rx[r].ch = ch
                    \/ /\ rx[r].call = "select"
                       /\ \A k \in DOMAIN rx[r].got : rx[r].got[k].ch # ch
          /\ \A i, j \in DOMAIN takers[ch] : takers[ch][i] = takers[ch][j] => i = j
    /\ \A r \in Receivers :
          rx[r].call = "recv" =>
              \E i \in DOMAIN takers[rx[r].ch] : takers[rx[r].ch][i] = r

\* Seen from outside, every channel is a first-in first-out queue in which no
\* value is lost, doubled or reordered, whether it was buffered, waited with
\* its sender or was handed over.
Fifo(ch) == INSTANCE FifoQueue WITH
    accepted <- sent[ch], items <- buf[ch] \o putters[ch],
    delivered <- out[ch], open <- ~closed[ch]

ChannelIsFifo ==
    /\ \A ch \in Channels : Fifo(ch)!FifoInit
    /\ [][\A ch \in Channels : [Fifo(ch)!FifoNext]_(Fifo(ch)!fifoVars)]_chanVars

\* Nothing that a channel gave to a select() is dropped: at its end the first
\* result is the only one that carries a value.
SelectKeepsOthers ==
    \A r \in Receivers :
        \A k \in 2..Len(rx[r].got) : rx[r].got[k].val = Done

============================================================================
