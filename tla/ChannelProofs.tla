--------------------------- MODULE ChannelProofs ---------------------------
(***************************************************************************)
(* Proofs about Channel, for every number of channels and receivers, every *)
(* capacity and every history of sends, receives, selects and closes.      *)
(*                                                                         *)
(* The argument: a receiver waits only while there is nothing to take, so  *)
(* a value handed over is older than none that is still inside; and a      *)
(* sender waits only while the buffer is full, so that the buffer followed *)
(* by the waiting senders is one queue.  NoIdlePair says both, and is all  *)
(* that the implementation proof needs beside the types.                   *)
(***************************************************************************)
EXTENDS Channel, SequenceTheorems, WellFoundedInduction, TLAPS

ChanInv ==
    /\ BufferTypeOK
    /\ takers \in [Channels -> Seq(Receivers)]
    /\ NoIdlePair

----------------------------------------------------------------------------
(* Sequences *)

LEMMA TailNonEmpty ==
  ASSUME NEW S, NEW p \in Seq(S), p # <<>>
  PROVE  /\ Head(p) \in S
         /\ Tail(p) \in Seq(S)
         /\ Len(Tail(p)) = Len(p) - 1
         /\ Len(p) > 0
  OBVIOUS

LEMMA TailOfConcat ==
  ASSUME NEW S, NEW p \in Seq(S), NEW w \in Seq(S), p # <<>>
  PROVE  /\ p \o w # <<>>
         /\ Head(p \o w) = Head(p)
         /\ Tail(p \o w) = Tail(p) \o w
<1>1. /\ p \o w \in Seq(S) /\ Len(p \o w) = Len(p) + Len(w)
      /\ Len(p) \in Nat /\ Len(w) \in Nat /\ Len(p) > 0
  BY ConcatProperties, LenProperties, TailNonEmpty
<1>2. p \o w # <<>> /\ Head(p \o w) = Head(p)
  OBVIOUS
<1>3. /\ Tail(p \o w) \in Seq(S) /\ Len(Tail(p \o w)) = Len(p) + Len(w) - 1
      /\ \A i \in 1..(Len(p) + Len(w) - 1) : Tail(p \o w)[i] = (p \o w)[i + 1]
  BY <1>1, <1>2, HeadTailProperties
<1>4. /\ Tail(p) \in Seq(S) /\ Len(Tail(p)) = Len(p) - 1
      /\ \A i \in 1..(Len(p) - 1) : Tail(p)[i] = p[i + 1]
  BY HeadTailProperties
<1>5. /\ Tail(p) \o w \in Seq(S) /\ Len(Tail(p) \o w) = Len(p) - 1 + Len(w)
      /\ \A i \in 1..(Len(p) - 1 + Len(w)) :
            (Tail(p) \o w)[i] = IF i <= Len(p) - 1 THEN Tail(p)[i] ELSE w[i - (Len(p) - 1)]
  BY <1>4, ConcatProperties
<1>6. \A i \in 1..(Len(p) + Len(w)) :
          (p \o w)[i] = IF i <= Len(p) THEN p[i] ELSE w[i - Len(p)]
  BY ConcatProperties
<1>7. ASSUME NEW i \in 1..(Len(p) + Len(w) - 1)
      PROVE  Tail(p \o w)[i] = (Tail(p) \o w)[i]
  <2>1. CASE i <= Len(p) - 1
    BY <1>1, <1>3, <1>4, <1>5, <1>6, <2>1
  <2>2. CASE ~(i <= Len(p) - 1)
    <3>1. (p \o w)[i + 1] = w[i + 1 - Len(p)]
      BY <1>1, <1>6, <2>2
    <3>2. (Tail(p) \o w)[i] = w[i - (Len(p) - 1)]
      BY <1>1, <1>5, <2>2
    <3>3. i + 1 - Len(p) = i - (Len(p) - 1)
      BY <1>1
    <3> QED
      BY <1>3, <3>1, <3>2, <3>3
  <2> QED
    BY <2>1, <2>2
<1> QED
  BY <1>1, <1>2, <1>3, <1>5, <1>7, SeqEqual

LEMMA HeadThenTail ==
  ASSUME NEW S, NEW w \in Seq(S), w # <<>>
  PROVE  <<Head(w)>> \o Tail(w) = w
  OBVIOUS

\* Taking the head of a buffer and refilling it with the head of the waiting
\* values is taking the head of the two in a row.
LEMMA RefillKeepsOrder ==
  ASSUME NEW S, NEW p \in Seq(S), NEW w \in Seq(S), p # <<>>, w # <<>>
  PROVE  Append(Tail(p), Head(w)) \o Tail(w) = Tail(p \o w)
<1>1. Tail(p) \in Seq(S) /\ Tail(w) \in Seq(S) /\ Head(w) \in S /\ <<Head(w)>> \in Seq(S)
  BY TailNonEmpty
<1>2. Append(Tail(p), Head(w)) = Tail(p) \o <<Head(w)>>
  BY <1>1, AppendIsConcat
<1>3. (Tail(p) \o <<Head(w)>>) \o Tail(w) = Tail(p) \o (<<Head(w)>> \o Tail(w))
  BY <1>1, ConcatAssociative
<1>4. <<Head(w)>> \o Tail(w) = w
  BY HeadThenTail
<1>5. Tail(p \o w) = Tail(p) \o w
  BY TailOfConcat
<1> QED
  BY <1>2, <1>3, <1>4, <1>5, Zenon

LEMMA AppendToConcat ==
  ASSUME NEW S, NEW p \in Seq(S), NEW w \in Seq(S), NEW e \in S
  PROVE  p \o Append(w, e) = Append(p \o w, e)
  OBVIOUS

LEMMA WithoutProperties ==
  ASSUME NEW S, NEW s \in Seq(S), NEW r
  PROVE  /\ Without(s, r) \in Seq(S)
         /\ s = <<>> => Without(s, r) = <<>>
<1>1. CASE \A i \in DOMAIN s : s[i] # r
  BY <1>1 DEF Without
<1>2. CASE ~(\A i \in DOMAIN s : s[i] # r)
  <2> DEFINE i == CHOOSE j \in DOMAIN s : s[j] = r
  <2>1. i \in 1..Len(s)
    BY <1>2
  <2>2. Without(s, r) = SubSeq(s, 1, i - 1) \o SubSeq(s, i + 1, Len(s))
    BY <1>2 DEF Without
  <2>3. \A j \in 1..Len(s) : s[j] \in S
    OBVIOUS
  <2>4. i \in Int /\ Len(s) \in Int /\ 1 <= i /\ i <= Len(s)
    BY <2>1, LenProperties
  <2> HIDE DEF i
  <2>5. SubSeq(s, 1, i - 1) \in Seq(S)
    <3>1. \A j \in 1..(i - 1) : s[j] \in S
      BY <2>3, <2>4
    <3> QED
      BY <2>4, <3>1, SubSeqProperties
  <2>6. SubSeq(s, i + 1, Len(s)) \in Seq(S)
    <3>1. \A j \in (i + 1)..Len(s) : s[j] \in S
      BY <2>3, <2>4
    <3> QED
      BY <2>4, <3>1, SubSeqProperties
  <2>7. s # <<>>
    BY <2>4
  <2> QED
    BY <2>2, <2>5, <2>6, <2>7, ConcatProperties
<1> QED
  BY <1>1, <1>2

----------------------------------------------------------------------------
(* One channel in the invariant *)

LEMMA InvAtChannel ==
  ASSUME ChanInv, NEW ch \in Channels
  PROVE  /\ buf[ch] \in Seq(Values) /\ putters[ch] \in Seq(Values)
         /\ out[ch] \in Seq(Values) /\ takers[ch] \in Seq(Receivers)
         /\ closed[ch] \in BOOLEAN /\ sent[ch] \in 0..MaxSends
         /\ Len(buf[ch]) \in Nat /\ Capacity[ch] \in Nat
         /\ Len(buf[ch]) <= Capacity[ch]
         /\ takers[ch] # <<>> => ~HasValue(ch) /\ ~closed[ch]
         /\ putters[ch] # <<>> => Len(buf[ch]) = Capacity[ch]
<1>1. BufferTypeOK /\ takers \in [Channels -> Seq(Receivers)] /\ NoIdlePair
  BY DEF ChanInv
<1>2. /\ buf[ch] \in Seq(Values) /\ putters[ch] \in Seq(Values)
      /\ out[ch] \in Seq(Values) /\ takers[ch] \in Seq(Receivers)
      /\ closed[ch] \in BOOLEAN /\ sent[ch] \in 0..MaxSends
      /\ Len(buf[ch]) <= Capacity[ch]
  BY <1>1 DEF BufferTypeOK
<1>3. Len(buf[ch]) \in Nat
  BY <1>2, LenProperties
<1>4. Capacity[ch] \in Nat
  BY ChannelAssumption DEF Channels
<1>5. /\ takers[ch] # <<>> => ~HasValue(ch) /\ ~closed[ch]
      /\ putters[ch] # <<>> => Len(buf[ch]) = Capacity[ch]
  BY <1>1 DEF NoIdlePair
<1> QED
  BY <1>2, <1>3, <1>4, <1>5

\* What an accepted value is called.
LEMMA NextValue ==
  ASSUME ChanInv, NEW ch \in Channels, MaySend(ch)
  PROVE  sent[ch] + 1 \in Values /\ sent[ch] + 1 \in 0..MaxSends
  BY InvAtChannel, ChannelAssumption DEF MaySend, Values

\* Taking a value from a channel that has one takes the head of the queue
\* that its buffer and its waiting senders form, and leaves no room unused.
LEMMA TakeOne ==
  ASSUME ChanInv, NEW ch \in Channels, HasValue(ch)
  PROVE  /\ BufAfter(ch) \in Seq(Values) /\ PuttersAfter(ch) \in Seq(Values)
         /\ Len(BufAfter(ch)) <= Capacity[ch]
         /\ PuttersAfter(ch) # <<>> => Len(BufAfter(ch)) = Capacity[ch]
         /\ buf[ch] \o putters[ch] # <<>>
         /\ First(ch) = Head(buf[ch] \o putters[ch])
         /\ First(ch) \in Values
         /\ BufAfter(ch) \o PuttersAfter(ch) = Tail(buf[ch] \o putters[ch])
<1> DEFINE b == buf[ch]
           w == putters[ch]
<1>1. /\ b \in Seq(Values) /\ w \in Seq(Values)
      /\ Len(b) \in Nat /\ Capacity[ch] \in Nat /\ Len(b) <= Capacity[ch]
      /\ w # <<>> => Len(b) = Capacity[ch]
  BY InvAtChannel
<1>2. b # <<>> \/ w # <<>>
  BY DEF HasValue
<1>a. /\ First(ch) = IF b # <<>> THEN Head(b) ELSE Head(w)
      /\ BufAfter(ch) = IF b = <<>> THEN <<>>
                        ELSE IF w # <<>> THEN Append(Tail(b), Head(w)) ELSE Tail(b)
      /\ PuttersAfter(ch) = IF w # <<>> THEN Tail(w) ELSE <<>>
  BY DEF First, BufAfter, PuttersAfter
<1> HIDE DEF b, w
<1>3. CASE b # <<>> /\ w # <<>>
  <2>1. /\ BufAfter(ch) = Append(Tail(b), Head(w)) /\ PuttersAfter(ch) = Tail(w)
        /\ First(ch) = Head(b)
    BY <1>3, <1>a
  <2>2. /\ Tail(b) \in Seq(Values) /\ Len(Tail(b)) = Len(b) - 1 /\ Head(w) \in Values
        /\ Tail(w) \in Seq(Values) /\ Head(b) \in Values
    BY <1>1, <1>3, TailNonEmpty
  <2>3. /\ BufAfter(ch) \in Seq(Values) /\ Len(BufAfter(ch)) = Len(b)
    BY <1>1, <2>1, <2>2, AppendProperties
  <2>4. /\ b \o w # <<>> /\ Head(b \o w) = Head(b)
        /\ Append(Tail(b), Head(w)) \o Tail(w) = Tail(b \o w)
    BY <1>1, <1>3, TailOfConcat, RefillKeepsOrder
  <2> QED
    BY <1>1, <1>3, <2>1, <2>2, <2>3, <2>4 DEF b, w
<1>4. CASE b # <<>> /\ w = <<>>
  <2>1. /\ BufAfter(ch) = Tail(b) /\ PuttersAfter(ch) = <<>> /\ First(ch) = Head(b)
    BY <1>4, <1>a
  <2>2. /\ Tail(b) \in Seq(Values) /\ Len(Tail(b)) = Len(b) - 1 /\ Head(b) \in Values
        /\ <<>> \in Seq(Values)
    BY <1>1, <1>4, TailNonEmpty
  <2>3. b \o w = b /\ Tail(b) \o <<>> = Tail(b)
    BY <1>1, <1>4, <2>2, ConcatEmptySeq
  <2>4. Len(Tail(b)) <= Capacity[ch]
    BY <1>1, <2>2
  <2> QED
    BY <1>4, <2>1, <2>2, <2>3, <2>4 DEF b, w
<1>5. CASE b = <<>>
  <2>1. w # <<>>
    BY <1>2, <1>5
  <2>2. /\ BufAfter(ch) = <<>> /\ PuttersAfter(ch) = Tail(w) /\ First(ch) = Head(w)
    BY <1>5, <1>a, <2>1
  <2>3. Tail(w) \in Seq(Values) /\ Head(w) \in Values /\ <<>> \in Seq(Values)
    BY <1>1, <2>1, TailNonEmpty
  <2>4. b \o w = w /\ <<>> \o Tail(w) = Tail(w)
    BY <1>1, <1>5, <2>3, ConcatEmptySeq
  <2>5. Len(<<>>) = 0 /\ Len(b) = 0
    BY <1>5
  <2> QED
    BY <1>1, <2>1, <2>2, <2>3, <2>4, <2>5 DEF b, w
<1> QED
  BY <1>3, <1>4, <1>5 DEF b, w

----------------------------------------------------------------------------
(* The steps *)

FifoStep(ch) == [Fifo(ch)!FifoNext]_(Fifo(ch)!fifoVars)

LEMMA InitChanInv == ChanInit => ChanInv
<1> SUFFICES ASSUME ChanInit PROVE ChanInv
  OBVIOUS
<1>1. BufferTypeOK
  BY ChannelAssumption, EmptySeq DEF ChanInit, BufferTypeOK, Channels
<1>2. takers \in [Channels -> Seq(Receivers)]
  BY EmptySeq DEF ChanInit
<1>3. NoIdlePair
  BY DEF ChanInit, NoIdlePair
<1> QED
  BY <1>1, <1>2, <1>3 DEF ChanInv

LEMMA InitFifo == ChanInit => \A ch \in Channels : Fifo(ch)!FifoInit
<1> SUFFICES ASSUME ChanInit, NEW ch \in Channels PROVE Fifo(ch)!FifoInit
  OBVIOUS
<1>1. buf[ch] \o putters[ch] = <<>>
  BY DEF ChanInit
<1> QED
  BY <1>1 DEF ChanInit, Fifo!FifoInit

LEMMA SendToTakerStep ==
  ASSUME ChanInv, NEW ch \in Channels, SendToTaker(ch)
  PROVE  ChanInv' /\ \A c \in Channels : FifoStep(c)
<1> DEFINE v == sent[ch] + 1
<1>1. /\ takers[ch] # <<>> /\ MaySend(ch)
      /\ takers' = [takers EXCEPT ![ch] = Tail(@)]
      /\ sent' = [sent EXCEPT ![ch] = @ + 1]
      /\ out' = [out EXCEPT ![ch] = Append(@, sent[ch] + 1)]
      /\ UNCHANGED <<buf, putters, closed>>
  BY DEF SendToTaker
<1>2. BufferTypeOK /\ takers \in [Channels -> Seq(Receivers)] /\ NoIdlePair
  BY DEF ChanInv
<1>3. /\ Tail(takers[ch]) \in Seq(Receivers)
      /\ Append(out[ch], v) \in Seq(Values)
      /\ v \in 0..MaxSends
  BY <1>1, InvAtChannel, NextValue, TailNonEmpty, AppendProperties
<1>4. BufferTypeOK'
  BY <1>1, <1>2, <1>3 DEF BufferTypeOK
<1>5. takers' \in [Channels -> Seq(Receivers)]
  BY <1>1, <1>2, <1>3
<1>6. NoIdlePair'
  BY <1>1, <1>2 DEF NoIdlePair, HasValue
<1>7. ASSUME NEW c \in Channels PROVE FifoStep(c)
  <2>1. CASE c = ch
    <3>1. /\ buf[ch] = <<>> /\ putters[ch] = <<>> /\ ~closed[ch]
      BY <1>1, InvAtChannel DEF HasValue
    <3>2. buf[ch] \o putters[ch] = <<>>
      BY <3>1
    <3>3. sent'[ch] = v /\ out'[ch] = Append(out[ch], v)
      BY <1>1, <1>2 DEF BufferTypeOK
    <3>4. Fifo(ch)!PassOn
      BY <1>1, <3>1, <3>2, <3>3 DEF Fifo!PassOn
    <3> QED
      BY <2>1, <3>4 DEF FifoStep, Fifo!FifoNext
  <2>2. CASE c # ch
    <3>1. UNCHANGED <<sent[c], buf[c], putters[c], out[c], closed[c]>>
      BY <1>1, <1>2, <2>2 DEF BufferTypeOK
    <3> QED
      BY <3>1 DEF FifoStep, Fifo!fifoVars
  <2> QED
    BY <2>1, <2>2
<1> QED
  BY <1>4, <1>5, <1>6, <1>7 DEF ChanInv

LEMMA SendToBufferStep ==
  ASSUME ChanInv, NEW ch \in Channels, SendToBuffer(ch)
  PROVE  ChanInv' /\ \A c \in Channels : FifoStep(c)
<1> DEFINE v == sent[ch] + 1
<1>1. /\ takers[ch] = <<>> /\ MaySend(ch) /\ Len(buf[ch]) < Capacity[ch]
      /\ buf' = [buf EXCEPT ![ch] = Append(@, sent[ch] + 1)]
      /\ sent' = [sent EXCEPT ![ch] = @ + 1]
      /\ UNCHANGED <<putters, takers, closed, out>>
  BY DEF SendToBuffer
<1>2. BufferTypeOK /\ takers \in [Channels -> Seq(Receivers)] /\ NoIdlePair
  BY DEF ChanInv
<1>3. /\ Append(buf[ch], v) \in Seq(Values)
      /\ Len(Append(buf[ch], v)) = Len(buf[ch]) + 1
      /\ v \in Values /\ v \in 0..MaxSends
  BY <1>1, InvAtChannel, NextValue, AppendProperties
<1>4. putters[ch] = <<>> /\ Len(buf[ch]) + 1 <= Capacity[ch]
  BY <1>1, InvAtChannel
<1>5. BufferTypeOK'
  BY <1>1, <1>2, <1>3, <1>4 DEF BufferTypeOK
<1>6. NoIdlePair'
  <2> SUFFICES ASSUME NEW c \in Channels
               PROVE  /\ takers[c] # <<>> => ~HasValue(c)' /\ ~closed[c]
                      /\ putters[c] # <<>> => Len(buf'[c]) = Capacity[c]
    BY <1>1 DEF NoIdlePair
  <2>1. CASE c = ch
    BY <1>1, <1>4, <2>1
  <2>2. CASE c # ch
    BY <1>1, <1>2, <2>2 DEF NoIdlePair, HasValue, BufferTypeOK
  <2> QED
    BY <2>1, <2>2
<1>7. ASSUME NEW c \in Channels PROVE FifoStep(c)
  <2>1. CASE c = ch
    <3>1. buf'[ch] = Append(buf[ch], v) /\ sent'[ch] = v /\ ~closed[ch]
      BY <1>1, <1>2 DEF BufferTypeOK, MaySend
    <3>2. /\ buf[ch] \o putters[ch] = buf[ch]
          /\ Append(buf[ch], v) \o putters[ch] = Append(buf[ch], v)
      BY <1>3, <1>4, InvAtChannel, ConcatEmptySeq
    <3>3. Fifo(ch)!Accept
      BY <1>1, <3>1, <3>2 DEF Fifo!Accept
    <3> QED
      BY <2>1, <3>3 DEF FifoStep, Fifo!FifoNext
  <2>2. CASE c # ch
    <3>1. UNCHANGED <<sent[c], buf[c], putters[c], out[c], closed[c]>>
      BY <1>1, <1>2, <2>2 DEF BufferTypeOK
    <3> QED
      BY <3>1 DEF FifoStep, Fifo!fifoVars
  <2> QED
    BY <2>1, <2>2
<1> QED
  BY <1>1, <1>2, <1>5, <1>6, <1>7 DEF ChanInv

LEMMA SendWaitsStep ==
  ASSUME ChanInv, NEW ch \in Channels, SendWaits(ch)
  PROVE  ChanInv' /\ \A c \in Channels : FifoStep(c)
<1> DEFINE v == sent[ch] + 1
<1>1. /\ takers[ch] = <<>> /\ MaySend(ch) /\ Len(buf[ch]) >= Capacity[ch]
      /\ putters' = [putters EXCEPT ![ch] = Append(@, sent[ch] + 1)]
      /\ sent' = [sent EXCEPT ![ch] = @ + 1]
      /\ UNCHANGED <<buf, takers, closed, out>>
  BY DEF SendWaits
<1>2. BufferTypeOK /\ takers \in [Channels -> Seq(Receivers)] /\ NoIdlePair
  BY DEF ChanInv
<1>3. Append(putters[ch], v) \in Seq(Values) /\ v \in Values /\ v \in 0..MaxSends
  BY <1>1, InvAtChannel, NextValue, AppendProperties
<1>4. Len(buf[ch]) = Capacity[ch]
  BY <1>1, InvAtChannel
<1>5. BufferTypeOK'
  BY <1>1, <1>2, <1>3 DEF BufferTypeOK
<1>6. NoIdlePair'
  <2> SUFFICES ASSUME NEW c \in Channels
               PROVE  /\ takers[c] # <<>> => ~HasValue(c)' /\ ~closed[c]
                      /\ putters'[c] # <<>> => Len(buf[c]) = Capacity[c]
    BY <1>1 DEF NoIdlePair
  <2>1. CASE c = ch
    BY <1>1, <1>4, <2>1
  <2>2. CASE c # ch
    BY <1>1, <1>2, <2>2 DEF NoIdlePair, HasValue, BufferTypeOK
  <2> QED
    BY <2>1, <2>2
<1>7. ASSUME NEW c \in Channels PROVE FifoStep(c)
  <2>1. CASE c = ch
    <3>1. putters'[ch] = Append(putters[ch], v) /\ sent'[ch] = v /\ ~closed[ch]
      BY <1>1, <1>2 DEF BufferTypeOK, MaySend
    <3>2. buf[ch] \o Append(putters[ch], v) = Append(buf[ch] \o putters[ch], v)
      <4> DEFINE b == buf[ch]
                 w == putters[ch]
      <4>1. b \in Seq(Values) /\ w \in Seq(Values) /\ v \in Values
        BY <1>3, InvAtChannel
      <4> HIDE DEF b, w, v
      <4>2. b \o Append(w, v) = Append(b \o w, v)
        BY <4>1, AppendToConcat
      <4> QED
        BY <4>2 DEF b, w
    <3>3. Fifo(ch)!Accept
      BY <1>1, <3>1, <3>2 DEF Fifo!Accept
    <3> QED
      BY <2>1, <3>3 DEF FifoStep, Fifo!FifoNext
  <2>2. CASE c # ch
    <3>1. UNCHANGED <<sent[c], buf[c], putters[c], out[c], closed[c]>>
      BY <1>1, <1>2, <2>2 DEF BufferTypeOK
    <3> QED
      BY <3>1 DEF FifoStep, Fifo!fifoVars
  <2> QED
    BY <2>1, <2>2
<1> QED
  BY <1>1, <1>2, <1>5, <1>6, <1>7 DEF ChanInv

\* A step that only touches the receivers: those that wait afterwards must have
\* nothing to take.
LEMMA QuietStep ==
  ASSUME ChanInv, UNCHANGED <<buf, putters, closed, sent, out>>,
         takers' \in [Channels -> Seq(Receivers)],
         \A c \in Channels : takers'[c] # <<>> => ~HasValue(c) /\ ~closed[c]
  PROVE  ChanInv' /\ \A c \in Channels : FifoStep(c)
<1>1. BufferTypeOK'
  BY DEF ChanInv, BufferTypeOK
<1>2. NoIdlePair'
  BY DEF ChanInv, NoIdlePair, HasValue
<1>3. ASSUME NEW c \in Channels PROVE FifoStep(c)
  BY DEF FifoStep, Fifo!fifoVars
<1> QED
  BY <1>1, <1>2, <1>3 DEF ChanInv

\* A step that takes a value from each channel of S.
LEMMA TakeFromStep ==
  ASSUME ChanInv, NEW S \in SUBSET Channels, \A c \in S : HasValue(c),
         TakeFrom(S), UNCHANGED <<closed, sent>>,
         takers' \in [Channels -> Seq(Receivers)],
         \A c \in Channels : takers'[c] # takers[c] => c \notin S /\ ~HasValue(c) /\ ~closed[c]
  PROVE  ChanInv' /\ \A c \in Channels : FifoStep(c)
<1>1. BufferTypeOK /\ takers \in [Channels -> Seq(Receivers)] /\ NoIdlePair
  BY DEF ChanInv
<1>2. /\ buf' = [c \in Channels |-> IF c \in S THEN BufAfter(c) ELSE buf[c]]
      /\ putters' = [c \in Channels |-> IF c \in S THEN PuttersAfter(c) ELSE putters[c]]
      /\ out' = [c \in Channels |-> IF c \in S THEN Append(out[c], First(c)) ELSE out[c]]
  BY DEF TakeFrom
<1>3. ASSUME NEW c \in S
      PROVE  /\ c \in Channels
             /\ buf'[c] = BufAfter(c) /\ putters'[c] = PuttersAfter(c)
             /\ out'[c] = Append(out[c], First(c))
             /\ out'[c] \in Seq(Values)
             /\ takers'[c] = <<>>
  <2>1. First(c) \in Values
    BY TakeOne
  <2>2. takers[c] = <<>>
    BY InvAtChannel
  <2> QED
    BY <1>2, <2>1, <2>2, InvAtChannel, AppendProperties
<1>4. ASSUME NEW c \in Channels, c \notin S
      PROVE  buf'[c] = buf[c] /\ putters'[c] = putters[c] /\ out'[c] = out[c]
  BY <1>2, <1>4
<1>5. BufferTypeOK'
  <2>1. ASSUME NEW c \in Channels
        PROVE  /\ buf'[c] \in Seq(Values) /\ putters'[c] \in Seq(Values)
               /\ out'[c] \in Seq(Values) /\ Len(buf'[c]) <= Capacity[c]
    <3>1. CASE c \in S
      BY <1>3, <3>1, TakeOne
    <3>2. CASE c \notin S
      BY <1>4, <3>2, InvAtChannel
    <3> QED
      BY <3>1, <3>2
  <2>2. /\ buf' \in [Channels -> Seq(Values)]
        /\ putters' \in [Channels -> Seq(Values)]
        /\ out' \in [Channels -> Seq(Values)]
    BY <1>2, <2>1
  <2> QED
    BY <1>1, <2>1, <2>2 DEF BufferTypeOK
<1>6. NoIdlePair'
  <2> SUFFICES ASSUME NEW c \in Channels
               PROVE  /\ takers'[c] # <<>> => ~HasValue(c)' /\ ~closed'[c]
                      /\ putters'[c] # <<>> => Len(buf'[c]) = Capacity[c]
    BY DEF NoIdlePair
  <2>1. CASE c \in S
    BY <1>3, <2>1, TakeOne
  <2>2. CASE c \notin S
    BY <1>4, <2>2, InvAtChannel DEF HasValue
  <2> QED
    BY <2>1, <2>2
<1>7. ASSUME NEW c \in Channels PROVE FifoStep(c)
  <2>1. CASE c \in S
    <3>1. Fifo(c)!Deliver
      BY <1>3, <2>1, TakeOne DEF Fifo!Deliver
    <3> QED
      BY <3>1 DEF FifoStep, Fifo!FifoNext
  <2>2. CASE c \notin S
    BY <1>4, <2>2 DEF FifoStep, Fifo!fifoVars
  <2> QED
    BY <2>1, <2>2
<1> QED
  BY <1>5, <1>6, <1>7 DEF ChanInv

LEMMA RecvWaitsStep ==
  ASSUME ChanInv, NEW r \in Receivers, NEW ch \in Channels, RecvWaits(r, ch)
  PROVE  ChanInv' /\ \A c \in Channels : FifoStep(c)
<1>1. /\ ~HasValue(ch) /\ ~closed[ch]
      /\ takers' = [takers EXCEPT ![ch] = Append(@, r)]
      /\ UNCHANGED <<buf, putters, closed, sent, out>>
  BY DEF RecvWaits
<1>2. takers \in [Channels -> Seq(Receivers)] /\ Append(takers[ch], r) \in Seq(Receivers)
  BY InvAtChannel, AppendProperties DEF ChanInv
<1>3. takers' \in [Channels -> Seq(Receivers)]
  BY <1>1, <1>2
<1>4. \A c \in Channels : takers'[c] # <<>> => ~HasValue(c) /\ ~closed[c]
  BY <1>1, <1>2, InvAtChannel
<1> QED
  BY <1>1, <1>3, <1>4, QuietStep

LEMMA SelectStartStep ==
  ASSUME ChanInv, NEW r \in Receivers, SelectStart(r)
  PROVE  ChanInv' /\ \A c \in Channels : FifoStep(c)
<1> DEFINE S == {ch \in Channels : HasValue(ch)}
<1>1. /\ TakeFrom(S)
      /\ takers' = [ch \in Channels |->
                      IF HasValue(ch) \/ Drained(ch) THEN takers[ch]
                      ELSE Append(takers[ch], r)]
      /\ UNCHANGED <<closed, sent>>
  BY DEF SelectStart
<1>2. ASSUME NEW c \in Channels PROVE Append(takers[c], r) \in Seq(Receivers)
  BY InvAtChannel, AppendProperties
<1>3. takers' \in [Channels -> Seq(Receivers)]
  BY <1>1, <1>2, InvAtChannel
<1>4. \A c \in Channels :
          takers'[c] # takers[c] => c \notin S /\ ~HasValue(c) /\ ~closed[c]
  BY <1>1 DEF Drained
<1> QED
  BY <1>1, <1>3, <1>4, TakeFromStep

LEMMA SelectEndStep ==
  ASSUME ChanInv, NEW r \in Receivers, SelectEnd(r)
  PROVE  ChanInv' /\ \A c \in Channels : FifoStep(c)
<1>1. /\ takers' = [ch \in Channels |-> Without(takers[ch], r)]
      /\ UNCHANGED <<buf, putters, closed, sent, out>>
  BY DEF SelectEnd
<1>2. ASSUME NEW c \in Channels
      PROVE  /\ Without(takers[c], r) \in Seq(Receivers)
             /\ takers[c] = <<>> => Without(takers[c], r) = <<>>
  BY InvAtChannel, WithoutProperties
<1>3. takers' \in [Channels -> Seq(Receivers)]
  BY <1>1, <1>2
<1>4. \A c \in Channels : takers'[c] # <<>> => ~HasValue(c) /\ ~closed[c]
  BY <1>1, <1>2, InvAtChannel
<1> QED
  BY <1>1, <1>3, <1>4, QuietStep

LEMMA CloseStep ==
  ASSUME ChanInv, NEW ch \in Channels, Close(ch)
  PROVE  ChanInv' /\ \A c \in Channels : FifoStep(c)
<1>1. /\ ~closed[ch]
      /\ closed' = [closed EXCEPT ![ch] = TRUE]
      /\ takers' = [takers EXCEPT ![ch] = <<>>]
      /\ UNCHANGED <<buf, putters, sent, out>>
  BY DEF Close
<1>2. BufferTypeOK /\ takers \in [Channels -> Seq(Receivers)] /\ NoIdlePair
  BY DEF ChanInv
<1>3. BufferTypeOK'
  BY <1>1, <1>2, Zenon DEF BufferTypeOK
<1>4. takers' \in [Channels -> Seq(Receivers)]
  BY <1>1, <1>2, EmptySeq
<1>5. NoIdlePair'
  BY <1>1, <1>2 DEF NoIdlePair, HasValue, BufferTypeOK
<1>6. ASSUME NEW c \in Channels PROVE FifoStep(c)
  <2>1. CASE c = ch
    <3>1. closed'[ch] = TRUE
      BY <1>1, <1>2 DEF BufferTypeOK
    <3>2. Fifo(ch)!Shut
      BY <1>1, <3>1 DEF Fifo!Shut
    <3> QED
      BY <2>1, <3>2 DEF FifoStep, Fifo!FifoNext
  <2>2. CASE c # ch
    <3>1. closed'[c] = closed[c]
      BY <1>1, <1>2, <2>2 DEF BufferTypeOK
    <3> QED
      BY <1>1, <3>1 DEF FifoStep, Fifo!fifoVars
  <2> QED
    BY <2>1, <2>2
<1> QED
  BY <1>3, <1>4, <1>5, <1>6 DEF ChanInv

LEMMA ChannelStep ==
  ASSUME ChanInv, [ChanNext]_chanVars
  PROVE  ChanInv' /\ \A c \in Channels : FifoStep(c)
<1>1. ASSUME NEW r \in Receivers, NEW ch \in Channels, RecvNow(r, ch)
      PROVE  ChanInv' /\ \A c \in Channels : FifoStep(c)
  <2>1. UNCHANGED <<takers, closed, sent>> /\ takers \in [Channels -> Seq(Receivers)]
    BY <1>1 DEF RecvNow, ChanInv
  <2>2. CASE HasValue(ch) /\ TakeFrom({ch})
    BY <2>1, <2>2, TakeFromStep
  <2>3. CASE UNCHANGED <<buf, putters, out>>
    BY <2>1, <2>3, QuietStep, InvAtChannel
  <2> QED
    BY <1>1, <2>2, <2>3 DEF RecvNow
<1>2. ASSUME NEW r \in Receivers, SelectTimeout(r)
      PROVE  ChanInv' /\ \A c \in Channels : FifoStep(c)
  <2>1. UNCHANGED <<buf, putters, takers, closed, sent, out>>
    BY <1>2 DEF SelectTimeout
  <2>2. takers \in [Channels -> Seq(Receivers)]
    BY DEF ChanInv
  <2> QED
    BY <2>1, <2>2, QuietStep, InvAtChannel
<1>3. CASE UNCHANGED chanVars
  <2>1. UNCHANGED <<buf, putters, takers, closed, sent, out>>
    BY <1>3 DEF chanVars
  <2>2. takers \in [Channels -> Seq(Receivers)]
    BY DEF ChanInv
  <2> QED
    BY <2>1, <2>2, QuietStep, InvAtChannel
<1> QED
  BY <1>1, <1>2, <1>3, SendToTakerStep, SendToBufferStep, SendWaitsStep, CloseStep,
     RecvWaitsStep, SelectStartStep, SelectEndStep DEF ChanNext

\* The invariant holds of every behaviour of a set of channels.
THEOREM ChannelInvariant == ChanSpec => []ChanInv
<1>1. ChanInv /\ [ChanNext]_chanVars => ChanInv'
  BY ChannelStep
<1> QED
  BY <1>1, InitChanInv, PTL DEF ChanSpec

\* Nobody waits in vain: neither a receiver beside a value, nor a sender
\* beside free room.
THEOREM NobodyWaitsInVain == ChanSpec => []NoIdlePair
<1>1. ChanInv => NoIdlePair
  BY DEF ChanInv
<1> QED
  BY <1>1, ChannelInvariant, PTL

\* Channel implements FifoQueue: whatever mixture of send, recv, select and
\* close is called, every step is a step of the queue or leaves it alone.
THEOREM ChannelImplementsFifo == ChanSpec => ChannelIsFifo
<1>1. ChanInv /\ [ChanNext]_chanVars
        => [\A ch \in Channels : [Fifo(ch)!FifoNext]_(Fifo(ch)!fifoVars)]_chanVars
  BY ChannelStep DEF FifoStep
<1> QED
  BY <1>1, InitFifo, ChannelInvariant, PTL DEF ChanSpec, ChannelIsFifo

----------------------------------------------------------------------------
(* Who waits *)

Results == [ch : 0..NumChannels, val : 0..MaxSends]

\* The members of a queue, and that none is in it twice.
Members(s) == {s[i] : i \in DOMAIN s}
EachOnce(s) == \A i, j \in DOMAIN s : s[i] = s[j] => i = j

\* A receiver in state x waits for channel ch.
Expects(x, ch) ==
    \/ x.call = "recv" /\ x.ch = ch
    \/ x.call = "select" /\ \A k \in DOMAIN x.got : x.got[k].ch # ch

\* TakersAreWaiters, in these words.
WaitersFit(tk, x) ==
    /\ \A ch \in Channels :
          /\ \A r \in Members(tk[ch]) : Expects(x[r], ch)
          /\ EachOnce(tk[ch])
    /\ \A r \in Receivers : x[r].call = "recv" => r \in Members(tk[x[r].ch])

ReceiversTyped ==
    rx \in [Receivers -> [call : {"none", "recv", "select"}, ch : 0..NumChannels,
                          got : Seq(Results)]]

\* A recv() under way has one of the channels.
RecvHasChannel == \A r \in Receivers : rx[r].call = "recv" => rx[r].ch \in Channels

WaitInv ==
    /\ ChanInv
    /\ ReceiversTyped
    /\ RecvHasChannel
    /\ WaitersFit(takers, rx)

\* The two ways to say it agree.
LEMMA WaitersAreTakers == TakersAreWaiters <=> WaitersFit(takers, rx)
  BY DEF TakersAreWaiters, WaitersFit, Members, EachOnce, Expects

\* What a queue's members are when one joins, when the first leaves and when
\* a given one is taken out.
LEMMA MembersAppend ==
  ASSUME NEW S, NEW s \in Seq(S), NEW x \in S
  PROVE  /\ Members(Append(s, x)) = Members(s) \cup {x}
         /\ EachOnce(s) /\ x \notin Members(s) => EachOnce(Append(s, x))
<1>1. /\ Len(s) \in Nat /\ DOMAIN s = 1..Len(s)
      /\ DOMAIN Append(s, x) = 1..(Len(s) + 1)
      /\ \A i \in 1..Len(s) : Append(s, x)[i] = s[i]
      /\ Append(s, x)[Len(s) + 1] = x
  OBVIOUS
<1>2. \A i \in 1..(Len(s) + 1) : i \in 1..Len(s) \/ i = Len(s) + 1
  BY <1>1
<1>3. \A i \in 1..Len(s) : i \in 1..(Len(s) + 1)
  BY <1>1
<1>4. Len(s) + 1 \in 1..(Len(s) + 1)
  BY <1>1
<1>5. Members(Append(s, x)) = Members(s) \cup {x}
  BY <1>1, <1>2, <1>3, <1>4 DEF Members
<1>6. EachOnce(s) /\ x \notin Members(s) => EachOnce(Append(s, x))
  BY <1>1, <1>2 DEF EachOnce, Members
<1> QED
  BY <1>5, <1>6

LEMMA MembersTail ==
  ASSUME NEW S, NEW s \in Seq(S), s # <<>>, EachOnce(s)
  PROVE  /\ Members(Tail(s)) = Members(s) \ {Head(s)}
         /\ EachOnce(Tail(s))
         /\ Head(s) \in Members(s)
<1>1. /\ Len(s) \in Nat /\ DOMAIN s = 1..Len(s) /\ 1 \in 1..Len(s) /\ Head(s) = s[1]
      /\ DOMAIN Tail(s) = 1..(Len(s) - 1)
      /\ \A i \in 1..(Len(s) - 1) : i + 1 \in 1..Len(s) /\ i + 1 # 1 /\ Tail(s)[i] = s[i + 1]
  OBVIOUS
<1>2. \A i \in 1..Len(s) : i # 1 => i - 1 \in 1..(Len(s) - 1) /\ (i - 1) + 1 = i
  BY <1>1
<1>3. \A i \in 1..Len(s) : i # 1 => s[i] # s[1]
  BY <1>1 DEF EachOnce
<1>4. \A y \in Members(Tail(s)) : y \in Members(s) /\ y # Head(s)
  BY <1>1, <1>3 DEF Members
<1>5. \A y \in Members(s) : y # Head(s) => y \in Members(Tail(s))
  <2> SUFFICES ASSUME NEW i \in 1..Len(s), s[i] # Head(s)
               PROVE  s[i] \in Members(Tail(s))
    BY <1>1 DEF Members
  <2>1. i # 1
    BY <1>1
  <2>2. i - 1 \in 1..(Len(s) - 1) /\ Tail(s)[i - 1] = s[i]
    BY <1>1, <1>2, <2>1
  <2> QED
    BY <1>1, <2>2 DEF Members
<1>6. EachOnce(Tail(s))
  <2> SUFFICES ASSUME NEW i \in 1..(Len(s) - 1), NEW j \in 1..(Len(s) - 1),
                      Tail(s)[i] = Tail(s)[j]
               PROVE  i = j
    BY <1>1 DEF EachOnce
  <2>1. i + 1 = j + 1
    BY <1>1 DEF EachOnce
  <2> QED
    BY <2>1
<1>7. Head(s) \in Members(s)
  BY <1>1 DEF Members
<1> QED
  BY <1>4, <1>5, <1>6, <1>7

LEMMA MembersWithout ==
  ASSUME NEW S, NEW s \in Seq(S), NEW r, EachOnce(s)
  PROVE  /\ Members(Without(s, r)) = Members(s) \ {r}
         /\ EachOnce(Without(s, r))
<1>1. CASE r \notin Members(s)
  <2>1. Without(s, r) = s
    BY <1>1 DEF Without, Members
  <2> QED
    BY <1>1, <2>1
<1>2. CASE r \in Members(s)
  <2> DEFINE i == CHOOSE j \in DOMAIN s : s[j] = r
             w == Without(s, r)
  <2>1. i \in 1..Len(s) /\ s[i] = r /\ Len(s) \in Nat /\ DOMAIN s = 1..Len(s)
    BY <1>2 DEF Members
  <2>2. w = SubSeq(s, 1, i - 1) \o SubSeq(s, i + 1, Len(s))
    BY <1>2 DEF Without, Members
  <2> HIDE DEF i, w
  <2>3. /\ SubSeq(s, 1, i - 1) \in Seq(S) /\ Len(SubSeq(s, 1, i - 1)) = i - 1
        /\ \A k \in 1..(i - 1) : SubSeq(s, 1, i - 1)[k] = s[k]
    BY <2>1
  <2>4. /\ SubSeq(s, i + 1, Len(s)) \in Seq(S) /\ Len(SubSeq(s, i + 1, Len(s))) = Len(s) - i
        /\ \A k \in 1..(Len(s) - i) : SubSeq(s, i + 1, Len(s))[k] = s[i + k]
    <3>1. SubSeq(s, i + 1, Len(s)) \in Seq(S) /\ Len(SubSeq(s, i + 1, Len(s))) = Len(s) - i
      <4>1. \A j \in (i + 1)..Len(s) : s[j] \in S
        BY <2>1
      <4>2. i + 1 \in Int /\ Len(s) \in Int
            /\ (IF i + 1 <= Len(s) THEN Len(s) - (i + 1) + 1 ELSE 0) = Len(s) - i
        <5> DEFINE n == Len(s)
        <5>1. n \in Nat /\ i \in 1..n
          BY <2>1
        <5> HIDE DEF n
        <5>2. /\ i + 1 \in Int /\ n \in Int
              /\ (IF i + 1 <= n THEN n - (i + 1) + 1 ELSE 0) = n - i
          BY <5>1
        <5> QED
          BY <5>2 DEF n
      <4> QED
        BY <4>1, <4>2, SubSeqProperties
    <3>2. ASSUME NEW k \in 1..(Len(s) - i)
          PROVE  SubSeq(s, i + 1, Len(s))[k] = s[i + k]
      <4>1. k + (i + 1) - 1 = i + k
        BY <2>1
      <4>2. SubSeq(s, i + 1, Len(s))[k] = s[k + (i + 1) - 1]
        BY <2>1
      <4> QED
        BY <4>1, <4>2
    <3> QED
      BY <3>1, <3>2
  <2>5. /\ DOMAIN w = 1..(Len(s) - 1)
        /\ \A k \in 1..(Len(s) - 1) : w[k] = IF k < i THEN s[k] ELSE s[k + 1]
    <3> DEFINE u == SubSeq(s, 1, i - 1)
               v == SubSeq(s, i + 1, Len(s))
    <3>0. u \in Seq(S) /\ v \in Seq(S) /\ Len(u) = i - 1 /\ Len(v) = Len(s) - i /\ w = u \o v
      BY <2>2, <2>3, <2>4
    <3>v. /\ \A k \in 1..(i - 1) : u[k] = s[k]
          /\ \A k \in 1..(Len(s) - i) : v[k] = s[i + k]
      BY <2>3, <2>4
    <3> HIDE DEF u, v
    <3>1. DOMAIN w = 1..(Len(s) - 1)
      <4>1. w \in Seq(S) /\ Len(w) = (i - 1) + (Len(s) - i)
        <5>1. u \o v \in Seq(S) /\ Len(u \o v) = Len(u) + Len(v)
          BY <3>0, ConcatProperties
        <5> QED
          BY <3>0, <5>1
      <4>2. (i - 1) + (Len(s) - i) = Len(s) - 1
        BY <2>1
      <4> QED
        BY <4>1, <4>2
    <3>2. ASSUME NEW k \in 1..(Len(s) - 1)
          PROVE  w[k] = IF k < i THEN s[k] ELSE s[k + 1]
      <4>1. CASE k < i
        <5>1. k \in 1..(i - 1) /\ k <= Len(u)
          BY <2>1, <3>0, <4>1
        <5>2. w[k] = u[k]
          BY <3>0, <5>1
        <5> QED
          BY <3>v, <4>1, <5>1, <5>2
      <4>2. CASE ~ (k < i)
        <5>1. k - (i - 1) \in 1..(Len(s) - i) /\ i + (k - (i - 1)) = k + 1 /\ ~ (k <= Len(u))
              /\ k - Len(u) = k - (i - 1) /\ k <= Len(u) + Len(v)
          BY <2>1, <3>0, <4>2
        <5>2. w[k] = v[k - Len(u)]
          BY <3>0, <5>1
        <5> QED
          BY <3>v, <4>2, <5>1, <5>2
      <4> QED
        BY <4>1, <4>2
    <3> QED
      BY <3>1, <3>2
  <2> DEFINE at(k) == IF k < i THEN k ELSE k + 1
  <2>6. \A k \in 1..(Len(s) - 1) : at(k) \in 1..Len(s) /\ at(k) # i /\ w[k] = s[at(k)]
    BY <2>1, <2>5
  <2>7. \A k \in 1..Len(s) : k # i =>
            \E l \in 1..(Len(s) - 1) : at(l) = k
    <3> SUFFICES ASSUME NEW k \in 1..Len(s), k # i
                 PROVE  \E l \in 1..(Len(s) - 1) : at(l) = k
      OBVIOUS
    <3>1. CASE k < i
      BY <2>1, <3>1
    <3>2. CASE k > i
      <4>1. k - 1 \in 1..(Len(s) - 1) /\ at(k - 1) = k
        BY <2>1, <3>2
      <4> QED
        BY <4>1
    <3> QED
      BY <2>1, <3>1, <3>2
  <2>8. \A k, l \in 1..(Len(s) - 1) : at(k) = at(l) => k = l
    BY <2>1
  <2> HIDE DEF at
  <2>9. \A k \in 1..Len(s) : k # i => s[k] # r
    BY <2>1 DEF EachOnce
  <2>10. \A y \in Members(w) : y \in Members(s) /\ y # r
    BY <2>1, <2>5, <2>6, <2>9 DEF Members
  <2>11. \A y \in Members(s) : y # r => y \in Members(w)
    <3> SUFFICES ASSUME NEW k \in 1..Len(s), s[k] # r PROVE s[k] \in Members(w)
      BY <2>1 DEF Members
    <3>1. PICK l \in 1..(Len(s) - 1) : at(l) = k
      BY <2>1, <2>7
    <3>2. w[l] = s[k]
      BY <2>6, <3>1
    <3> QED
      BY <2>5, <3>2 DEF Members
  <2>12. EachOnce(w)
    BY <2>1, <2>5, <2>6, <2>8 DEF EachOnce
  <2> QED
    BY <2>10, <2>11, <2>12 DEF w
<1> QED
  BY <1>1, <1>2

\* g collects the results of the first n channels, as ResultsAtOnce does.
Collects(g, n) ==
    g = [m \in 0..n |->
            IF m = 0 THEN <<>>
            ELSE IF HasValue(m) THEN Append(g[m - 1], [ch |-> m, val |-> First(m)])
            ELSE IF Drained(m) THEN Append(g[m - 1], [ch |-> m, val |-> Done])
            ELSE g[m - 1]]

\* Channel after channel, they can be collected.
LEMMA CollectionExists == \E g : Collects(g, NumChannels)
<1> DEFINE U == {n \in Nat : ~ \E g : Collects(g, n)}
           R == {ss \in Nat \X Nat : ss[1] < ss[2]}
<1>1. IsWellFoundedOn(R, Nat)
  BY NatLessThanWellFounded, Zenon DEF OpToRel
<1>2. U = {}
  <2> SUFFICES ASSUME NEW u \in U PROVE FALSE
    OBVIOUS
  <2>1. PICK n \in U : \A m \in U : ~ (<<m, n>> \in R)
    <3> HIDE DEF R
    <3> QED
      BY <1>1, WFMin
  <2>2. CASE n = 0
    <3>1. Collects([m \in 0..0 |-> <<>>], 0)
      BY DEF Collects
    <3> QED
      BY <2>1, <2>2, <3>1
  <2>3. CASE n # 0
    <3>1. n \in Nat /\ n - 1 \in Nat /\ <<n - 1, n>> \in R
      BY <2>1, <2>3
    <3>2. PICK g : Collects(g, n - 1)
      BY <2>1, <3>1
    <3> DEFINE h == [m \in 0..n |->
                        IF m < n THEN g[m]
                        ELSE IF HasValue(n) THEN Append(g[n - 1], [ch |-> n, val |-> First(n)])
                        ELSE IF Drained(n) THEN Append(g[n - 1], [ch |-> n, val |-> Done])
                        ELSE g[n - 1]]
    <3>3. ASSUME NEW m \in 0..n
          PROVE  h[m] = IF m = 0 THEN <<>>
                        ELSE IF HasValue(m) THEN Append(h[m - 1], [ch |-> m, val |-> First(m)])
                        ELSE IF Drained(m) THEN Append(h[m - 1], [ch |-> m, val |-> Done])
                        ELSE h[m - 1]
      <4>1. CASE m = n
        <5>1. n \in 0..n /\ n - 1 \in 0..n /\ n - 1 < n
          BY <3>1
        <5>2. h[n - 1] = g[n - 1]
          BY <5>1
        <5> QED
          BY <2>3, <4>1, <5>1, <5>2
      <4>2. CASE m < n
        <5>1. m \in 0..(n - 1) /\ h[m] = g[m]
          BY <3>1, <4>2
        <5>2. g[m] = IF m = 0 THEN <<>>
                     ELSE IF HasValue(m) THEN Append(g[m - 1], [ch |-> m, val |-> First(m)])
                     ELSE IF Drained(m) THEN Append(g[m - 1], [ch |-> m, val |-> Done])
                     ELSE g[m - 1]
          BY <3>2, <5>1 DEF Collects
        <5>3. m # 0 => h[m - 1] = g[m - 1]
          <6>1. m # 0 => m - 1 \in 0..n /\ m - 1 < n
            BY <3>1, <4>2
          <6> QED
            BY <6>1
        <5> HIDE DEF h
        <5> QED
          BY <5>1, <5>2, <5>3
      <4> QED
        BY <3>1, <4>1, <4>2
    <3>4. Collects(h, n)
      <4>1. h = [m \in 0..n |-> h[m]]
        OBVIOUS
      <4> HIDE DEF h
      <4> QED
        BY <3>3, <4>1 DEF Collects
    <3> QED
      BY <2>1, <3>4
  <2> QED
    BY <2>2, <2>3
<1> QED
  BY <1>2, ChannelAssumption

\* What select() gets at once comes from channels that had something.
LEMMA ResultsAtOnceAre ==
  ASSUME ChanInv
  PROVE  /\ ResultsAtOnce \in Seq(Results)
         /\ \A k \in DOMAIN ResultsAtOnce :
                LET ch == ResultsAtOnce[k].ch IN HasValue(ch) \/ Drained(ch)
<1> DEFINE A == CHOOSE g : Collects(g, NumChannels)
           Good(s) == /\ s \in Seq(Results)
                      /\ \A k \in DOMAIN s : HasValue(s[k].ch) \/ Drained(s[k].ch)
           U == {n \in Nat : n <= NumChannels /\ ~ Good(A[n])}
           R == {ss \in Nat \X Nat : ss[1] < ss[2]}
<1>1. Collects(A, NumChannels)
  BY CollectionExists
<1>2. ResultsAtOnce = A[NumChannels]
  BY DEF ResultsAtOnce, Collects
<1> HIDE DEF A
<1>3. IsWellFoundedOn(R, Nat)
  BY NatLessThanWellFounded, Zenon DEF OpToRel
<1>4. ASSUME NEW s, Good(s), NEW e \in Results, HasValue(e.ch) \/ Drained(e.ch)
      PROVE  Good(Append(s, e))
  <2>1. /\ Append(s, e) \in Seq(Results)
        /\ \A k \in DOMAIN Append(s, e) :
              (k \in DOMAIN s /\ Append(s, e)[k] = s[k]) \/ Append(s, e)[k] = e
    BY <1>4
  <2> QED
    BY <1>4, <2>1
<1>5. ASSUME NEW m \in 1..NumChannels, Good(A[m - 1]) PROVE Good(A[m])
  <2>1. m \in 0..NumChannels /\ m # 0 /\ m \in Channels
    BY ChannelAssumption DEF Channels
  <2>2. A[m] = IF HasValue(m) THEN Append(A[m - 1], [ch |-> m, val |-> First(m)])
               ELSE IF Drained(m) THEN Append(A[m - 1], [ch |-> m, val |-> Done])
               ELSE A[m - 1]
    BY <1>1, <2>1 DEF Collects
  <2>3. CASE HasValue(m)
    <3>1. First(m) \in 0..MaxSends
      <4>1. First(m) \in Values
        BY <2>1, <2>3, TakeOne
      <4> QED
        BY <4>1, ChannelAssumption DEF Values
    <3>2. [ch |-> m, val |-> First(m)] \in Results
      BY <2>1, <3>1 DEF Results
    <3> HIDE DEF Good
    <3> QED
      BY <1>4, <1>5, <2>2, <2>3, <3>2
  <2>4. CASE ~HasValue(m) /\ Drained(m)
    <3>1. [ch |-> m, val |-> Done] \in Results
      BY <2>1, ChannelAssumption DEF Results, Done
    <3> HIDE DEF Good
    <3> QED
      BY <1>4, <1>5, <2>2, <2>4, <3>1
  <2>5. CASE ~HasValue(m) /\ ~Drained(m)
    BY <1>5, <2>2, <2>5
  <2> QED
    BY <2>3, <2>4, <2>5
<1>6. Good(A[0])
  <2>1. A[0] = <<>>
    BY <1>1, ChannelAssumption DEF Collects
  <2> QED
    BY <2>1
<1>7. U = {}
  <2> SUFFICES ASSUME NEW u \in U PROVE FALSE
    OBVIOUS
  <2>1. PICK n \in U : \A m \in U : ~ (<<m, n>> \in R)
    <3> HIDE DEF R
    <3>1. U \in SUBSET Nat
      OBVIOUS
    <3> HIDE DEF U
    <3> QED
      BY <1>3, <3>1, WFMin
  <2> HIDE DEF Good
  <2>2. n # 0
    BY <1>6, <2>1
  <2>3. n \in 1..NumChannels /\ n - 1 \in Nat /\ <<n - 1, n>> \in R /\ n - 1 <= NumChannels
    BY <2>1, <2>2, ChannelAssumption
  <2>4. Good(A[n - 1])
    BY <2>1, <2>3
  <2> QED
    BY <1>5, <2>1, <2>3, <2>4
<1>8. Good(A[NumChannels])
  BY <1>7, ChannelAssumption
<1> QED
  BY <1>2, <1>8

\* A call of a receiver's taker leaves it expecting what it expected of the
\* other channels.
LEMMA CalledExpects ==
  ASSUME WaitInv, NEW ch \in Channels, NEW r \in Members(takers[ch]), NEW v \in 0..MaxSends
  PROVE  /\ r \in Receivers
         /\ Called(r, ch, v) \in [call : {"none", "recv", "select"}, ch : 0..NumChannels,
                                  got : Seq(Results)]
         /\ Called(r, ch, v).call # "recv"
         /\ \A c \in Channels : c # ch /\ r \in Members(takers[c]) => Expects(Called(r, ch, v), c)
<1>1. takers[ch] \in Seq(Receivers) /\ Expects(rx[r], ch)
  BY InvAtChannel DEF WaitInv, WaitersFit
<1>2. r \in Receivers
  BY <1>1 DEF Members
<1>3. rx[r] \in [call : {"none", "recv", "select"}, ch : 0..NumChannels, got : Seq(Results)]
  BY <1>2 DEF WaitInv, ReceiversTyped
<1>4. \A c \in Channels : r \in Members(takers[c]) => Expects(rx[r], c)
  BY DEF WaitInv, WaitersFit
<1>5. CASE rx[r].call = "recv"
  <2>1. Called(r, ch, v) = Idle /\ Idle.call = "none"
    BY <1>5 DEF Called, Idle
  <2>2. Idle \in [call : {"none", "recv", "select"}, ch : 0..NumChannels, got : Seq(Results)]
    BY EmptySeq, ChannelAssumption DEF Idle
  <2>3. \A c \in Channels : r \in Members(takers[c]) => c = ch
    BY <1>1, <1>4, <1>5 DEF Expects
  <2> QED
    BY <1>2, <2>1, <2>2, <2>3
<1>6. CASE rx[r].call # "recv"
  <2> DEFINE e == [ch |-> ch, val |-> v]
             g == rx[r].got
  <2>1. rx[r].call = "select"
    BY <1>1, <1>6 DEF Expects
  <2>2. e \in Results /\ g \in Seq(Results)
    BY <1>3, ChannelAssumption DEF Results, Channels
  <2>3. Called(r, ch, v) = [rx[r] EXCEPT !.got = Append(@, e)]
    BY <1>6 DEF Called
  <2>4. Called(r, ch, v).call = "select" /\ Called(r, ch, v).got = Append(g, e)
    BY <1>3, <2>1, <2>3
  <2>5. Append(g, e) \in Seq(Results)
    BY <2>2, AppendProperties
  <2>6. Called(r, ch, v) \in [call : {"none", "recv", "select"}, ch : 0..NumChannels,
                              got : Seq(Results)]
    <3> HIDE DEF e
    <3> QED
      BY <1>3, <2>3, <2>5
  <2>7. \A k \in DOMAIN Append(g, e) : (k \in DOMAIN g /\ Append(g, e)[k] = g[k])
                                          \/ Append(g, e)[k].ch = ch
    BY <2>2
  <2>8. ASSUME NEW c \in Channels, c # ch, r \in Members(takers[c])
        PROVE  Expects(Called(r, ch, v), c)
    <3>1. \A k \in DOMAIN g : g[k].ch # c
      BY <1>4, <2>1, <2>8 DEF Expects
    <3>2. \A k \in DOMAIN Append(g, e) : Append(g, e)[k].ch # c
      BY <2>7, <2>8, <3>1
    <3> QED
      BY <2>4, <3>2 DEF Expects
  <2> QED
    BY <1>2, <2>4, <2>6, <2>8
<1> QED
  BY <1>5, <1>6

\* Takers and receivers after a step, and what each step keeps.
WaitKept == ReceiversTyped' /\ RecvHasChannel' /\ WaitersFit(takers', rx')

\* Who does nothing waits for nothing.
LEMMA IdleWaitsNot ==
  ASSUME WaitInv, NEW r, rx[r] = Idle
  PROVE  \A c \in Channels : r \notin Members(takers[c])
<1>1. \A c \in Channels : ~Expects(Idle, c)
  BY DEF Expects, Idle
<1> QED
  BY <1>1 DEF WaitInv, WaitersFit

\* send() to a receiver.
LEMMA SendToTakerKeeps ==
  ASSUME WaitInv, NEW ch \in Channels, SendToTaker(ch)
  PROVE  WaitKept
<1> DEFINE r == Head(takers[ch])
           v == sent[ch] + 1
           x == Called(r, ch, v)
<1>1. /\ takers[ch] # <<>> /\ MaySend(ch) /\ rx' = [rx EXCEPT ![r] = x]
      /\ takers' = [takers EXCEPT ![ch] = Tail(@)]
  BY DEF SendToTaker
<1>2. /\ takers[ch] \in Seq(Receivers) /\ takers \in [Channels -> Seq(Receivers)]
      /\ EachOnce(takers[ch])
  BY InvAtChannel DEF WaitInv, WaitersFit, ChanInv
<1>3. /\ Members(Tail(takers[ch])) = Members(takers[ch]) \ {r}
      /\ EachOnce(Tail(takers[ch]))
      /\ r \in Members(takers[ch])
  BY <1>1, <1>2, MembersTail
<1>4. v \in 0..MaxSends
  BY <1>1, NextValue DEF WaitInv
<1> HIDE DEF r, v, x
<1>5. /\ r \in Receivers
      /\ x \in [call : {"none", "recv", "select"}, ch : 0..NumChannels, got : Seq(Results)]
      /\ x.call # "recv"
      /\ \A c \in Channels : c # ch /\ r \in Members(takers[c]) => Expects(x, c)
  BY <1>3, <1>4, CalledExpects DEF x
<1>6. rx \in [Receivers -> [call : {"none", "recv", "select"}, ch : 0..NumChannels,
                            got : Seq(Results)]]
  BY DEF WaitInv, ReceiversTyped
<1>7. rx'[r] = x /\ \A q \in Receivers : q # r => rx'[q] = rx[q]
  BY <1>1, <1>5, <1>6
<1>8. takers'[ch] = Tail(takers[ch]) /\ \A c \in Channels : c # ch => takers'[c] = takers[c]
  BY <1>1, <1>2
<1>9. ReceiversTyped'
  BY <1>1, <1>5, <1>6 DEF ReceiversTyped
<1>10. RecvHasChannel'
  BY <1>5, <1>7 DEF WaitInv, RecvHasChannel
<1>11. ASSUME NEW c \in Channels
       PROVE  EachOnce(takers'[c]) /\ \A q \in Members(takers'[c]) : Expects(rx'[q], c)
  <2>1. /\ EachOnce(takers[c]) /\ \A q \in Members(takers[c]) : Expects(rx[q], c)
        /\ Members(takers[c]) \subseteq Receivers
    BY InvAtChannel DEF WaitInv, WaitersFit, Members
  <2> QED
    BY <1>3, <1>5, <1>7, <1>8, <2>1
<1>12. ASSUME NEW q \in Receivers, rx'[q].call = "recv"
       PROVE  q \in Members(takers'[rx'[q].ch])
  <2>1. q # r /\ rx'[q] = rx[q]
    BY <1>5, <1>7, <1>12
  <2>2. q \in Members(takers[rx[q].ch]) /\ rx[q].ch \in Channels
    BY <1>12, <2>1 DEF WaitInv, WaitersFit, RecvHasChannel
  <2> QED
    BY <1>3, <1>8, <2>1, <2>2
<1> QED
  BY <1>9, <1>10, <1>11, <1>12 DEF WaitKept, WaitersFit

\* recv() that waits.
LEMMA RecvWaitsKeeps ==
  ASSUME WaitInv, NEW r \in Receivers, NEW ch \in Channels, RecvWaits(r, ch)
  PROVE  WaitKept
<1> DEFINE x == [call |-> "recv", ch |-> ch, got |-> <<>>]
<1>1. /\ rx[r] = Idle /\ takers' = [takers EXCEPT ![ch] = Append(@, r)]
      /\ rx' = [rx EXCEPT ![r] = x]
  BY DEF RecvWaits
<1>2. /\ takers[ch] \in Seq(Receivers) /\ takers \in [Channels -> Seq(Receivers)]
      /\ EachOnce(takers[ch])
  BY InvAtChannel DEF WaitInv, WaitersFit, ChanInv
<1>3. \A c \in Channels : r \notin Members(takers[c])
  BY <1>1, IdleWaitsNot
<1>4. /\ Members(Append(takers[ch], r)) = Members(takers[ch]) \cup {r}
      /\ EachOnce(Append(takers[ch], r))
  BY <1>2, <1>3, MembersAppend
<1>5. /\ x \in [call : {"none", "recv", "select"}, ch : 0..NumChannels, got : Seq(Results)]
      /\ x.call = "recv" /\ x.ch = ch /\ Expects(x, ch)
  BY EmptySeq, ChannelAssumption DEF Channels, Expects
<1> HIDE DEF x
<1>6. rx \in [Receivers -> [call : {"none", "recv", "select"}, ch : 0..NumChannels,
                            got : Seq(Results)]]
  BY DEF WaitInv, ReceiversTyped
<1>7. rx'[r] = x /\ \A q \in Receivers : q # r => rx'[q] = rx[q]
  BY <1>1, <1>6
<1>8. takers'[ch] = Append(takers[ch], r)
      /\ \A c \in Channels : c # ch => takers'[c] = takers[c]
  BY <1>1, <1>2
<1>9. ReceiversTyped'
  BY <1>1, <1>5, <1>6 DEF ReceiversTyped
<1>10. RecvHasChannel'
  BY <1>5, <1>7 DEF WaitInv, RecvHasChannel
<1>11. ASSUME NEW c \in Channels
       PROVE  EachOnce(takers'[c]) /\ \A q \in Members(takers'[c]) : Expects(rx'[q], c)
  <2>1. /\ EachOnce(takers[c]) /\ \A q \in Members(takers[c]) : Expects(rx[q], c)
        /\ Members(takers[c]) \subseteq Receivers
    BY InvAtChannel DEF WaitInv, WaitersFit, Members
  <2>2. CASE c = ch
    BY <1>4, <1>5, <1>7, <1>8, <2>1, <2>2
  <2>3. CASE c # ch
    BY <1>3, <1>7, <1>8, <2>1, <2>3
  <2> QED
    BY <2>2, <2>3
<1>12. ASSUME NEW q \in Receivers, rx'[q].call = "recv"
       PROVE  q \in Members(takers'[rx'[q].ch])
  <2>1. CASE q = r
    BY <1>4, <1>5, <1>7, <1>8, <2>1
  <2>2. CASE q # r
    <3>1. q \in Members(takers[rx[q].ch]) /\ rx[q].ch \in Channels /\ rx'[q] = rx[q]
      BY <1>7, <1>12, <2>2 DEF WaitInv, WaitersFit, RecvHasChannel
    <3> QED
      BY <1>4, <1>8, <3>1
  <2> QED
    BY <2>1, <2>2
<1> QED
  BY <1>9, <1>10, <1>11, <1>12 DEF WaitKept, WaitersFit

\* select() registers with every channel that gave it nothing at once.
LEMMA SelectStartKeeps ==
  ASSUME WaitInv, NEW r \in Receivers, SelectStart(r)
  PROVE  WaitKept
<1> DEFINE x == [call |-> "select", ch |-> 0, got |-> ResultsAtOnce]
           Ready(c) == HasValue(c) \/ Drained(c)
<1>1. /\ rx[r] = Idle /\ rx' = [rx EXCEPT ![r] = x]
      /\ takers' = [c \in Channels |-> IF Ready(c) THEN takers[c] ELSE Append(takers[c], r)]
  BY DEF SelectStart
<1>2. /\ ResultsAtOnce \in Seq(Results)
      /\ \A k \in DOMAIN ResultsAtOnce : Ready(ResultsAtOnce[k].ch)
  BY ResultsAtOnceAre DEF WaitInv
<1>3. \A c \in Channels : r \notin Members(takers[c])
  BY <1>1, IdleWaitsNot
<1> HIDE DEF Ready
<1>5. /\ x \in [call : {"none", "recv", "select"}, ch : 0..NumChannels, got : Seq(Results)]
      /\ x.call = "select" /\ \A c \in Channels : ~Ready(c) => Expects(x, c)
  BY <1>2, ChannelAssumption DEF Expects
<1> HIDE DEF x
<1>6. rx \in [Receivers -> [call : {"none", "recv", "select"}, ch : 0..NumChannels,
                            got : Seq(Results)]]
  BY DEF WaitInv, ReceiversTyped
<1>7. rx'[r] = x /\ \A q \in Receivers : q # r => rx'[q] = rx[q]
  BY <1>1, <1>6
<1>8. ASSUME NEW c \in Channels
      PROVE  /\ takers[c] \in Seq(Receivers) /\ EachOnce(takers[c])
             /\ \A q \in Members(takers[c]) : Expects(rx[q], c)
             /\ Members(takers[c]) \subseteq Receivers
             /\ Ready(c) => takers'[c] = takers[c]
             /\ ~Ready(c) => /\ Members(takers'[c]) = Members(takers[c]) \cup {r}
                             /\ EachOnce(takers'[c])
  <2>1. takers[c] \in Seq(Receivers)
    BY InvAtChannel DEF WaitInv
  <2>2. /\ EachOnce(takers[c])
        /\ \A q \in Members(takers[c]) : Expects(rx[q], c)
    BY DEF WaitInv, WaitersFit
  <2>3. Members(takers[c]) \subseteq Receivers
    BY <2>1 DEF Members
  <2>4. /\ Members(Append(takers[c], r)) = Members(takers[c]) \cup {r}
        /\ EachOnce(Append(takers[c], r))
    BY <1>3, <2>1, <2>2, MembersAppend
  <2> QED
    BY <1>1, <2>1, <2>2, <2>3, <2>4
<1>9. ReceiversTyped'
  BY <1>1, <1>5, <1>6 DEF ReceiversTyped
<1>10. RecvHasChannel'
  BY <1>5, <1>7 DEF WaitInv, RecvHasChannel
<1>11. ASSUME NEW c \in Channels
       PROVE  EachOnce(takers'[c]) /\ \A q \in Members(takers'[c]) : Expects(rx'[q], c)
  <2>1. CASE Ready(c)
    BY <1>3, <1>7, <1>8, <2>1
  <2>2. CASE ~Ready(c)
    BY <1>5, <1>7, <1>8, <2>2
  <2> QED
    BY <2>1, <2>2
<1>12. ASSUME NEW q \in Receivers, rx'[q].call = "recv"
       PROVE  q \in Members(takers'[rx'[q].ch])
  <2>1. q # r /\ rx'[q] = rx[q]
    BY <1>5, <1>7, <1>12
  <2>2. q \in Members(takers[rx[q].ch]) /\ rx[q].ch \in Channels
    BY <1>12, <2>1 DEF WaitInv, WaitersFit, RecvHasChannel
  <2> QED
    BY <1>8, <2>1, <2>2
<1> QED
  BY <1>9, <1>10, <1>11, <1>12 DEF WaitKept, WaitersFit

\* A timeout is no channel's result.
LEMMA SelectTimeoutKeeps ==
  ASSUME WaitInv, NEW r \in Receivers, SelectTimeout(r)
  PROVE  WaitKept
<1> DEFINE x == [rx[r] EXCEPT !.got = <<TimedOut>>]
<1>1. /\ rx[r].call = "select" /\ rx' = [rx EXCEPT ![r] = x] /\ takers' = takers
  BY DEF SelectTimeout
<1>2. rx[r] \in [call : {"none", "recv", "select"}, ch : 0..NumChannels, got : Seq(Results)]
  BY DEF WaitInv, ReceiversTyped
<1>3. TimedOut \in Results /\ TimedOut.ch \notin Channels
  BY ChannelAssumption DEF TimedOut, Results, Done, Channels
<1>4. <<TimedOut>> \in Seq(Results) /\ \A k \in DOMAIN <<TimedOut>> : <<TimedOut>>[k] = TimedOut
  BY <1>3
<1>5. /\ x \in [call : {"none", "recv", "select"}, ch : 0..NumChannels, got : Seq(Results)]
      /\ x.call = "select" /\ x.got = <<TimedOut>>
  BY <1>1, <1>2, <1>4
<1> HIDE DEF x
<1>6. \A c \in Channels : Expects(x, c)
  BY <1>3, <1>4, <1>5 DEF Expects
<1>7. rx'[r] = x /\ \A q \in Receivers : q # r => rx'[q] = rx[q]
  BY <1>1 DEF WaitInv, ReceiversTyped
<1>8. ReceiversTyped' /\ RecvHasChannel'
  BY <1>1, <1>5, <1>7 DEF WaitInv, ReceiversTyped, RecvHasChannel
<1>9. ASSUME NEW c \in Channels
      PROVE  EachOnce(takers[c]) /\ \A q \in Members(takers[c]) : Expects(rx'[q], c)
  <2>1. /\ EachOnce(takers[c]) /\ \A q \in Members(takers[c]) : Expects(rx[q], c)
        /\ Members(takers[c]) \subseteq Receivers
    BY InvAtChannel DEF WaitInv, WaitersFit, Members
  <2> QED
    BY <1>6, <1>7, <2>1
<1>10. \A q \in Receivers : rx'[q].call = "recv" => q \in Members(takers[rx'[q].ch])
  BY <1>5, <1>7 DEF WaitInv, WaitersFit
<1> QED
  BY <1>1, <1>8, <1>9, <1>10 DEF WaitKept, WaitersFit

\* select() takes itself out of every queue before it returns.
LEMMA SelectEndKeeps ==
  ASSUME WaitInv, NEW r \in Receivers, SelectEnd(r)
  PROVE  WaitKept
<1>1. /\ rx[r].call = "select" /\ rx' = [rx EXCEPT ![r] = Idle]
      /\ takers' = [c \in Channels |-> Without(takers[c], r)]
  BY DEF SelectEnd
<1>2. Idle \in [call : {"none", "recv", "select"}, ch : 0..NumChannels, got : Seq(Results)]
      /\ Idle.call = "none"
  BY EmptySeq, ChannelAssumption DEF Idle
<1>3. rx'[r] = Idle /\ \A q \in Receivers : q # r => rx'[q] = rx[q]
  BY <1>1 DEF WaitInv, ReceiversTyped
<1>4. ReceiversTyped' /\ RecvHasChannel'
  BY <1>1, <1>2, <1>3 DEF WaitInv, ReceiversTyped, RecvHasChannel
<1>5. ASSUME NEW c \in Channels
      PROVE  /\ Members(takers'[c]) = Members(takers[c]) \ {r} /\ EachOnce(takers'[c])
             /\ \A q \in Members(takers[c]) : Expects(rx[q], c)
             /\ Members(takers[c]) \subseteq Receivers
  <2>1. takers[c] \in Seq(Receivers)
    BY InvAtChannel DEF WaitInv
  <2>2. EachOnce(takers[c]) /\ \A q \in Members(takers[c]) : Expects(rx[q], c)
    BY DEF WaitInv, WaitersFit
  <2>3. Members(takers[c]) \subseteq Receivers
    BY <2>1 DEF Members
  <2> QED
    BY <1>1, <2>1, <2>2, <2>3, MembersWithout
<1>6. \A c \in Channels : EachOnce(takers'[c]) /\ \A q \in Members(takers'[c]) : Expects(rx'[q], c)
  BY <1>3, <1>5
<1>7. ASSUME NEW q \in Receivers, rx'[q].call = "recv"
      PROVE  q \in Members(takers'[rx'[q].ch])
  <2>1. q # r /\ rx'[q] = rx[q]
    BY <1>2, <1>3, <1>7
  <2>2. q \in Members(takers[rx[q].ch]) /\ rx[q].ch \in Channels
    BY <1>7, <2>1 DEF WaitInv, WaitersFit, RecvHasChannel
  <2> QED
    BY <1>5, <2>1, <2>2
<1> QED
  BY <1>4, <1>6, <1>7 DEF WaitKept, WaitersFit

\* close() calls every taker of the channel and forgets them.
LEMMA CloseKeeps ==
  ASSUME WaitInv, NEW ch \in Channels, Close(ch)
  PROVE  WaitKept
<1>1. /\ takers' = [takers EXCEPT ![ch] = <<>>]
      /\ rx' = [r \in Receivers |->
                    IF r \in Members(takers[ch]) THEN Called(r, ch, Done) ELSE rx[r]]
  BY DEF Close, Members
<1>2. Done \in 0..MaxSends
  BY ChannelAssumption DEF Done
<1>3. ASSUME NEW r \in Receivers, r \in Members(takers[ch])
      PROVE  /\ rx'[r] \in [call : {"none", "recv", "select"}, ch : 0..NumChannels,
                             got : Seq(Results)]
             /\ rx'[r].call # "recv"
             /\ \A c \in Channels : c # ch /\ r \in Members(takers[c]) => Expects(rx'[r], c)
  BY <1>1, <1>2, <1>3, CalledExpects
<1>4. \A r \in Receivers : r \notin Members(takers[ch]) => rx'[r] = rx[r]
  BY <1>1
<1>5. takers'[ch] = <<>> /\ \A c \in Channels : c # ch => takers'[c] = takers[c]
  BY <1>1 DEF WaitInv, ChanInv
<1>6. Members(<<>>) = {} /\ EachOnce(<<>>)
  BY DEF Members, EachOnce
<1>7. ReceiversTyped'
  <2>1. \A r \in Receivers : rx'[r] \in [call : {"none", "recv", "select"},
                                          ch : 0..NumChannels, got : Seq(Results)]
    BY <1>3, <1>4 DEF WaitInv, ReceiversTyped
  <2>2. rx' = [r \in Receivers |-> rx'[r]]
    BY <1>1
  <2> QED
    BY <2>1, <2>2 DEF ReceiversTyped
<1>8. RecvHasChannel'
  BY <1>3, <1>4 DEF WaitInv, RecvHasChannel
<1>9. ASSUME NEW c \in Channels
      PROVE  EachOnce(takers'[c]) /\ \A q \in Members(takers'[c]) : Expects(rx'[q], c)
  <2>1. CASE c = ch
    BY <1>5, <1>6, <2>1
  <2>2. CASE c # ch
    <3>1. /\ EachOnce(takers[c]) /\ \A q \in Members(takers[c]) : Expects(rx[q], c)
          /\ Members(takers[c]) \subseteq Receivers
      BY InvAtChannel DEF WaitInv, WaitersFit, Members
    <3> QED
      BY <1>3, <1>4, <1>5, <2>2, <3>1
  <2> QED
    BY <2>1, <2>2
<1>10. ASSUME NEW q \in Receivers, rx'[q].call = "recv"
       PROVE  q \in Members(takers'[rx'[q].ch])
  <2>1. q \notin Members(takers[ch]) /\ rx'[q] = rx[q]
    BY <1>3, <1>4, <1>10
  <2>2. q \in Members(takers[rx[q].ch]) /\ rx[q].ch \in Channels
    BY <1>10, <2>1 DEF WaitInv, WaitersFit, RecvHasChannel
  <2> QED
    BY <1>5, <2>1, <2>2
<1> QED
  BY <1>7, <1>8, <1>9, <1>10 DEF WaitKept, WaitersFit

\* The takers of a channel are those who wait for it, each once, in every
\* order of sends, receives, selects, timeouts and closes.
THEOREM NobodyIsForgotten == ChanSpec => []TakersAreWaiters
<1>1. ChanInit => WaitInv
  <2> SUFFICES ASSUME ChanInit PROVE WaitInv
    OBVIOUS
  <2>1. ReceiversTyped
    BY EmptySeq, ChannelAssumption DEF ChanInit, ReceiversTyped, Idle
  <2>2. RecvHasChannel /\ WaitersFit(takers, rx)
    BY DEF ChanInit, RecvHasChannel, WaitersFit, Members, EachOnce, Idle
  <2> QED
    BY <2>1, <2>2, InitChanInv DEF WaitInv
<1>2. WaitInv /\ [ChanNext]_chanVars => WaitInv'
  <2> SUFFICES ASSUME WaitInv, [ChanNext]_chanVars PROVE WaitInv'
    OBVIOUS
  <2>1. ChanInv'
    BY ChannelStep DEF WaitInv
  <2>2. ASSUME UNCHANGED <<takers, rx>> PROVE WaitKept
    BY <2>2 DEF WaitInv, WaitKept, ReceiversTyped, RecvHasChannel
  <2>3. ASSUME UNCHANGED chanVars PROVE WaitKept
    <3>1. UNCHANGED <<takers, rx>>
      BY <2>3 DEF chanVars
    <3> QED
      BY <2>2, <3>1
  <2>4. ASSUME NEW ch \in Channels, SendToBuffer(ch) \/ SendWaits(ch) PROVE WaitKept
    BY <2>2, <2>4 DEF SendToBuffer, SendWaits
  <2>5. ASSUME NEW ch \in Channels, NEW r \in Receivers, RecvNow(r, ch) PROVE WaitKept
    BY <2>2, <2>5 DEF RecvNow
  <2>6. ASSUME \E ch \in Channels :
                  \/ SendToTaker(ch) \/ SendToBuffer(ch) \/ SendWaits(ch)
                  \/ Close(ch)
                  \/ \E r \in Receivers : RecvNow(r, ch) \/ RecvWaits(r, ch)
        PROVE  WaitKept
    BY <2>4, <2>5, <2>6, SendToTakerKeeps, RecvWaitsKeeps, CloseKeeps
  <2>7. ASSUME \E r \in Receivers :
                  SelectStart(r) \/ SelectTimeout(r) \/ SelectEnd(r)
        PROVE  WaitKept
    BY <2>7, SelectStartKeeps, SelectTimeoutKeeps, SelectEndKeeps
  <2>8. WaitKept
    BY <2>3, <2>6, <2>7 DEF ChanNext
  <2> QED
    BY <2>1, <2>8 DEF WaitInv, WaitKept
<1>3. WaitInv => TakersAreWaiters
  BY WaitersAreTakers DEF WaitInv
<1> QED
  BY <1>1, <1>2, <1>3, PTL DEF ChanSpec
============================================================================
