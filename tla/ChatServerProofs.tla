-------------------------- MODULE ChatServerProofs --------------------------
(***************************************************************************)
(* Theorems about ChatServer for every set of clients and loops: its types *)
(* and safety invariants; that no text is left out, and that what reaches  *)
(* the clients implements SenderFifo; and that nothing is accepted behind  *)
(* the end of a connection or left without its flush.                      *)
(***************************************************************************)
EXTENDS ChatServer, SequenceTheorems, TLAPS

-----------------------------------------------------------------------------
(* What the operations on a channel preserve. *)

ChannelOK(ch) == ch \in Channel /\ CursorsOK(ch)

\* A write keeps the cursors within the channel's log.
LEMMA WriteOK ==
    ASSUME NEW ch, ChannelOK(ch), NEW m \in Item
    PROVE  ChannelOK(Write(ch, m))
<1>1. CASE ~Accepts(ch, m)
  BY <1>1 DEF Write
<1>2. CASE Accepts(ch, m)
  <2> DEFINE o == Append(ch.out, m)
  <2>1. o \in Seq(Item) /\ Len(o) = Len(ch.out) + 1
    <3>1. ch.out \in Seq(Item)
      BY DEF ChannelOK, Channel
    <3> QED BY <3>1, AppendProperties
  <2>2. Write(ch, m) = [ch EXCEPT !.out = o]
    BY <1>2 DEF Write
  <2> HIDE DEF o
  <2> QED BY <2>1, <2>2 DEF ChannelOK, CursorsOK, Channel
<1> QED BY <1>1, <1>2

LEMMA WrittenOK ==
    ASSUME NEW ch, ChannelOK(ch), NEW w \in ch.written .. ch.flushed
    PROVE  ChannelOK(Written(ch, w)) /\ Written(ch, w).out = ch.out
<1> DEFINE Ends == \E i \in 1 .. w : ch.out[i].kind \in {"r400", "close"}
           st   == IF Ends THEN "closed" ELSE ch.state
<1>1. Written(ch, w) = [ch EXCEPT !.written = w, !.state = st]
  BY DEF Written
<1>2. st \in {"new", "open", "closed"}
  BY DEF ChannelOK, Channel
<1>3. w \in Nat /\ w <= ch.flushed
  BY DEF ChannelOK, Channel
<1> HIDE DEF st
<1> QED BY <1>1, <1>2, <1>3 DEF ChannelOK, CursorsOK, Channel

LEMMA ClosedOK ==
    ASSUME NEW ch, ChannelOK(ch)
    PROVE  /\ ChannelOK(Closed(ch))
           /\ Closed(ch).out = ch.out
           /\ Closed(ch).state = "closed"
BY DEF ChannelOK, CursorsOK, Closed, Channel

\* A flush moves the cursors and accepts nothing.
LEMMA FlushOK ==
    ASSUME NEW ch, ChannelOK(ch), NEW x \in FlushOutcomes(ch)
    PROVE  ChannelOK(x) /\ x.out = ch.out
<1> DEFINE all == [ch EXCEPT !.flushed = Len(ch.out)]
<1>1. CASE ch.state # "open"
  BY <1>1 DEF FlushOutcomes
<1>2. CASE ch.state = "open"
  <2>1. ChannelOK(all) /\ all.out = ch.out /\ all.written = ch.written
        /\ all.flushed = Len(ch.out)
    BY DEF ChannelOK, CursorsOK, Channel
  <2>2. x \in {Written(all, w) : w \in ch.written .. Len(ch.out)} \cup {Closed(all)}
    BY <1>2 DEF FlushOutcomes
  <2> HIDE DEF all
  <2>3. CASE x = Closed(all)
    BY <2>1, <2>3, ClosedOK
  <2>4. CASE \E w \in ch.written .. Len(ch.out) : x = Written(all, w)
    BY <2>1, <2>4, WrittenOK
  <2> QED BY <2>2, <2>3, <2>4
<1> QED BY <1>1, <1>2

\* Both steps of writeAndFlush together.
LEMMA WriteFlushOK ==
    ASSUME NEW ch, ChannelOK(ch), NEW m \in Item,
           NEW x \in FlushOutcomes(Write(ch, m))
    PROVE  /\ ChannelOK(x)
           /\ x.out = Write(ch, m).out
BY WriteOK, FlushOK

-----------------------------------------------------------------------------
(* Type correctness *)

\* Replacing one channel keeps the types of all.
LEMMA PutOK ==
    ASSUME TypeOK, NEW c \in Clients, NEW ch, ChannelOK(ch), Put(c, ch)
    PROVE  /\ chan' \in [Clients -> Channel]
           /\ \A x \in Clients : CursorsOK(chan'[x])
           /\ group' \subseteq Clients
<1>1. chan' = [chan EXCEPT ![c] = ch] /\ group' \subseteq group
  BY DEF Put
<1>2. chan \in [Clients -> Channel] /\ group \subseteq Clients
      /\ \A x \in Clients : CursorsOK(chan[x])
  BY DEF TypeOK
<1> QED BY <1>1, <1>2 DEF ChannelOK

LEMMA ItemTypes ==
    /\ \A k \in Responses \cup {"pong", "close"} : Control(k) \in Item
    /\ \A s \in Clients, n \in Nat : Text(s, n) \in Item
BY NoOneAssumption DEF Item, Control, Text, Responses

\* An item is a text exactly if it is from a client.
LEMMA ItemFields ==
    ASSUME NEW m \in Item
    PROVE  /\ m.kind \in Responses \cup {"pong", "close", "text"}
           /\ m.from \in Clients \cup {NoOne} /\ m.n \in Nat
           /\ m.from # NoOne <=> IsText(m)
<1>1. /\ m \in [kind : Responses \cup {"pong", "close", "text"},
               from : Clients \cup {NoOne}, n : Nat]
      /\ IF m.kind = "text" THEN m.from \in Clients ELSE m = Control(m.kind)
  BY DEF Item
<1>2. CASE m.kind = "text"
  BY <1>1, <1>2, NoOneAssumption DEF IsText
<1>3. CASE m.kind # "text"
  BY <1>1, <1>3 DEF IsText, Control
<1> QED BY <1>2, <1>3

\* The answers to a message change one channel and keep its type.
LEMMA ReplyOK ==
    ASSUME TypeOK, NEW l \in Loops, reading[l] \in Clients,
           NEW m \in Item, Reply(l, m)
    PROVE  /\ chan' \in [Clients -> Channel]
           /\ \A x \in Clients : CursorsOK(chan'[x])
           /\ group' \subseteq Clients
<1>1. ChannelOK(chan[reading[l]])
  BY DEF TypeOK, ChannelOK
<1>2. PICK x \in FlushOutcomes(Write(chan[reading[l]], m)) : Put(reading[l], x)
  BY DEF Reply
<1>3. ChannelOK(x)
  BY <1>1, <1>2, WriteFlushOK
<1> QED BY <1>2, <1>3, PutOK

\* A loop that is handling something has a channel.
LEMMA ReadingClient ==
    ASSUME TypeOK, LoopsOK, NEW l \in Loops,
           ~Idle(l) \/ casting[l] \/ raised[l] # NoFrame
    PROVE  reading[l] \in Clients /\ LoopOf[reading[l]] = l
BY DEF TypeOK, LoopsOK, Idle

LEMMA ConsumeOK ==
    ASSUME TypeOK, NEW l \in Loops, batch[l] # <<>>, Consume(l)
    PROVE  batch' \in [Loops -> Seq(Requests \cup Frames)]
<1>1. batch[l] \in Seq(Requests \cup Frames)
  BY DEF TypeOK
<1>2. Tail(batch[l]) \in Seq(Requests \cup Frames)
  BY <1>1, HeadTailProperties
<1> QED BY <1>2 DEF Consume, TypeOK

LEMMA StartCycleOK ==
    ASSUME TypeOK, NEW c \in Clients,
           NEW msgs \in Seq(Requests \cup Frames), StartCycle(c, msgs)
    PROVE  TypeOK'
<1>1. LoopOf[c] \in Loops /\ Len(msgs) \in Nat
  BY LoopAssumption
<1>2. reading' \in [Loops -> Clients \cup {NoOne}]
      /\ batch' \in [Loops -> Seq(Requests \cup Frames)]
  BY <1>1 DEF StartCycle, TypeOK
<1>3. sent' \in [Clients -> Nat]
  BY <1>1 DEF StartCycle, TypeOK
<1> QED BY <1>2, <1>3 DEF StartCycle, TypeOK

\* No step of the server leaves the types.
LEMMA TypeStep ==
    ASSUME TypeOK, LoopsOK, [Next]_vars
    PROVE  TypeOK'
<1> USE DEF loopVars, countVars
<1>1. CASE UNCHANGED vars
  BY <1>1 DEF TypeOK, vars
<1>2. ASSUME NEW c \in Clients, Accept(c) PROVE TypeOK'
  <2>1. chan' = [chan EXCEPT ![c].state = "open"] /\ group' = group \cup {c}
    BY <1>2 DEF Accept
  <2>2. chan[c] \in Channel
    BY DEF TypeOK
  <2>3. chan'[c] \in Channel /\ (CursorsOK(chan[c]) => CursorsOK(chan'[c]))
        /\ \A x \in Clients \ {c} : chan'[x] = chan[x]
    BY <2>1, <2>2 DEF TypeOK, Channel, CursorsOK
  <2>4. chan' \in [Clients -> Channel] /\ \A x \in Clients : CursorsOK(chan'[x])
    BY <2>1, <2>3 DEF TypeOK
  <2> QED BY <1>2, <2>1, <2>4 DEF Accept, TypeOK
<1>3. ASSUME NEW c \in Clients, ReadRequest(c) PROVE TypeOK'
  <2>1. PICK r \in Requests : StartCycle(c, <<r>>)
    BY <1>3 DEF ReadRequest
  <2>2. <<r>> \in Seq(Requests \cup Frames)
    OBVIOUS
  <2> QED BY <2>1, <2>2, StartCycleOK
<1>4. ASSUME NEW c \in Clients, ReadFrames(c) PROVE TypeOK'
  <2>0. PICK k \in 1 .. MaxBatch : \E fs \in [1 .. k -> Frames] : StartCycle(c, fs)
    BY <1>4 DEF ReadFrames
  <2>1. PICK fs \in [1 .. k -> Frames] : StartCycle(c, fs)
    BY <2>0
  <2>2. fs \in Seq(Requests \cup Frames)
    <3>1. k \in Nat
      BY BoundAssumption
    <3>2. fs \in [1 .. k -> Requests \cup Frames]
      OBVIOUS
    <3> QED BY <3>1, <3>2, SeqDef
  <2> QED BY <2>1, <2>2, StartCycleOK
<1>5. ASSUME NEW c \in Clients, PeerGone(c) PROVE TypeOK'
  <2>1. ChannelOK(Closed(chan[c]))
    BY ClosedOK DEF TypeOK, ChannelOK
  <2>2. Put(c, Closed(chan[c]))
    BY <1>5 DEF PeerGone
  <2> QED BY <1>5, <2>1, <2>2, PutOK DEF PeerGone, TypeOK
<1>6. ASSUME NEW c \in Clients, Drain(c) PROVE TypeOK'
  <2>1. PICK w \in chan[c].written + 1 .. chan[c].flushed : Put(c, Written(chan[c], w))
    BY <1>6 DEF Drain
  <2>2. ChannelOK(chan[c]) /\ w \in chan[c].written .. chan[c].flushed
    BY DEF TypeOK, ChannelOK, Channel
  <2>3. ChannelOK(Written(chan[c], w))
    BY <2>2, WrittenOK
  <2> QED BY <1>6, <2>1, <2>3, PutOK DEF Drain, TypeOK
<1>7. ASSUME NEW l \in Loops, NEW q, NEW p \in Responses, Answer(l, q, p) PROVE TypeOK'
  <2>1. reading[l] \in Clients /\ batch[l] # <<>>
    BY <1>7, ReadingClient DEF Answer, Handles
  <2>2. Control(p) \in Item /\ Reply(l, Control(p)) /\ Consume(l)
    BY <1>7, ItemTypes DEF Answer
  <2> QED BY <1>7, <2>1, <2>2, ReplyOK, ConsumeOK DEF Answer, TypeOK
<1>8. ASSUME NEW l \in Loops, CloseFrame(l) PROVE TypeOK'
  <2>1. reading[l] \in Clients /\ batch[l] # <<>>
    BY <1>8, ReadingClient DEF CloseFrame, Handles
  <2>2. Control("close") \in Item /\ Reply(l, Control("close")) /\ Consume(l)
    BY <1>8, ItemTypes DEF CloseFrame
  <2>3. raised' \in [Loops -> Frames \cup {NoFrame}]
    BY <1>8 DEF CloseFrame, TypeOK, ThrownAfterClose, Frames
  <2> QED BY <1>8, <2>1, <2>2, <2>3, ReplyOK, ConsumeOK DEF CloseFrame, TypeOK
<1>9. ASSUME NEW l \in Loops, Ping(l) PROVE TypeOK'
  <2>1. reading[l] \in Clients /\ batch[l] # <<>>
    BY <1>9, ReadingClient DEF Ping, Handles
  <2>2. Consume(l) /\ Put(reading[l], Write(chan[reading[l]], Control("pong")))
    BY <1>9 DEF Ping
  <2>3. ChannelOK(Write(chan[reading[l]], Control("pong")))
    BY <2>1, WriteOK, ItemTypes DEF TypeOK, ChannelOK
  <2> QED BY <1>9, <2>1, <2>2, <2>3, PutOK, ConsumeOK DEF Ping, TypeOK
<1>10. ASSUME NEW l \in Loops, Binary(l) PROVE TypeOK'
  <2>1. batch[l] # <<>> /\ Consume(l)
    BY <1>10 DEF Binary, Handles
  <2>2. raised' \in [Loops -> Frames \cup {NoFrame}]
    BY <1>10 DEF Binary, TypeOK, Frames
  <2> QED BY <1>10, <2>1, <2>2, ConsumeOK DEF Binary, TypeOK
<1>11. ASSUME NEW l \in Loops, ExceptionCaught(l) PROVE TypeOK'
  <2>1. reading[l] \in Clients
    BY <1>11, ReadingClient DEF ExceptionCaught
  <2>2. ChannelOK(Closed(chan[reading[l]]))
    BY <2>1, ClosedOK DEF TypeOK, ChannelOK
  <2>3. raised' \in [Loops -> Frames \cup {NoFrame}]
    BY <1>11 DEF ExceptionCaught, TypeOK
  <2> QED BY <1>11, <2>1, <2>2, <2>3, PutOK DEF ExceptionCaught, TypeOK
<1>12. ASSUME NEW l \in Loops, StartCast(l) PROVE TypeOK'
  <2>1. reading[l] \in Clients /\ batch[l] # <<>> /\ Consume(l)
    BY <1>12, ReadingClient DEF StartCast, Handles
  <2>2. batch' \in [Loops -> Seq(Requests \cup Frames)]
    BY <2>1, ConsumeOK
  <2>3. texts' \in [Clients -> Nat]
    BY <1>12, <2>1 DEF StartCast, TypeOK
  <2>4. todo' \in [Loops -> SUBSET Clients] /\ seen' \in [Loops -> SUBSET Clients]
        /\ casting' \in [Loops -> BOOLEAN]
    BY <1>12 DEF StartCast, TypeOK
  <2> QED BY <1>12, <2>2, <2>3, <2>4 DEF StartCast, TypeOK
<1>13. ASSUME NEW l \in Loops, NEW r \in Clients, CastTo(l, r) PROVE TypeOK'
  <2> DEFINE s == reading[l]
  <2>1. s \in Clients /\ texts[s] \in Nat /\ LoopOf[r] \in Loops
    BY <1>13, ReadingClient, LoopAssumption DEF CastTo, TypeOK
  <2>2. seen' \in [Loops -> SUBSET Clients]
    BY <1>13 DEF CastTo, TypeOK
  <2>3. CASE LoopOf[r] = l
    <3>1. PICK x \in FlushOutcomes(Write(chan[r], Text(s, texts[s]))) : Put(r, x)
      BY <1>13, <2>3 DEF CastTo, Deliver
    <3>2. ChannelOK(chan[r])
      BY DEF TypeOK, ChannelOK
    <3>3. ChannelOK(x)
      BY <2>1, <3>1, <3>2, ItemTypes, WriteFlushOK
    <3>4. queue' = queue
      BY <1>13, <2>3 DEF CastTo
    <3> QED BY <1>13, <2>2, <3>1, <3>3, <3>4, PutOK DEF CastTo, TypeOK
  <2>4. CASE LoopOf[r] # l
    <3> DEFINE t == [to |-> r, from |-> s, n |-> texts[s]]
    <3>1. t \in Task
      BY <2>1 DEF Task
    <3>2. queue' = [queue EXCEPT ![LoopOf[r]] = Append(@, t)]
      BY <1>13, <2>4 DEF CastTo
    <3>3. queue[LoopOf[r]] \in Seq(Task)
      BY <2>1 DEF TypeOK
    <3>4. Append(queue[LoopOf[r]], t) \in Seq(Task)
      BY <3>1, <3>3, AppendProperties
    <3>5. queue' \in [Loops -> Seq(Task)]
      BY <2>1, <3>2, <3>4 DEF TypeOK
    <3>6. UNCHANGED <<chan, group>>
      BY <1>13, <2>4 DEF CastTo
    <3> QED BY <1>13, <2>2, <3>5, <3>6 DEF CastTo, TypeOK
  <2> QED BY <2>3, <2>4
<1>14. ASSUME NEW l \in Loops, EndCast(l) PROVE TypeOK'
  BY <1>14 DEF EndCast, TypeOK
<1>15. ASSUME NEW l \in Loops, ReadComplete(l) PROVE TypeOK'
  <2>1. reading[l] \in Clients
    BY <1>15, ReadingClient DEF ReadComplete
  <2>2. PICK x \in FlushOutcomes(chan[reading[l]]) : Put(reading[l], x)
    BY <1>15 DEF ReadComplete
  <2>3. ChannelOK(x)
    BY <2>1, <2>2, FlushOK DEF TypeOK, ChannelOK
  <2>4. reading' \in [Loops -> Clients \cup {NoOne}]
    BY <1>15 DEF ReadComplete, TypeOK
  <2> QED BY <1>15, <2>1, <2>2, <2>3, <2>4, PutOK DEF ReadComplete, TypeOK
<1>16. ASSUME NEW l \in Loops, RunTask(l) PROVE TypeOK'
  <2> DEFINE t == Head(queue[l])
  <2>1. queue[l] \in Seq(Task) /\ queue[l] # <<>>
    BY <1>16 DEF RunTask, TypeOK
  <2>2. t \in Task /\ Tail(queue[l]) \in Seq(Task)
    BY <2>1, HeadTailProperties
  <2>3. t.to \in Clients /\ Text(t.from, t.n) \in Item /\ ChannelOK(chan[t.to])
    BY <2>2, ItemTypes DEF Task, TypeOK, ChannelOK
  <2>4. PICK x \in FlushOutcomes(Write(chan[t.to], Text(t.from, t.n))) : Put(t.to, x)
    BY <1>16 DEF RunTask, Deliver
  <2>5. ChannelOK(x)
    BY <2>3, <2>4, WriteFlushOK
  <2>6. queue' \in [Loops -> Seq(Task)]
    BY <1>16, <2>2 DEF RunTask, TypeOK
  <2> QED BY <1>16, <2>3, <2>4, <2>5, <2>6, PutOK DEF RunTask, TypeOK
<1>17. ASSUME NEW l \in Loops, BadRequest(l) \/ OldVersion(l) \/ Handshake(l) PROVE TypeOK'
  BY <1>7, <1>17 DEF BadRequest, OldVersion, Handshake, Responses
<1> QED
  BY <1>1, <1>2, <1>3, <1>4, <1>5, <1>6, <1>8, <1>9, <1>10, <1>11, <1>12, <1>13,
     <1>14, <1>15, <1>16, <1>17 DEF Next, Peer, Handle

\* A loop stays with the channel of its cycle until the cycle is complete.
LEMMA LoopsStep ==
    ASSUME TypeOK, LoopsOK, [Next]_vars
    PROVE  LoopsOK'
<1> USE DEF LoopsOK, Idle, loopVars, countVars
<1>1. CASE UNCHANGED vars
  BY <1>1 DEF vars
<1>2. ASSUME NEW c \in Clients, Accept(c) \/ PeerGone(c) \/ Drain(c) PROVE LoopsOK'
  BY <1>2 DEF Accept, PeerGone, Drain
<1>3. ASSUME NEW c \in Clients, NEW msgs, StartCycle(c, msgs) PROVE LoopsOK'
  <2>1. LoopOf[c] \in Loops /\ reading \in [Loops -> Clients \cup {NoOne}]
    BY LoopAssumption DEF TypeOK
  <2>2. ~casting[LoopOf[c]] /\ raised[LoopOf[c]] = NoFrame
    BY <1>3, <2>1 DEF StartCycle
  <2>3. /\ reading' = [reading EXCEPT ![LoopOf[c]] = c]
        /\ casting' = casting /\ raised' = raised
    BY <1>3 DEF StartCycle
  <2> QED BY <2>1, <2>2, <2>3, NoOneAssumption
<1>4. ASSUME NEW c \in Clients, ReadRequest(c) \/ ReadFrames(c) PROVE LoopsOK'
  BY <1>3, <1>4 DEF ReadRequest, ReadFrames
<1>5. ASSUME NEW l \in Loops,
             BadRequest(l) \/ OldVersion(l) \/ Handshake(l) \/ Ping(l) \/ RunTask(l)
      PROVE  LoopsOK'
  BY <1>5 DEF BadRequest, OldVersion, Handshake, Answer, Ping, RunTask
<1>6. ASSUME NEW l \in Loops, CloseFrame(l) \/ Binary(l) \/ ExceptionCaught(l)
      PROVE  LoopsOK'
  <2>1. raised \in [Loops -> Frames \cup {NoFrame}]
    BY DEF TypeOK
  <2>2. /\ reading' = reading /\ casting' = casting
        /\ \E k : raised' = [raised EXCEPT ![l] = k]
    BY <1>6 DEF CloseFrame, Binary, ExceptionCaught
  <2>3. ~Idle(l)
    BY <1>6 DEF CloseFrame, Binary, ExceptionCaught, Handles
  <2> QED BY <2>1, <2>2, <2>3
<1>7. ASSUME NEW l \in Loops, StartCast(l) \/ EndCast(l) PROVE LoopsOK'
  <2>1. casting \in [Loops -> BOOLEAN]
    BY DEF TypeOK
  <2>2. /\ reading' = reading /\ raised' = raised
        /\ \E b \in BOOLEAN : casting' = [casting EXCEPT ![l] = b]
    BY <1>7 DEF StartCast, EndCast
  <2>3. ~Idle(l)
    BY <1>7 DEF StartCast, EndCast, Handles
  <2> QED BY <2>1, <2>2, <2>3
<1>8. ASSUME NEW l \in Loops, NEW r \in Clients, CastTo(l, r) PROVE LoopsOK'
  BY <1>8 DEF CastTo
<1>9. ASSUME NEW l \in Loops, ReadComplete(l) PROVE LoopsOK'
  <2>1. /\ reading' = [reading EXCEPT ![l] = NoOne]
        /\ casting' = casting /\ raised' = raised
        /\ ~casting[l] /\ raised[l] = NoFrame
    BY <1>9 DEF ReadComplete
  <2> QED BY <2>1 DEF TypeOK
<1> QED
  BY <1>1, <1>2, <1>4, <1>5, <1>6, <1>7, <1>8, <1>9 DEF Next, Peer, Handle

-----------------------------------------------------------------------------
(* The order of texts *)

\* Appending m to a log adds the one text that m is, if it is one.
LEMMA TextsAfter ==
    ASSUME NEW log \in Seq(Item), NEW m \in Item, NEW f
    PROVE  TextsIn(Append(log, m), f) =
             TextsIn(log, f) \cup {k \in {Len(log) + 1} : IsText(m) /\ m.from = f}
<1> DEFINE new == Append(log, m)
<1>1. /\ Len(new) = Len(log) + 1
      /\ new \in Seq(Item)
      /\ \A j \in 1 .. Len(log) : new[j] = log[j]
      /\ new[Len(log) + 1] = m
  BY AppendProperties
<1>2. /\ DOMAIN new = 1 .. Len(log) + 1
      /\ DOMAIN log = 1 .. Len(log) /\ Len(log) \in Nat
  BY <1>1, LenProperties
<1> HIDE DEF new
<1>3. TextsIn(new, f) =
        TextsIn(log, f) \cup {k \in {Len(log) + 1} : IsText(m) /\ m.from = f}
  BY <1>1, <1>2 DEF TextsIn
<1> QED BY <1>3 DEF new

LEMMA OutType ==
    ASSUME TypeOK, NEW r \in Clients
    PROVE  chan[r].out \in Seq(Item) /\ Len(chan[r].out) \in Nat
BY LenProperties DEF TypeOK, Channel

\* The types of the numbers the order invariants compare.
LEMMA TextNumbers ==
    ASSUME TypeOK, NEW r \in Clients, NEW s \in Clients, NEW i \in TextsOf(r, s)
    PROVE  /\ i \in 1 .. Len(chan[r].out) /\ i \in Nat /\ Len(chan[r].out) \in Nat
           /\ chan[r].out[i].n \in Nat
<1>1. chan[r].out \in Seq(Item)
  BY DEF TypeOK, Channel
<1>2. i \in 1 .. Len(chan[r].out) /\ Len(chan[r].out) \in Nat
  BY <1>1, LenProperties DEF TextsOf, TextsIn
<1>3. chan[r].out[i] \in Item
  BY <1>1, <1>2, ElementOfSeq
<1> QED BY <1>2, <1>3, ItemFields

LEMMA QueuedTask ==
    ASSUME TypeOK, NEW l \in Loops, NEW k \in DOMAIN queue[l]
    PROVE  /\ queue[l][k] \in Task
           /\ queue[l][k].to \in Clients /\ queue[l][k].from \in Clients
           /\ queue[l][k].n \in Nat
<1>1. queue[l] \in Seq(Task)
  BY DEF TypeOK
<1>2. queue[l][k] \in Task
  BY <1>1, ElementOfSeq, LenProperties
<1> QED BY <1>2 DEF Task

\* What OrderInv says beyond LoopsOK.
Order == OutGiven /\ QueueGiven /\ SenderOrder /\ QueueOrder /\ OutBeforeQueue

\* A step that accepts no text, submits no task and starts no broadcast.
LEMMA QuietStep ==
    ASSUME TypeOK, OrderInv, queue' = queue, texts' = texts,
           \A r \in Clients :
              \/ chan'[r].out = chan[r].out
              \/ \E m \in Item : /\ ~IsText(m)
                                 /\ chan'[r].out = Append(chan[r].out, m),
           \A s, r \in Clients :
              Casting(s)' /\ r \notin seen'[LoopOf[s]]
                 => Casting(s) /\ r \notin seen[LoopOf[s]]
    PROVE  Order'
<1>1. ASSUME NEW r \in Clients, NEW s \in Clients, NEW i \in TextsOf(r, s)'
      PROVE  i \in TextsOf(r, s) /\ chan'[r].out[i] = chan[r].out[i]
  <2>1. CASE chan'[r].out = chan[r].out
    BY <2>1 DEF TextsOf
  <2>2. CASE \E m \in Item : ~IsText(m) /\ chan'[r].out = Append(chan[r].out, m)
    <3>1. PICK m \in Item : ~IsText(m) /\ chan'[r].out = Append(chan[r].out, m)
      BY <2>2
    <3>2. i \in TextsIn(chan'[r].out, s)
      BY DEF TextsOf
    <3>3. chan[r].out \in Seq(Item)
      BY OutType
    <3>4. TextsIn(chan'[r].out, s) = TextsIn(chan[r].out, s) \cup
            {k \in {Len(chan[r].out) + 1} : IsText(m) /\ m.from = s}
      BY <3>1, <3>3, TextsAfter
    <3>5. \A k \in 1 .. Len(chan[r].out) : chan'[r].out[k] = chan[r].out[k]
      BY <3>1, <3>3, AppendProperties
    <3>6. TextsIn(chan[r].out, s) \subseteq 1 .. Len(chan[r].out)
      BY <3>3, LenProperties DEF TextsIn
    <3> QED BY <3>1, <3>2, <3>4, <3>5, <3>6 DEF TextsOf
  <2> QED BY <2>1, <2>2
<1>2. \A r, s \in Clients : \A n : Given(r, s, n) => Given(r, s, n)'
  BY DEF Given
<1>3. OutGiven'
  BY <1>1, <1>2 DEF OrderInv, OutGiven
<1>4. QueueGiven'
  BY <1>2, QueuedTask DEF OrderInv, QueueGiven
<1>5. SenderOrder'
  BY <1>1 DEF OrderInv, SenderOrder
<1>6. QueueOrder'
  BY DEF OrderInv, QueueOrder
<1>7. OutBeforeQueue'
  <2> SUFFICES ASSUME NEW l \in Loops, NEW k \in DOMAIN queue[l],
                      NEW i \in TextsOf(queue[l][k].to, queue[l][k].from)'
               PROVE  chan'[queue[l][k].to].out[i].n < queue[l][k].n
    BY DEF OutBeforeQueue
  <2> QED BY <1>1, QueuedTask DEF OrderInv, OutBeforeQueue
<1> QED BY <1>3, <1>4, <1>5, <1>6, <1>7 DEF Order

\* The steps that replace one channel without a text, start no broadcast, and
\* leave every loop with the broadcast it was in.
LEMMA QuietPut ==
    ASSUME TypeOK, OrderInv, queue' = queue, texts' = texts,
           NEW c \in Clients, NEW m \in Item, ~IsText(m), NEW x,
           x.out = chan[c].out \/ x.out = Write(chan[c], m).out,
           Put(c, x),
           casting' = casting, seen' = seen,
           \A l \in Loops : casting[l] => reading'[l] = reading[l]
    PROVE  Order'
<1>1. chan' = [chan EXCEPT ![c] = x] /\ chan \in [Clients -> Channel]
  BY DEF Put, TypeOK
<1>2. chan[c].out \in Seq(Item)
  BY DEF TypeOK, Channel
<1>3. Write(chan[c], m).out = chan[c].out \/ Write(chan[c], m).out = Append(chan[c].out, m)
  BY <1>1 DEF Write, Channel
<1>4. \A r \in Clients :
         \/ chan'[r].out = chan[r].out
         \/ \E y \in Item : ~IsText(y) /\ chan'[r].out = Append(chan[r].out, y)
  BY <1>1, <1>3
<1>5. \A s \in Clients : Casting(s)' => Casting(s)
  BY LoopAssumption DEF Casting
<1> QED BY <1>4, <1>5, QuietStep

\* A broadcast begins: its text is newer than all that was given to anyone.
LEMMA StartCastStep ==
    ASSUME TypeOK, OrderInv, NEW l \in Loops, StartCast(l)
    PROVE  Order'
<1> DEFINE s == reading[l]
<1>1. s \in Clients /\ LoopOf[s] = l
  BY ReadingClient DEF OrderInv, StartCast, Handles
<1>2. /\ chan' = chan /\ queue' = queue /\ reading' = reading
      /\ texts' = [texts EXCEPT ![s] = @ + 1] /\ texts \in [Clients -> Nat]
      /\ casting' = [casting EXCEPT ![l] = TRUE] /\ seen' = [seen EXCEPT ![l] = {}]
  BY DEF StartCast, TypeOK
<1>3. ASSUME NEW r \in Clients, NEW q \in Clients, NEW n \in Nat, Given(r, q, n)
      PROVE  Given(r, q, n)'
  <2>1. CASE q = s
    BY <1>1, <1>2, <1>3, <2>1 DEF Given
  <2>2. CASE q # s
    <3>1. texts'[q] = texts[q]
      BY <1>2, <2>2
    <3>2. Casting(q)' => Casting(q) /\ LoopOf[q] # l
      BY <1>1, <1>2, <2>2 DEF Casting, TypeOK
    <3> QED BY <1>2, <1>3, <3>1, <3>2 DEF Given
  <2> QED BY <2>1, <2>2
<1>4. \A r, q \in Clients : TextsOf(r, q)' = TextsOf(r, q)
  BY <1>2 DEF TextsOf
<1>5. OutGiven'
  BY <1>2, <1>3, <1>4, TextNumbers DEF OrderInv, OutGiven
<1>6. QueueGiven'
  BY <1>2, <1>3, QueuedTask DEF OrderInv, QueueGiven
<1>7. SenderOrder' /\ QueueOrder'
  BY <1>2, <1>4 DEF OrderInv, SenderOrder, QueueOrder
<1>8. OutBeforeQueue'
  BY <1>2, <1>4, QueuedTask DEF OrderInv, OutBeforeQueue
<1> QED BY <1>5, <1>6, <1>7, <1>8 DEF Order

\* Coming to r retires the newest text for r, and for no one else.
LEMMA SeenGiven ==
    ASSUME TypeOK, NEW l \in Loops, NEW r \in Clients, CastTo(l, r),
           NEW q \in Clients, NEW p \in Clients, NEW n, Given(q, p, n)
    PROVE  Given(q, p, n)'
<1>1. /\ texts' = texts /\ casting' = casting /\ reading' = reading
      /\ \A x \in Loops : seen[x] \subseteq seen'[x]
  BY DEF CastTo, TypeOK, countVars
<1>2. LoopOf[p] \in Loops
  BY LoopAssumption
<1> QED BY <1>1, <1>2 DEF Given, Casting

\* The text goes straight to a channel of the same loop.
LEMMA CastDirect ==
    ASSUME TypeOK, OrderInv, NEW l \in Loops, NEW r \in Clients,
           CastTo(l, r), LoopOf[r] = l
    PROVE  Order'
<1> DEFINE s == reading[l]
           msg == Text(s, texts[s])
<1>1. s \in Clients /\ LoopOf[s] = l /\ Casting(s) /\ r \notin seen[l]
  BY ReadingClient DEF OrderInv, CastTo, Casting, MayReturn
<1>2. msg \in Item /\ msg.kind = "text" /\ msg.from = s /\ msg.n = texts[s] /\ texts[s] \in Nat
  BY <1>1, ItemTypes DEF Text, TypeOK
<1>3. PICK x \in FlushOutcomes(Write(chan[r], msg)) : Put(r, x)
  BY DEF CastTo, Deliver
<1>4. x.out = Write(chan[r], msg).out
  BY <1>2, <1>3, WriteFlushOK DEF TypeOK, ChannelOK
<1>5. /\ chan' = [chan EXCEPT ![r] = x] /\ queue' = queue /\ texts' = texts
      /\ casting' = casting /\ reading' = reading
      /\ seen' = [seen EXCEPT ![l] = @ \cup {r}]
  BY <1>3 DEF Put, CastTo, countVars
<1>6. \/ chan'[r].out = chan[r].out
      \/ chan'[r].out = Append(chan[r].out, msg)
  BY <1>4, <1>5 DEF Write, TypeOK, Channel
<1>7. \A q \in Clients \ {r} : chan'[q] = chan[q]
  BY <1>5 DEF TypeOK
<1> HIDE DEF msg
<1>8. ASSUME NEW q \in Clients, NEW p \in Clients, NEW i \in TextsOf(q, p)'
      PROVE  \/ i \in TextsOf(q, p) /\ chan'[q].out[i] = chan[q].out[i]
             \/ /\ q = r /\ p = s
                /\ i = Len(chan[q].out) + 1 /\ chan'[q].out[i].n = texts[s]
  <2>1. CASE chan'[q].out = chan[q].out
    BY <2>1 DEF TextsOf
  <2>2. CASE q = r /\ chan'[r].out = Append(chan[r].out, msg)
    <3>1. i \in TextsIn(chan'[r].out, p)
      BY <2>2 DEF TextsOf
    <3>2. chan[r].out \in Seq(Item)
      BY OutType
    <3>3. chan'[r].out = Append(chan[r].out, msg) /\ msg \in Item
      BY <1>2, <2>2
    <3>4. TextsIn(chan'[r].out, p) = TextsIn(chan[r].out, p) \cup
            {k \in {Len(chan[r].out) + 1} : IsText(msg) /\ msg.from = p}
      BY <3>2, <3>3, TextsAfter
    <3>5. /\ \A k \in 1 .. Len(chan[r].out) : chan'[r].out[k] = chan[r].out[k]
          /\ chan'[r].out[Len(chan[r].out) + 1] = msg
      BY <3>2, <3>3, AppendProperties
    <3>6. TextsIn(chan[r].out, p) \subseteq 1 .. Len(chan[r].out)
      BY <3>2, LenProperties DEF TextsIn
    <3> QED BY <1>2, <2>2, <3>1, <3>4, <3>5, <3>6 DEF TextsOf
  <2> QED BY <1>6, <1>7, <2>1, <2>2
<1>9. \A i \in TextsOf(r, s) : chan[r].out[i].n < texts[s]
  BY <1>1 DEF OrderInv, OutGiven, Given
<1>10. Given(r, s, texts[s])'
  BY <1>1, <1>2, <1>5 DEF Given, TypeOK
<1>11. OutGiven'
  <2> SUFFICES ASSUME NEW q \in Clients, NEW p \in Clients, NEW i \in TextsOf(q, p)'
               PROVE  Given(q, p, chan[q].out[i].n)'
    BY DEF OutGiven
  <2>1. CASE i \in TextsOf(q, p) /\ chan'[q].out[i] = chan[q].out[i]
    <3>1. Given(q, p, chan[q].out[i].n)
      BY <2>1 DEF OrderInv, OutGiven
    <3>2. \A n : Given(q, p, n) => Given(q, p, n)'
      BY SeenGiven
    <3> QED BY <2>1, <3>1, <3>2
  <2>2. CASE q = r /\ p = s /\ chan'[q].out[i].n = texts[s]
    BY <1>5, <1>10, <2>2
  <2> QED BY <1>8, <2>1, <2>2
<1>12. QueueGiven'
  BY <1>5, SeenGiven, QueuedTask DEF OrderInv, QueueGiven
<1>13. SenderOrder'
  <2> SUFFICES ASSUME NEW q \in Clients, NEW p \in Clients,
                      NEW i \in TextsOf(q, p)', NEW j \in TextsOf(q, p)', i < j
               PROVE  chan'[q].out[i].n < chan'[q].out[j].n
    BY DEF SenderOrder
  <2>1. CASE i \in TextsOf(q, p) /\ j \in TextsOf(q, p)
    BY SMTT(30), <1>8, <2>1, TextNumbers DEF OrderInv, SenderOrder
  <2>2. CASE i \in TextsOf(q, p) /\ j \notin TextsOf(q, p)
    BY <1>8, <1>9, <2>2, TextNumbers
  <2>3. CASE i \notin TextsOf(q, p)
    <3>1. i = Len(chan[q].out) + 1 /\ Len(chan[q].out) \in Nat
      BY <1>8, <2>3, LenProperties DEF TypeOK, Channel
    <3>2. j \in 1 .. Len(chan[q].out) \/ j = Len(chan[q].out) + 1
      BY <1>8, TextNumbers
    <3> QED BY <3>1, <3>2
  <2> QED BY <2>1, <2>2, <2>3
<1>14. QueueOrder'
  BY <1>5 DEF OrderInv, QueueOrder
<1>15. OutBeforeQueue'
  <2> SUFFICES ASSUME NEW k \in Loops, NEW j \in DOMAIN queue[k],
                      NEW i \in TextsOf(queue[k][j].to, queue[k][j].from)'
               PROVE  chan'[queue[k][j].to].out[i].n < queue[k][j].n
    BY <1>5 DEF OutBeforeQueue
  <2>1. LoopOf[queue[k][j].to] = k /\ LoopOf[queue[k][j].from] # k
    BY DEF OrderInv, QueueGiven
  <2>2. queue[k][j].to # r \/ queue[k][j].from # s
    BY <1>1, <2>1
  <2>3. queue[k][j].to \in Clients /\ queue[k][j].from \in Clients
    BY QueuedTask
  <2>4. i \in TextsOf(queue[k][j].to, queue[k][j].from)
        /\ chan'[queue[k][j].to].out[i] = chan[queue[k][j].to].out[i]
    BY <1>5, <1>8, <2>2, <2>3 DEF TextsOf
  <2> QED BY <2>4 DEF OrderInv, OutBeforeQueue
<1> QED BY <1>11, <1>12, <1>13, <1>14, <1>15 DEF Order

\* The text becomes the youngest task of another loop.
LEMMA CastTask ==
    ASSUME TypeOK, OrderInv, NEW l \in Loops, NEW r \in Clients,
           CastTo(l, r), LoopOf[r] # l
    PROVE  Order'
<1> DEFINE s == reading[l]
           t == [to |-> r, from |-> s, n |-> texts[s]]
           h == LoopOf[r]
<1>1. s \in Clients /\ LoopOf[s] = l /\ Casting(s) /\ r \notin seen[l]
  BY ReadingClient DEF OrderInv, CastTo, Casting, MayReturn
<1>2. h \in Loops /\ texts[s] \in Nat /\ queue \in [Loops -> Seq(Task)] /\ t \in Task
  BY <1>1, LoopAssumption DEF TypeOK, Task
<1>3. /\ chan' = chan /\ texts' = texts /\ casting' = casting /\ reading' = reading
      /\ queue' = [queue EXCEPT ![h] = Append(@, t)]
      /\ seen' = [seen EXCEPT ![l] = @ \cup {r}]
  BY DEF CastTo, countVars
<1>4. /\ \A k \in Loops \ {h} : queue'[k] = queue[k]
      /\ queue'[h] = Append(queue[h], t)
  BY <1>2, <1>3
<1>5. queue[h] \in Seq(Task) /\ Len(queue[h]) \in Nat
      /\ DOMAIN queue[h] = 1 .. Len(queue[h])
  BY <1>2, LenProperties
<1> HIDE DEF t
<1>6. /\ DOMAIN queue'[h] = 1 .. Len(queue[h]) + 1
      /\ \A k \in DOMAIN queue[h] : queue'[h][k] = queue[h][k]
      /\ queue'[h][Len(queue[h]) + 1] = t
  <2>1. /\ queue'[h] \in Seq(Task) /\ Len(queue'[h]) = Len(queue[h]) + 1
        /\ \A k \in 1 .. Len(queue[h]) : queue'[h][k] = queue[h][k]
        /\ queue'[h][Len(queue[h]) + 1] = t
    BY <1>2, <1>4, <1>5, AppendProperties
  <2> QED BY <1>5, <2>1, LenProperties
<1>7. ASSUME NEW k \in Loops, NEW j \in DOMAIN queue'[k]
      PROVE  \/ j \in DOMAIN queue[k] /\ queue'[k][j] = queue[k][j]
             \/ k = h /\ j = Len(queue[h]) + 1 /\ queue'[k][j] = t
  BY SMTT(30), <1>4, <1>5, <1>6
<1>8. t.to = r /\ t.from = s /\ t.n = texts[s]
  BY DEF t
<1>9. \A q, p \in Clients : TextsOf(q, p)' = TextsOf(q, p)
  BY <1>3 DEF TextsOf
<1>10. OutGiven'
  <2> SUFFICES ASSUME NEW q \in Clients, NEW p \in Clients, NEW i \in TextsOf(q, p)
               PROVE  Given(q, p, chan[q].out[i].n)'
    BY <1>9 DEF OutGiven
  <2>1. \A n : Given(q, p, n) => Given(q, p, n)'
    BY SeenGiven
  <2> QED BY <1>3, <2>1 DEF OrderInv, OutGiven
<1>11. QueueGiven'
  <2> SUFFICES ASSUME NEW k \in Loops, NEW j \in DOMAIN queue'[k]
               PROVE  /\ LoopOf[queue'[k][j].to] = k /\ LoopOf[queue'[k][j].from] # k
                      /\ Given(queue[k][j].to, queue[k][j].from, queue[k][j].n)'
    BY DEF QueueGiven
  <2>1. CASE j \in DOMAIN queue[k] /\ queue'[k][j] = queue[k][j]
    <3>1. /\ LoopOf[queue[k][j].to] = k /\ LoopOf[queue[k][j].from] # k
          /\ Given(queue[k][j].to, queue[k][j].from, queue[k][j].n)
      BY <2>1 DEF OrderInv, QueueGiven
    <3>2. \A q, p \in Clients : \A n : Given(q, p, n) => Given(q, p, n)'
      BY SeenGiven
    <3>3. queue[k][j].to \in Clients /\ queue[k][j].from \in Clients
      BY <2>1, QueuedTask
    <3> QED BY <2>1, <3>1, <3>2, <3>3
  <2>2. CASE k = h /\ queue'[k][j] = t
    <3>1. Given(r, s, texts[s])'
      BY <1>1, <1>2, <1>3 DEF Given, TypeOK
    <3> QED BY <1>1, <1>3, <1>8, <2>2, <3>1
  <2> QED BY <1>7, <2>1, <2>2
<1>12. SenderOrder'
  BY <1>3, <1>9 DEF OrderInv, SenderOrder
<1>13. QueueOrder'
  <2> SUFFICES ASSUME NEW k \in Loops, NEW i \in DOMAIN queue'[k], NEW j \in DOMAIN queue'[k],
                      i < j, queue'[k][i].to = queue'[k][j].to,
                      queue'[k][i].from = queue'[k][j].from
               PROVE  queue'[k][i].n < queue'[k][j].n
    BY DEF QueueOrder
  <2>1. CASE k # h
    BY <1>4, <2>1 DEF OrderInv, QueueOrder
  <2>2. CASE k = h /\ j \in DOMAIN queue[h]
    <3>1. i \in DOMAIN queue[h]
      BY <1>5, <1>6, <2>2
    <3> QED BY <1>6, <2>2, <3>1 DEF OrderInv, QueueOrder
  <2>3. CASE k = h /\ j = Len(queue[h]) + 1
    <3>1. i \in DOMAIN queue[h]
      BY <1>5, <1>6, <2>3
    <3>2. queue[h][i].to = r /\ queue[h][i].from = s
      BY <1>6, <1>8, <2>3, <3>1
    <3>3. Given(r, s, queue[h][i].n)
      BY <1>2, <3>1, <3>2 DEF OrderInv, QueueGiven
    <3> QED BY <1>1, <1>6, <1>8, <2>3, <3>1, <3>3 DEF Given
  <2> QED BY <1>5, <1>6, <2>1, <2>2, <2>3
<1>14. OutBeforeQueue'
  <2> SUFFICES ASSUME NEW k \in Loops, NEW j \in DOMAIN queue'[k],
                      NEW i \in TextsIn(chan[queue'[k][j].to].out, queue'[k][j].from)
               PROVE  chan[queue'[k][j].to].out[i].n < queue'[k][j].n
    BY <1>3 DEF OutBeforeQueue, TextsOf
  <2>1. CASE j \in DOMAIN queue[k] /\ queue'[k][j] = queue[k][j]
    BY <2>1 DEF OrderInv, OutBeforeQueue, TextsOf
  <2>2. CASE queue'[k][j] = t
    <3>1. i \in TextsOf(r, s)
      BY <1>8, <2>2 DEF TextsOf
    <3>2. Given(r, s, chan[r].out[i].n)
      BY <1>1, <3>1 DEF OrderInv, OutGiven
    <3> QED BY <1>1, <1>8, <2>2, <3>2 DEF Given
  <2> QED BY <1>7, <2>1, <2>2
<1> QED BY <1>10, <1>11, <1>12, <1>13, <1>14 DEF Order

\* A task reaches its channel: it is older than every task still queued for
\* that channel by the same sender, and younger than what was given directly.
LEMMA RunTaskStep ==
    ASSUME TypeOK, OrderInv, NEW l \in Loops, RunTask(l)
    PROVE  Order'
<1> DEFINE t == Head(queue[l])
           msg == Text(t.from, t.n)
<1>1. queue[l] \in Seq(Task) /\ queue[l] # <<>> /\ Len(queue[l]) \in Nat
      /\ DOMAIN queue[l] = 1 .. Len(queue[l])
  BY LenProperties DEF RunTask, TypeOK
<1>2. 1 \in DOMAIN queue[l] /\ t = queue[l][1]
  BY <1>1, HeadTailProperties, EmptySeq
<1>3. t.to \in Clients /\ t.from \in Clients /\ t.n \in Nat
  BY <1>2, QueuedTask
<1>4. msg \in Item /\ IsText(msg) /\ msg.from = t.from /\ msg.n = t.n
  BY <1>3, ItemTypes DEF Text, IsText
<1>5. PICK x \in FlushOutcomes(Write(chan[t.to], msg)) : Put(t.to, x)
  BY DEF RunTask, Deliver
<1>6. x.out = Write(chan[t.to], msg).out
  BY <1>3, <1>4, <1>5, WriteFlushOK DEF TypeOK, ChannelOK
<1>7. /\ chan' = [chan EXCEPT ![t.to] = x] /\ texts' = texts /\ casting' = casting
      /\ reading' = reading /\ seen' = seen
      /\ queue' = [queue EXCEPT ![l] = Tail(@)]
  BY <1>5 DEF Put, RunTask, loopVars, countVars
<1>8. /\ DOMAIN queue'[l] = 1 .. Len(queue[l]) - 1
      /\ \A k \in DOMAIN queue'[l] : k + 1 \in DOMAIN queue[l]
                                     /\ queue'[l][k] = queue[l][k + 1]
      /\ \A k \in Loops \ {l} : queue'[k] = queue[k]
  <2>1. queue'[l] = Tail(queue[l]) /\ \A k \in Loops \ {l} : queue'[k] = queue[k]
    BY <1>7 DEF TypeOK
  <2>2. /\ Tail(queue[l]) \in Seq(Task) /\ Len(Tail(queue[l])) = Len(queue[l]) - 1
        /\ \A k \in 1 .. Len(Tail(queue[l])) : Tail(queue[l])[k] = queue[l][k + 1]
    BY <1>1, HeadTailProperties
  <2>3. DOMAIN Tail(queue[l]) = 1 .. Len(queue[l]) - 1
    BY <2>2, LenProperties
  <2> QED BY <1>1, <2>1, <2>2, <2>3
<1>9. chan'[t.to].out = chan[t.to].out \/ chan'[t.to].out = Append(chan[t.to].out, msg)
  BY <1>3, <1>6, <1>7 DEF Write, TypeOK, Channel
<1>10. \A q \in Clients \ {t.to} : chan'[q] = chan[q]
  BY <1>7 DEF TypeOK
<1> HIDE DEF t, msg
<1>11. ASSUME NEW q \in Clients, NEW p \in Clients, NEW i \in TextsOf(q, p)'
       PROVE  \/ i \in TextsOf(q, p) /\ chan'[q].out[i] = chan[q].out[i]
              \/ /\ q = t.to /\ p = t.from
                 /\ i = Len(chan[q].out) + 1 /\ chan'[q].out[i].n = t.n
  <2>1. CASE chan'[q].out = chan[q].out
    BY <2>1 DEF TextsOf
  <2>2. CASE q = t.to /\ chan'[q].out = Append(chan[q].out, msg)
    <3>1. i \in TextsIn(chan'[q].out, p)
      BY DEF TextsOf
    <3>2. chan[q].out \in Seq(Item)
      BY OutType
    <3>3. chan'[q].out = Append(chan[q].out, msg) /\ msg \in Item
      BY <1>4, <2>2
    <3>4. TextsIn(chan'[q].out, p) = TextsIn(chan[q].out, p) \cup
            {k \in {Len(chan[q].out) + 1} : IsText(msg) /\ msg.from = p}
      BY <3>2, <3>3, TextsAfter
    <3>5. /\ \A k \in 1 .. Len(chan[q].out) : chan'[q].out[k] = chan[q].out[k]
          /\ chan'[q].out[Len(chan[q].out) + 1] = msg
      BY <3>2, <3>3, AppendProperties
    <3>6. TextsIn(chan[q].out, p) \subseteq 1 .. Len(chan[q].out)
      BY <3>2, LenProperties DEF TextsIn
    <3> QED BY <1>4, <2>2, <3>1, <3>4, <3>5, <3>6 DEF TextsOf
  <2> QED BY <1>9, <1>10, <2>1, <2>2
<1>12. \A i \in TextsOf(t.to, t.from) : chan[t.to].out[i].n < t.n
  BY <1>2 DEF OrderInv, OutBeforeQueue
<1>13. \A r, s \in Clients : \A n : Given(r, s, n) => Given(r, s, n)'
  BY <1>7 DEF Given, Casting
<1>14. Given(t.to, t.from, t.n) /\ LoopOf[t.to] = l
  BY <1>2 DEF OrderInv, QueueGiven
<1>15. OutGiven'
  <2> SUFFICES ASSUME NEW q \in Clients, NEW p \in Clients, NEW i \in TextsOf(q, p)'
               PROVE  Given(q, p, chan[q].out[i].n)'
    BY DEF OutGiven
  <2>1. CASE i \in TextsOf(q, p) /\ chan'[q].out[i] = chan[q].out[i]
    <3>1. Given(q, p, chan[q].out[i].n)
      BY <2>1 DEF OrderInv, OutGiven
    <3> QED BY <1>13, <2>1, <3>1
  <2>2. CASE q = t.to /\ p = t.from /\ chan'[q].out[i].n = t.n
    <3>1. Given(q, p, t.n)
      BY <1>14, <2>2
    <3> QED BY <1>7, <2>2, <3>1 DEF Given, Casting
  <2> QED BY <1>11, <2>1, <2>2
<1>16. ASSUME NEW k \in Loops, NEW j \in DOMAIN queue'[k]
       PROVE  \/ k # l /\ j \in DOMAIN queue[k] /\ queue'[k][j] = queue[k][j]
              \/ k = l /\ j + 1 \in DOMAIN queue[l] /\ queue'[k][j] = queue[l][j + 1]
  BY <1>8
<1>17. QueueGiven'
  <2> SUFFICES ASSUME NEW k \in Loops, NEW j \in DOMAIN queue'[k]
               PROVE  /\ LoopOf[queue'[k][j].to] = k /\ LoopOf[queue'[k][j].from] # k
                      /\ Given(queue[k][j].to, queue[k][j].from, queue[k][j].n)'
    BY DEF QueueGiven
  <2>1. PICK i \in DOMAIN queue[k] : queue'[k][j] = queue[k][i]
    BY <1>16
  <2>2. /\ LoopOf[queue[k][i].to] = k /\ LoopOf[queue[k][i].from] # k
        /\ Given(queue[k][i].to, queue[k][i].from, queue[k][i].n)
    BY DEF OrderInv, QueueGiven
  <2>3. queue[k][i].to \in Clients /\ queue[k][i].from \in Clients
    BY QueuedTask
  <2> QED BY <1>7, <2>1, <2>2, <2>3 DEF Given, Casting
<1>18. SenderOrder'
  <2> SUFFICES ASSUME NEW q \in Clients, NEW p \in Clients,
                      NEW i \in TextsOf(q, p)', NEW j \in TextsOf(q, p)', i < j
               PROVE  chan'[q].out[i].n < chan'[q].out[j].n
    BY DEF SenderOrder
  <2>1. CASE i \in TextsOf(q, p) /\ j \in TextsOf(q, p)
    BY SMTT(30), <1>11, <2>1, TextNumbers DEF OrderInv, SenderOrder
  <2>2. CASE i \in TextsOf(q, p) /\ j \notin TextsOf(q, p)
    BY SMTT(30), <1>11, <1>12, <2>2, TextNumbers
  <2>3. CASE i \notin TextsOf(q, p)
    <3>1. i = Len(chan[q].out) + 1 /\ Len(chan[q].out) \in Nat
      BY <1>11, <2>3, OutType
    <3>2. j \in 1 .. Len(chan[q].out) \/ j = Len(chan[q].out) + 1
      BY <1>11, TextNumbers
    <3> QED BY <3>1, <3>2
  <2> QED BY <2>1, <2>2, <2>3
<1>19. QueueOrder'
  <2> SUFFICES ASSUME NEW k \in Loops, NEW i \in DOMAIN queue'[k], NEW j \in DOMAIN queue'[k],
                      i < j, queue'[k][i].to = queue'[k][j].to,
                      queue'[k][i].from = queue'[k][j].from
               PROVE  queue'[k][i].n < queue'[k][j].n
    BY DEF QueueOrder
  <2>1. CASE k # l
    BY <1>16, <2>1 DEF OrderInv, QueueOrder
  <2>2. CASE k = l
    <3>1. i \in Nat /\ j \in Nat /\ i + 1 < j + 1
      BY <1>1, <1>8, <2>2
    <3>2. /\ i + 1 \in DOMAIN queue[l] /\ queue'[k][i] = queue[l][i + 1]
          /\ j + 1 \in DOMAIN queue[l] /\ queue'[k][j] = queue[l][j + 1]
      BY <1>16, <2>2
    <3> QED BY <3>1, <3>2 DEF OrderInv, QueueOrder
  <2> QED BY <2>1, <2>2
<1>20. OutBeforeQueue'
  <2> SUFFICES ASSUME NEW k \in Loops, NEW j \in DOMAIN queue'[k],
                      NEW i \in TextsIn(chan'[queue'[k][j].to].out, queue'[k][j].from)
               PROVE  chan'[queue'[k][j].to].out[i].n < queue'[k][j].n
    BY DEF OutBeforeQueue, TextsOf
  <2> DEFINE u == queue'[k][j]
  <2>1. PICK e \in DOMAIN queue[k] : /\ queue'[k][j] = queue[k][e]
                                     /\ k = l => e = j + 1
    BY <1>16
  <2>2. u.to \in Clients /\ u.from \in Clients
    BY <2>1, QueuedTask
  <2>3. \/ i \in TextsOf(u.to, u.from) /\ chan'[u.to].out[i] = chan[u.to].out[i]
        \/ u.to = t.to /\ u.from = t.from /\ chan'[u.to].out[i].n = t.n
    <3>1. PICK q \in Clients, p \in Clients : q = u.to /\ p = u.from
      BY <2>2
    <3>2. i \in TextsOf(q, p)'
      BY <3>1 DEF TextsOf
    <3> QED BY <1>11, <3>1, <3>2 DEF TextsOf
  <2>4. CASE i \in TextsOf(u.to, u.from) /\ chan'[u.to].out[i] = chan[u.to].out[i]
    BY <2>1, <2>4 DEF OrderInv, OutBeforeQueue
  <2>5. CASE u.to = t.to /\ u.from = t.from /\ chan'[u.to].out[i].n = t.n
    <3>1. k = l
      BY <1>14, <2>1, <2>5 DEF OrderInv, QueueGiven
    <3>2. j \in Nat /\ 1 < j + 1
      BY <1>1, <1>8, <3>1
    <3> QED BY <1>2, <2>1, <2>5, <3>1, <3>2 DEF OrderInv, QueueOrder
  <2> QED BY <2>3, <2>4, <2>5
<1> QED BY <1>15, <1>17, <1>18, <1>19, <1>20 DEF Order

\* Every step of the server keeps the order of texts.
LEMMA OrderStep ==
    ASSUME TypeOK, OrderInv, [Next]_vars
    PROVE  Order'
<1> USE DEF loopVars, countVars
<1> DEFINE pong == Control("pong")
<1>0. \A k \in Responses \cup {"pong", "close"} : Control(k) \in Item /\ ~IsText(Control(k))
  BY ItemTypes DEF Control, IsText, Responses
<1>1. CASE UNCHANGED vars
  BY <1>1, QuietStep DEF vars, Casting
<1>2. ASSUME NEW c \in Clients, Accept(c) PROVE Order'
  <2>1. \A r \in Clients : chan'[r].out = chan[r].out
    BY <1>2 DEF Accept, TypeOK, Channel
  <2>2. UNCHANGED <<queue, texts, casting, reading, seen>>
    BY <1>2 DEF Accept
  <2> QED BY <2>1, <2>2, QuietStep DEF Casting
<1>3. ASSUME NEW c \in Clients, NEW msgs, StartCycle(c, msgs) PROVE Order'
  <2>1. ~casting[LoopOf[c]]
    BY <1>3, LoopAssumption DEF StartCycle, OrderInv, LoopsOK
  <2>2. /\ UNCHANGED <<chan, queue, texts, casting, seen>>
        /\ reading' = [reading EXCEPT ![LoopOf[c]] = c]
    BY <1>3 DEF StartCycle
  <2>3. \A s \in Clients : Casting(s)' => Casting(s)
    BY <2>1, <2>2, LoopAssumption DEF Casting, TypeOK
  <2> QED BY <2>2, <2>3, QuietStep
<1>4. ASSUME NEW c \in Clients, ReadRequest(c) \/ ReadFrames(c) PROVE Order'
  BY <1>3, <1>4 DEF ReadRequest, ReadFrames
<1>5. ASSUME NEW c \in Clients, NEW x, x.out = chan[c].out \/ x.out = Write(chan[c], pong).out,
             Put(c, x), UNCHANGED <<loopVars, queue, countVars>>
      PROVE  Order'
  BY <1>0, <1>5, QuietPut
<1>6. ASSUME NEW c \in Clients, PeerGone(c) PROVE Order'
  BY <1>5, <1>6, ClosedOK DEF PeerGone, TypeOK, ChannelOK
<1>7. ASSUME NEW c \in Clients, Drain(c) PROVE Order'
  <2>1. PICK w \in chan[c].written + 1 .. chan[c].flushed : Put(c, Written(chan[c], w))
    BY <1>7 DEF Drain
  <2>2. ChannelOK(chan[c]) /\ w \in chan[c].written .. chan[c].flushed
    BY DEF TypeOK, ChannelOK, Channel
  <2>3. Written(chan[c], w).out = chan[c].out
    BY <2>2, WrittenOK
  <2> QED BY <1>5, <1>7, <2>1, <2>3 DEF Drain
<1>8. ASSUME NEW l \in Loops, NEW k \in Responses \cup {"pong", "close"},
             reading[l] \in Clients, Reply(l, Control(k)),
             UNCHANGED <<reading, casting, todo, seen, queue, countVars>>
      PROVE  Order'
  <2>1. PICK x \in FlushOutcomes(Write(chan[reading[l]], Control(k))) : Put(reading[l], x)
    BY <1>8 DEF Reply
  <2>2. x.out = Write(chan[reading[l]], Control(k)).out
    BY <1>0, <1>8, <2>1, WriteFlushOK DEF TypeOK, ChannelOK
  <2>3. Control(k) \in Item /\ ~IsText(Control(k))
    BY <1>0
  <2> QED BY <1>8, <2>1, <2>2, <2>3, QuietPut
<1>9. ASSUME NEW l \in Loops, BadRequest(l) \/ OldVersion(l) \/ Handshake(l) PROVE Order'
  <2>1. PICK k \in Responses, q \in Requests : Answer(l, q, k)
    BY <1>9 DEF BadRequest, OldVersion, Handshake, Responses, Requests
  <2>2. reading[l] \in Clients
    BY <2>1, ReadingClient DEF Answer, Handles, OrderInv
  <2> QED BY <1>8, <2>1, <2>2 DEF Answer
<1>10. ASSUME NEW l \in Loops, CloseFrame(l) PROVE Order'
  <2>1. reading[l] \in Clients
    BY <1>10, ReadingClient DEF CloseFrame, Handles, OrderInv
  <2> QED BY <1>8, <1>10, <2>1 DEF CloseFrame
<1>11. ASSUME NEW l \in Loops, Ping(l) PROVE Order'
  <2>1. reading[l] \in Clients
    BY <1>11, ReadingClient DEF Ping, Handles, OrderInv
  <2> QED BY <1>0, <1>11, <2>1, QuietPut DEF Ping
<1>12. ASSUME NEW l \in Loops, Binary(l) PROVE Order'
  BY <1>12, QuietStep DEF Binary, Casting
<1>13. ASSUME NEW l \in Loops, ExceptionCaught(l) PROVE Order'
  <2>1. reading[l] \in Clients
    BY <1>13, ReadingClient DEF ExceptionCaught, OrderInv
  <2>2. Closed(chan[reading[l]]).out = chan[reading[l]].out
    BY <2>1, ClosedOK DEF TypeOK, ChannelOK
  <2> QED BY <1>0, <1>13, <2>1, <2>2, QuietPut DEF ExceptionCaught
<1>14. ASSUME NEW l \in Loops, EndCast(l) PROVE Order'
  <2>1. /\ UNCHANGED <<chan, queue, texts, reading>>
        /\ casting' = [casting EXCEPT ![l] = FALSE]
        /\ seen' = [seen EXCEPT ![l] = {}]
    BY <1>14 DEF EndCast
  <2>2. \A s \in Clients : Casting(s)' => Casting(s) /\ seen'[LoopOf[s]] = seen[LoopOf[s]]
    BY <2>1, LoopAssumption DEF Casting, TypeOK
  <2> QED BY <2>1, <2>2, QuietStep
<1>15. ASSUME NEW l \in Loops, ReadComplete(l) PROVE Order'
  <2>1. reading[l] \in Clients
    BY <1>15, ReadingClient DEF ReadComplete, OrderInv
  <2>2. PICK x \in FlushOutcomes(chan[reading[l]]) : Put(reading[l], x)
    BY <1>15 DEF ReadComplete
  <2>3. x.out = chan[reading[l]].out
    BY <2>1, <2>2, FlushOK DEF TypeOK, ChannelOK
  <2>4. /\ UNCHANGED <<queue, texts, casting, seen>> /\ ~casting[l]
        /\ reading' = [reading EXCEPT ![l] = NoOne]
    BY <1>15 DEF ReadComplete
  <2>5. \A k \in Loops : casting[k] => reading'[k] = reading[k]
    BY <2>4 DEF TypeOK
  <2> QED BY <1>0, <2>1, <2>2, <2>3, <2>4, <2>5, QuietPut
<1> QED
  BY <1>1, <1>2, <1>4, <1>6, <1>7, <1>9, <1>10, <1>11, <1>12, <1>13, <1>14, <1>15,
     StartCastStep, CastDirect, CastTask, RunTaskStep DEF Next, Peer, Handle

-----------------------------------------------------------------------------
(* Theorems *)

LEMMA InitInv == Init => TypeOK /\ OrderInv
<1> SUFFICES ASSUME Init PROVE TypeOK /\ OrderInv
  OBVIOUS
<1>1. TypeOK
  BY DEF Init, TypeOK, CursorsOK, Channel
<1>2. \A r, s \in Clients : TextsOf(r, s) = {}
  BY DEF Init, TextsOf, TextsIn
<1>3. \A l \in Loops : DOMAIN queue[l] = {}
  BY DEF Init
<1>4. LoopsOK
  BY DEF Init, LoopsOK, Idle
<1> QED BY <1>1, <1>2, <1>3, <1>4 DEF OrderInv, OutGiven, QueueGiven, SenderOrder,
                                 QueueOrder, OutBeforeQueue

LEMMA NextInv == TypeOK /\ OrderInv /\ [Next]_vars => (TypeOK /\ OrderInv)'
BY TypeStep, LoopsStep, OrderStep DEF OrderInv, Order

\* The inductive invariant holds in every reachable state.
THEOREM Invariance == Spec => [](TypeOK /\ OrderInv)
BY InitInv, NextInv, PTL DEF Spec

\* Whatever the peers and the loops do, the state of the server is well typed
\* and no channel's cursors run past what was accepted.
THEOREM TypeCorrectness == Spec => []TypeOK
BY Invariance, PTL

\* No text overtakes an earlier one of its sender or is written twice, for any
\* number of clients and loops: the broadcast of channelRead0 keeps each
\* sender's order on every channel.
THEOREM SenderOrderHolds == Spec => []SenderOrder
<1>1. OrderInv => SenderOrder
  BY DEF OrderInv
<1> QED BY <1>1, Invariance, PTL

-----------------------------------------------------------------------------
(* The two ways in which a step changes a channel that was accepted.        *)

Ends == {"r400", "close"}

\* The cursors move, the channel may close.
Moved(ch, x) ==
    /\ x.out = ch.out
    /\ ch.written <= x.written
    /\ x.state \in {ch.state, "closed"}

\* It accepts an item besides.
Gained(ch, x, m) ==
    /\ Accepts(ch, m)
    /\ x.out = Append(ch.out, m)
    /\ ch.written <= x.written
    /\ x.state \in {"open", "closed"}

\* What the socket takes closes the channel if it holds an item that ends it.
LEMMA WrittenMoves ==
    ASSUME NEW ch, ChannelOK(ch), NEW w \in ch.written .. ch.flushed
    PROVE  /\ Moved(ch, Written(ch, w))
           /\ Written(ch, w).flushed = ch.flushed
           /\ Written(ch, w).written = w
           /\ Written(ch, w).state # "closed" =>
                 \A i \in 1 .. w : ch.out[i].kind \notin Ends
<1> DEFINE Ended == \E i \in 1 .. w : ch.out[i].kind \in {"r400", "close"}
           st   == IF Ended THEN "closed" ELSE ch.state
<1>1. Written(ch, w) = [ch EXCEPT !.written = w, !.state = st]
  BY DEF Written
<1>2. w \in Nat /\ ch.written <= w
  BY DEF ChannelOK, Channel
<1>3. st \in {ch.state, "closed"} /\ (st # "closed" => ~Ended)
  OBVIOUS
<1> HIDE DEF st
<1>4. /\ Moved(ch, Written(ch, w)) /\ Written(ch, w).flushed = ch.flushed
      /\ Written(ch, w).written = w /\ Written(ch, w).state = st
  BY <1>1, <1>2, <1>3 DEF ChannelOK, Channel, Moved
<1> QED BY <1>3, <1>4 DEF Ends

\* A flush accepts nothing; a channel that survives it has all its items
\* flushed, and none in the socket that ends it.
LEMMA FlushMoves ==
    ASSUME NEW ch, ChannelOK(ch), NEW x \in FlushOutcomes(ch)
    PROVE  /\ Moved(ch, x)
           /\ ch.state # "open" => x = ch
           /\ x.state = "open" =>
                 /\ x.flushed = Len(x.out)
                 /\ \A i \in 1 .. x.written : x.out[i].kind \notin Ends
<1> DEFINE all == [ch EXCEPT !.flushed = Len(ch.out)]
<1>1. CASE ch.state # "open"
  BY <1>1 DEF FlushOutcomes, Moved, ChannelOK, Channel
<1>2. CASE ch.state = "open"
  <2>1. ChannelOK(all) /\ all.out = ch.out /\ all.written = ch.written
        /\ all.flushed = Len(ch.out) /\ all.state = ch.state
    BY DEF ChannelOK, CursorsOK, Channel
  <2>2. x \in {Written(all, w) : w \in ch.written .. Len(ch.out)} \cup {Closed(all)}
    BY <1>2 DEF FlushOutcomes
  <2> HIDE DEF all
  <2>3. CASE x = Closed(all)
    BY <1>2, <2>1, <2>3, ClosedOK DEF Moved, Closed, ChannelOK, Channel
  <2>4. CASE \E w \in ch.written .. Len(ch.out) : x = Written(all, w)
    <3>1. PICK w \in all.written .. all.flushed : x = Written(all, w)
      BY <2>1, <2>4
    <3>2. /\ Moved(all, x) /\ x.flushed = all.flushed /\ x.written = w
          /\ x.state # "closed" => \A i \in 1 .. w : all.out[i].kind \notin Ends
      BY <2>1, <3>1, WrittenMoves
    <3> QED BY <1>2, <2>1, <3>2 DEF Moved
  <2> QED BY <2>2, <2>3, <2>4
<1> QED BY <1>1, <1>2

\* A write is refused, or its item is the last of an open channel.
LEMMA WriteMoves ==
    ASSUME NEW ch, ChannelOK(ch), NEW m \in Item
    PROVE  \/ ~Accepts(ch, m) /\ Write(ch, m) = ch
           \/ /\ Accepts(ch, m) /\ Gained(ch, Write(ch, m), m)
              /\ Write(ch, m).state = "open"
              /\ Write(ch, m).written = ch.written
              /\ Write(ch, m).flushed = ch.flushed
BY DEF Write, Gained, Accepts, ChannelOK, Channel

\* So is a write with a flush.
LEMMA WriteFlushMoves ==
    ASSUME NEW ch, ChannelOK(ch), NEW m \in Item,
           NEW x \in FlushOutcomes(Write(ch, m))
    PROVE  \/ ~Accepts(ch, m) /\ Moved(ch, x)
           \/ Accepts(ch, m) /\ Gained(ch, x, m)
<1>1. ChannelOK(Write(ch, m)) /\ Moved(Write(ch, m), x)
  BY WriteOK, FlushMoves
<1>2. CASE ~Accepts(ch, m)
  BY <1>1, <1>2, WriteMoves
<1>3. CASE Accepts(ch, m)
  <2>1. Gained(ch, Write(ch, m), m) /\ Write(ch, m).state = "open"
        /\ Write(ch, m).written = ch.written
    BY <1>3, WriteMoves
  <2> QED BY <1>1, <1>3, <2>1 DEF Moved, Gained
<1> QED BY <1>2, <1>3

\* What is out stays out.
LEMMA FramedStays ==
    ASSUME NEW ch, ChannelOK(ch), NEW x, ChannelOK(x), NEW m \in Item,
           Moved(ch, x) \/ Gained(ch, x, m), Framed(ch)
    PROVE  Framed(x)
<1>1. PICK i \in 1 .. ch.written : ch.out[i].kind = "r101"
  BY DEF Framed
<1>2. i \in 1 .. x.written /\ i \in 1 .. Len(ch.out)
  BY DEF Moved, Gained, ChannelOK, CursorsOK, Channel
<1>3. x.out[i] = ch.out[i]
  <2>1. ch.out \in Seq(Item)
    BY DEF ChannelOK, Channel
  <2> QED BY <1>2, <2>1, AppendProperties DEF Moved, Gained
<1> QED BY <1>1, <1>2, <1>3 DEF Framed

\* An upgraded channel stays one.
LEMMA UpgradedStays ==
    ASSUME NEW ch, ChannelOK(ch), NEW x, ChannelOK(x), NEW m \in Item,
           Moved(ch, x) \/ Gained(ch, x, m), Upgraded(ch)
    PROVE  Upgraded(x)
<1>1. ch.out \in Seq(Item) /\ x.out \in Seq(Item)
  BY DEF ChannelOK, Channel
<1>2. PICK i \in 1 .. Len(ch.out) : ch.out[i].kind = "r101"
  BY <1>1 DEF Upgraded
<1>3. i \in 1 .. Len(x.out) /\ x.out[i] = ch.out[i]
  BY <1>1, <1>2, AppendProperties DEF Moved, Gained
<1> QED BY <1>1, <1>2, <1>3 DEF Upgraded

-----------------------------------------------------------------------------
(* The numbers of the texts of one sender.                                  *)

\* What a channel was given changes with what it accepts only.
LEMMA GotSame ==
    ASSUME NEW r \in Clients, chan'[r].out = chan[r].out, NEW s \in Clients
    PROVE  Got(r, s)' = Got(r, s)
BY DEF Got, TextsOf

LEMMA GotGained ==
    ASSUME TypeOK, NEW r \in Clients, NEW m \in Item,
           chan'[r].out = Append(chan[r].out, m), NEW s \in Clients
    PROVE  Got(r, s)' = Got(r, s) \cup {n \in {m.n} : IsText(m) /\ m.from = s}
<1> DEFINE log == chan[r].out
<1>1. log \in Seq(Item) /\ Len(log) \in Nat
  BY OutType
<1>2. /\ \A j \in 1 .. Len(log) : chan'[r].out[j] = log[j]
      /\ chan'[r].out[Len(log) + 1] = m
  BY <1>1, AppendProperties
<1>3. TextsOf(r, s) \subseteq 1 .. Len(log)
  BY <1>1, LenProperties DEF TextsOf, TextsIn
<1>4. TextsIn(Append(log, m), s) =
        TextsOf(r, s) \cup {k \in {Len(log) + 1} : IsText(m) /\ m.from = s}
  BY <1>1, TextsAfter DEF TextsOf
<1>5. TextsOf(r, s)' = TextsOf(r, s) \cup {k \in {Len(log) + 1} : IsText(m) /\ m.from = s}
  BY <1>4 DEF TextsOf
<1> QED BY <1>2, <1>3, <1>5 DEF Got

\* The numbers are those of texts said, and not of the one that is still to come.
LEMMA Numbers ==
    ASSUME TypeOK, OrderInv, NEW r \in Clients, NEW s \in Clients
    PROVE  /\ texts[s] \in Nat
           /\ \A n \in Got(r, s) \cup Waiting(r, s) :
                 n \in Nat /\ n <= texts[s] /\ n \notin Due(r, s)
           /\ Waiting(r, s) # {} => LoopOf[r] # LoopOf[s]
<1>1. texts[s] \in Nat /\ LoopOf[r] \in Loops
  BY LoopAssumption DEF TypeOK
<1>2. ASSUME NEW n \in Got(r, s) PROVE n \in Nat /\ Given(r, s, n)
  BY <1>2, TextNumbers DEF Got, OrderInv, OutGiven
<1>3. ASSUME NEW n \in Waiting(r, s)
      PROVE  n \in Nat /\ Given(r, s, n) /\ LoopOf[r] # LoopOf[s]
  <2>1. PICK k \in DOMAIN queue[LoopOf[r]] :
           /\ queue[LoopOf[r]][k].to = r /\ queue[LoopOf[r]][k].from = s
           /\ queue[LoopOf[r]][k].n = n
    BY DEF Waiting, TasksOf
  <2> QED BY <1>1, <2>1, QueuedTask DEF OrderInv, QueueGiven
<1> QED BY <1>1, <1>2, <1>3 DEF Given, Due

\* What waits for a channel changes with the queue of its loop.
LEMMA WaitingSame ==
    ASSUME queue' = queue, NEW r \in Clients, NEW s \in Clients
    PROVE  Waiting(r, s)' = Waiting(r, s)
BY DEF Waiting, TasksOf

LEMMA WaitingGained ==
    ASSUME TypeOK, NEW t \in Task,
           queue' = [queue EXCEPT ![LoopOf[t.to]] = Append(@, t)],
           NEW r \in Clients, NEW s \in Clients
    PROVE  Waiting(r, s)' = Waiting(r, s) \cup {n \in {t.n} : t.to = r /\ t.from = s}
<1> DEFINE h == LoopOf[r]
           q == queue[h]
<1>1. h \in Loops /\ q \in Seq(Task) /\ t.to \in Clients /\ LoopOf[t.to] \in Loops
  BY LoopAssumption DEF TypeOK, Task
<1>2. Len(q) \in Nat /\ DOMAIN q = 1 .. Len(q)
  BY <1>1, LenProperties
<1>3. CASE LoopOf[t.to] = h
  <2>1. queue'[h] = Append(q, t)
    BY <1>1, <1>3 DEF TypeOK
  <2>2. /\ Append(q, t) \in Seq(Task) /\ Len(Append(q, t)) = Len(q) + 1
        /\ \A j \in 1 .. Len(q) : Append(q, t)[j] = q[j]
        /\ Append(q, t)[Len(q) + 1] = t
    BY <1>1, AppendProperties
  <2>3. DOMAIN queue'[h] = DOMAIN q \cup {Len(q) + 1}
    BY <1>2, <2>1, <2>2, LenProperties
  <2> QED BY <1>2, <2>1, <2>2, <2>3 DEF Waiting, TasksOf
<1>4. CASE LoopOf[t.to] # h
  <2>1. queue'[h] = q
    BY <1>1, <1>4 DEF TypeOK
  <2> QED BY <1>4, <2>1 DEF Waiting, TasksOf
<1> QED BY <1>3, <1>4

\* The oldest task leaves; what its sender has told its channel is older, and
\* what waits behind it younger.
LEMMA WaitingTaken ==
    ASSUME TypeOK, OrderInv, NEW l \in Loops, queue[l] # <<>>,
           queue'[l] = Tail(queue[l]), \A k \in Loops \ {l} : queue'[k] = queue[k],
           NEW t \in Task, t = Head(queue[l])
    PROVE  /\ LoopOf[t.to] = l
           /\ t.n \in Waiting(t.to, t.from)
           /\ \A n \in Got(t.to, t.from) : n < t.n
           /\ \A n \in Waiting(t.to, t.from) : n = t.n \/ t.n < n
           /\ Waiting(t.to, t.from)' = Waiting(t.to, t.from) \ {t.n}
           /\ \A r, s \in Clients :
                 r # t.to \/ s # t.from => Waiting(r, s)' = Waiting(r, s)
<1> PICK c \in Clients, f \in Clients, x \in Nat : c = t.to /\ f = t.from /\ x = t.n
  BY DEF Task
<1> DEFINE q == queue[l]
<1>1. q \in Seq(Task) /\ Len(q) \in Nat /\ DOMAIN q = 1 .. Len(q) /\ 1 \in DOMAIN q
  BY LenProperties, EmptySeq DEF TypeOK
<1>2. t = q[1] /\ t \in Task /\ t.to \in Clients /\ t.from \in Clients /\ t.n \in Nat
  BY <1>1, HeadTailProperties, QueuedTask
<1>3. LoopOf[t.to] = l
  BY <1>1, <1>2 DEF OrderInv, QueueGiven
<1>4. /\ Tail(q) \in Seq(Task) /\ Len(Tail(q)) = Len(q) - 1
      /\ \A k \in 1 .. Len(q) - 1 : Tail(q)[k] = q[k + 1]
  BY <1>1, HeadTailProperties
<1>5. /\ queue'[l] = Tail(q) /\ DOMAIN queue'[l] = 1 .. Len(q) - 1
      /\ \A k \in Loops \ {l} : queue'[k] = queue[k]
  BY <1>1, <1>4, LenProperties DEF TypeOK
<1>6. ASSUME NEW r \in Clients, NEW s \in Clients, LoopOf[r] = l, NEW n
      PROVE  n \in Waiting(r, s)' <=>
               \E k \in DOMAIN q \ {1} : q[k].to = r /\ q[k].from = s /\ q[k].n = n
  <2>1. \A k \in DOMAIN q \ {1} : k - 1 \in DOMAIN queue'[l] /\ queue'[l][k - 1] = q[k]
    BY <1>1, <1>4, <1>5
  <2>2. \A k \in DOMAIN queue'[l] : k + 1 \in DOMAIN q \ {1} /\ queue'[l][k] = q[k + 1]
    BY <1>1, <1>4, <1>5
  <2>3. n \in Waiting(r, s)' <=>
          \E k \in DOMAIN queue'[l] : /\ queue'[l][k].to = r /\ queue'[l][k].from = s
                                      /\ queue'[l][k].n = n
    BY <1>6 DEF Waiting, TasksOf
  <2> HIDE DEF q
  <2> QED BY <2>1, <2>2, <2>3
<1>7. ASSUME NEW r \in Clients, NEW s \in Clients, LoopOf[r] = l, NEW n
      PROVE  n \in Waiting(r, s) <=>
               \E k \in DOMAIN q : q[k].to = r /\ q[k].from = s /\ q[k].n = n
  BY <1>7 DEF Waiting, TasksOf
<1>8. ASSUME NEW k \in DOMAIN q \ {1}, q[k].to = t.to, q[k].from = t.from
      PROVE  t.n < q[k].n
  BY <1>1, <1>2, <1>8 DEF OrderInv, QueueOrder
<1>9. /\ x \in Waiting(c, f)
      /\ \A n \in Waiting(c, f) : n = x \/ x < n
  <2>1. c = t.to /\ f = t.from /\ x = t.n
    OBVIOUS
  <2>2. \A n : n \in Waiting(c, f) <=>
               \E k \in DOMAIN q : q[k].to = c /\ q[k].from = f /\ q[k].n = n
    BY <1>3, <1>7, <2>1
  <2> HIDE DEF q
  <2> QED BY <1>1, <1>2, <1>8, <2>1, <2>2
<1>10. Waiting(c, f)' = Waiting(c, f) \ {x}
  <2>1. \A k \in DOMAIN q \ {1} : q[k].to = t.to /\ q[k].from = t.from => q[k].n # t.n
    <3> SUFFICES ASSUME NEW k \in DOMAIN q \ {1}, q[k].to = t.to, q[k].from = t.from
                 PROVE  q[k].n # t.n
      OBVIOUS
    <3>1. q[k].n \in Nat
      BY QueuedTask
    <3> QED BY <1>2, <1>8, <3>1
  <2> QED BY <1>1, <1>2, <1>3, <1>6, <1>7, <2>1
<1>11. ASSUME NEW r \in Clients, NEW s \in Clients, r # c \/ s # f
       PROVE  Waiting(r, s)' = Waiting(r, s)
  <2>1. CASE LoopOf[r] = l
    <3>1. \A k \in DOMAIN q : q[k].to = r /\ q[k].from = s => k # 1
      BY <1>2, <1>11
    <3>2. \A n : n \in Waiting(r, s)' <=> n \in Waiting(r, s)
      BY <1>6, <1>7, <2>1, <3>1
    <3> QED BY <3>2 DEF Waiting
  <2>2. CASE LoopOf[r] # l
    BY <1>5, <2>2, LoopAssumption DEF Waiting, TasksOf
  <2> QED BY <2>1, <2>2
<1>12. \A n \in Got(c, f) : n < x
  BY SMTT(30), <1>1, <1>2 DEF OrderInv, OutBeforeQueue, Got
<1> QED BY <1>3, <1>9, <1>10, <1>11, <1>12

-----------------------------------------------------------------------------
(* What a step does to every channel. *)

Keeps(r, m) ==
    /\ Moved(chan[r], chan'[r]) \/ Gained(chan[r], chan'[r], m)
    /\ r \in group' => r \in group
    /\ r \in group /\ chan'[r].state # "closed" => r \in group'

\* A step that replaces one channel keeps all of them.
LEMMA PutKeeps ==
    ASSUME TypeOK, NEW c \in Clients, NEW x, NEW m, Put(c, x),
           Moved(chan[c], x) \/ Gained(chan[c], x, m)
    PROVE  \A r \in Clients : Keeps(r, m)
<1>1. /\ chan' = [chan EXCEPT ![c] = x]
      /\ group' = IF x.state = "closed" THEN group \ {c} ELSE group
  BY DEF Put
<1>2. \A r \in Clients : chan'[r] = IF r = c THEN x ELSE chan[r]
  BY <1>1 DEF TypeOK
<1>3. \A r \in Clients : Moved(chan[r], chan[r])
  BY DEF Moved, TypeOK, Channel
<1> QED BY <1>1, <1>2, <1>3 DEF Keeps

LEMMA StillKeeps ==
    ASSUME TypeOK, UNCHANGED <<chan, group>>, NEW m
    PROVE  \A r \in Clients : Keeps(r, m)
BY DEF Keeps, Moved, TypeOK, Channel

LEMMA DeliverKeeps ==
    ASSUME TypeOK, NEW r \in Clients, NEW s \in Clients, NEW n \in Nat, Deliver(r, s, n)
    PROVE  /\ \A c \in Clients : Keeps(c, Text(s, n))
           /\ \A c \in Clients \ {r} : chan'[c] = chan[c]
           /\ \/ ~Accepts(chan[r], Text(s, n)) /\ Moved(chan[r], chan'[r])
              \/ Accepts(chan[r], Text(s, n)) /\ Gained(chan[r], chan'[r], Text(s, n))
<1>1. PICK x \in FlushOutcomes(Write(chan[r], Text(s, n))) : Put(r, x)
  BY DEF Deliver
<1>2. ChannelOK(chan[r]) /\ Text(s, n) \in Item
  BY ItemTypes DEF TypeOK, ChannelOK
<1>3. \/ ~Accepts(chan[r], Text(s, n)) /\ Moved(chan[r], x)
      \/ Accepts(chan[r], Text(s, n)) /\ Gained(chan[r], x, Text(s, n))
  BY <1>1, <1>2, WriteFlushMoves
<1>4. chan'[r] = x /\ \A c \in Clients \ {r} : chan'[c] = chan[c]
  BY <1>1 DEF Put, TypeOK
<1> QED BY <1>1, <1>3, <1>4, PutKeeps

\* The members stay as they should be if the step lets no broadcast or task
\* hear of a channel that is not accepted.
LEMMA MembersKept ==
    ASSUME TypeOK, MembersOK, NEW m, \A r \in Clients : Keeps(r, m),
           \A l \in Loops : todo'[l] \subseteq todo[l] \cup group,
           \A l \in Loops : \A k \in DOMAIN queue'[l] :
              \/ \E j \in DOMAIN queue[l] : queue'[l][k].to = queue[l][j].to
              \/ chan[queue'[l][k].to].state # "new"
    PROVE  MembersOK'
<1> SUFFICES ASSUME NEW c \in Clients
             PROVE  /\ Open(c)' => c \in group'
                    /\ chan'[c].state = "new" =>
                          /\ chan'[c].out = <<>> /\ c \notin group'
                          /\ \A l \in Loops :
                                /\ c \notin todo'[l]
                                /\ \A k \in DOMAIN queue'[l] : queue'[l][k].to # c
  BY DEF MembersOK
<1>1. chan'[c].state # "closed" => /\ chan'[c].state = chan[c].state \/ (Open(c) /\ Open(c)')
                                   /\ c \in group => c \in group'
  BY DEF Keeps, Moved, Gained, Accepts, Open
<1>2. Open(c)' => c \in group'
  BY <1>1 DEF MembersOK, Open
<1>3. ASSUME chan'[c].state = "new"
      PROVE  /\ chan'[c].out = <<>> /\ c \notin group'
             /\ \A l \in Loops : /\ c \notin todo'[l]
                                 /\ \A k \in DOMAIN queue'[l] : queue'[l][k].to # c
  <2>1. chan[c].state = "new"
    BY <1>1, <1>3 DEF Open
  <2>2. chan'[c].out = <<>> /\ c \notin group'
    BY <1>3, <2>1 DEF Keeps, Moved, Gained, Accepts, MembersOK
  <2> QED BY <2>1, <2>2 DEF MembersOK
<1> QED BY <1>2, <1>3

\* A text is numbered, and what a channel has of it shows that it is upgraded.
LEMMA UpgradedKept ==
    ASSUME TypeOK, TypeOK', NEW r \in Clients, NEW m \in Item, Keeps(r, m), Upgraded(chan[r])
    PROVE  Upgraded(chan'[r])
BY UpgradedStays DEF Keeps, TypeOK, ChannelOK

\* A step that accepts no text, submits no task and leaves the broadcasts alone
\* changes nothing for the deliveries.
LEMMA QuietDelivery ==
    ASSUME TypeOK, TypeOK', OrderInv, DeliveryInv,
           NEW m \in Item, ~IsText(m), \A r \in Clients : Keeps(r, m),
           UNCHANGED <<queue, texts, todo, seen, casting>>,
           \A l \in Loops : casting[l] => reading'[l] = reading[l]
    PROVE  DeliveryInv'
<1>1. \A r, s \in Clients : Got(r, s)' = Got(r, s)
  <2> SUFFICES ASSUME NEW r \in Clients, NEW s \in Clients
               PROVE  Got(r, s)' = Got(r, s)
    OBVIOUS
  <2>1. chan'[r].out = chan[r].out \/ chan'[r].out = Append(chan[r].out, m)
    BY DEF Keeps, Moved, Gained
  <2>2. {n \in {m.n} : IsText(m) /\ m.from = s} = {}
    OBVIOUS
  <2>3. CASE chan'[r].out = Append(chan[r].out, m)
    <3>1. Got(r, s)' = Got(r, s) \cup {n \in {m.n} : IsText(m) /\ m.from = s}
      BY <2>3, GotGained
    <3> QED BY <2>2, <3>1
  <2> QED BY <2>1, <2>3, GotSame
<1>2. \A r, s \in Clients : Waiting(r, s)' = Waiting(r, s)
  BY WaitingSame
<1>3. \A s \in Clients : Casting(s)' <=> Casting(s)
  BY LoopAssumption DEF Casting
<1>4. \A r, s \in Clients : Due(r, s)' = Due(r, s)
  BY <1>3 DEF Due
<1>5. \A r \in Clients : Open(r)' => Open(r)
  BY DEF Keeps, Moved, Gained, Accepts, Open
<1>6. MembersOK'
  BY MembersKept DEF DeliveryInv
<1>7. TextsOK'
  BY <1>1, <1>2, <1>3, UpgradedKept DEF DeliveryInv, TextsOK
<1>8. Pursued'
  BY <1>1, <1>2, <1>3, <1>4, <1>5 DEF DeliveryInv, Pursued
<1>9. Contiguous'
  BY <1>1 DEF DeliveryInv, Contiguous
<1> QED BY <1>6, <1>7, <1>8, <1>9 DEF DeliveryInv

\* A channel is accepted: nothing was meant for it yet.
LEMMA AcceptDelivery ==
    ASSUME TypeOK, OrderInv, DeliveryInv, NEW c \in Clients, Accept(c)
    PROVE  DeliveryInv'
<1>1. /\ chan' = [chan EXCEPT ![c].state = "open"] /\ group' = group \cup {c}
      /\ chan[c].state = "new"
      /\ UNCHANGED <<reading, casting, todo, seen, queue, texts>>
  BY DEF Accept, loopVars, countVars
<1>2. /\ \A r \in Clients : chan'[r].out = chan[r].out /\ chan'[r].written = chan[r].written
      /\ \A r \in Clients \ {c} : chan'[r] = chan[r]
      /\ chan'[c].state = "open"
  BY <1>1 DEF TypeOK, Channel
<1>3. \A r, s \in Clients : /\ Got(r, s)' = Got(r, s) /\ Waiting(r, s)' = Waiting(r, s)
                            /\ Due(r, s)' = Due(r, s) /\ (Casting(s)' <=> Casting(s))
  BY <1>1, <1>2, GotSame, WaitingSame DEF Due, Casting
<1>4. \A s \in Clients : Got(c, s) = {} /\ Waiting(c, s) = {}
  <2>1. chan[c].out = <<>> /\ \A k \in DOMAIN queue[LoopOf[c]] : queue[LoopOf[c]][k].to # c
    BY <1>1, LoopAssumption DEF DeliveryInv, MembersOK
  <2> QED BY <2>1 DEF Got, TextsOf, TextsIn, Waiting, TasksOf
<1>5. MembersOK'
  BY <1>1, <1>2 DEF DeliveryInv, MembersOK, Open
<1>6. \A r \in Clients : Upgraded(chan'[r]) <=> Upgraded(chan[r])
  BY <1>2 DEF Upgraded
<1>7. TextsOK'
  BY <1>1, <1>3, <1>6 DEF DeliveryInv, TextsOK
<1>8. Pursued'
  BY <1>1, <1>2, <1>3, <1>4 DEF DeliveryInv, Pursued, Open
<1>9. Contiguous'
  BY <1>3 DEF DeliveryInv, Contiguous
<1> QED BY <1>5, <1>7, <1>8, <1>9 DEF DeliveryInv

\* A broadcast begins: it owes its text to every open channel.
LEMMA StartCastDelivery ==
    ASSUME TypeOK, OrderInv, DeliveryInv, NEW l \in Loops, StartCast(l)
    PROVE  DeliveryInv'
<1>0. PICK s \in Clients : s = reading[l]
  BY ReadingClient DEF OrderInv, StartCast, Handles
<1>1. LoopOf[s] = l /\ ~Casting(s) /\ texts[s] \in Nat
  BY <1>0, ReadingClient DEF OrderInv, StartCast, Handles, Casting, TypeOK
<1>2. /\ UNCHANGED <<chan, group, queue, reading>>
      /\ texts' = [texts EXCEPT ![s] = @ + 1] /\ texts \in [Clients -> Nat]
      /\ casting' = [casting EXCEPT ![l] = TRUE] /\ seen' = [seen EXCEPT ![l] = {}]
      /\ todo' = [todo EXCEPT ![l] = group]
  BY <1>0 DEF StartCast, TypeOK
<1>3. \A r, p \in Clients : Got(r, p)' = Got(r, p) /\ Waiting(r, p)' = Waiting(r, p)
  BY <1>2, GotSame, WaitingSame
<1>4. /\ Casting(s)' /\ texts'[s] = texts[s] + 1 /\ todo'[l] = group /\ seen'[l] = {}
      /\ \A r \in Clients : Due(r, s) = {} /\ Due(r, s)' = {texts[s] + 1}
  BY <1>0, <1>1, <1>2 DEF Casting, Due, TypeOK
<1>5. \A p \in Clients \ {s} :
         /\ Casting(p)' => Casting(p) /\ LoopOf[p] # l
         /\ Casting(p) => Casting(p)' /\ LoopOf[p] # l
         /\ texts'[p] = texts[p]
  BY <1>0, <1>1, <1>2, LoopAssumption DEF Casting, TypeOK, StartCast, Handles
<1>6. \A p \in Clients \ {s} : Casting(p) =>
         todo'[LoopOf[p]] = todo[LoopOf[p]] /\ seen'[LoopOf[p]] = seen[LoopOf[p]]
  BY <1>2, <1>5
<1>7. \A p \in Clients \ {s} : \A r \in Clients : Due(r, p)' = Due(r, p)
  BY <1>5, <1>6 DEF Due
<1>8. MembersOK'
  BY <1>2, StillKeeps, MembersKept DEF DeliveryInv, TypeOK
<1>9. TextsOK'
  BY <1>1, <1>2, <1>3, <1>4, <1>5 DEF DeliveryInv, TextsOK
<1>10. ASSUME NEW r \in Clients, NEW p \in Clients, Open(r)
       PROVE  /\ \A n \in Got(r, p) \cup Waiting(r, p) :
                    n .. texts'[p] \subseteq Got(r, p) \cup Waiting(r, p) \cup Due(r, p)'
              /\ Got(r, p) \cup Waiting(r, p) # {} /\ Casting(p)' =>
                    r \in todo'[LoopOf[p]] \cup seen'[LoopOf[p]]
  <2>1. /\ \A n \in Got(r, p) \cup Waiting(r, p) :
              n \in Nat /\ n .. texts[p] \subseteq Got(r, p) \cup Waiting(r, p) \cup Due(r, p)
        /\ Got(r, p) \cup Waiting(r, p) # {} /\ Casting(p) =>
              r \in todo[LoopOf[p]] \cup seen[LoopOf[p]]
        /\ r \in group
    BY <1>10, Numbers DEF DeliveryInv, Pursued, MembersOK
  <2>2. CASE p = s
    <3>1. Due(r, p) = {} /\ Due(r, p)' = {texts[p] + 1} /\ texts'[p] = texts[p] + 1
      BY <1>4, <2>2
    <3>2. \A n \in Got(r, p) \cup Waiting(r, p) : n .. texts'[p] = (n .. texts[p]) \cup {texts[p] + 1}
      BY <1>1, <2>1, <2>2, <3>1, Numbers
    <3>3. r \in todo'[LoopOf[p]] \cup seen'[LoopOf[p]]
      BY <1>1, <1>4, <2>1, <2>2
    <3> QED BY <2>1, <3>1, <3>2, <3>3
  <2>3. CASE p # s
    BY <1>5, <1>6, <1>7, <2>1, <2>3
  <2> QED BY <2>2, <2>3
<1>11. Pursued'
  BY <1>2, <1>3, <1>10 DEF Pursued, Open
<1>12. Contiguous'
  BY <1>3 DEF DeliveryInv, Contiguous
<1> QED BY <1>8, <1>9, <1>11, <1>12 DEF DeliveryInv

\* The broadcast comes to r: nothing is due to r any more, and nothing else
\* changes for anyone in what is due.
LEMMA CastDue ==
    ASSUME TypeOK, OrderInv, NEW l \in Loops, NEW r \in Clients, CastTo(l, r),
           NEW s, s = reading[l]
    PROVE  /\ s \in Clients /\ LoopOf[s] = l /\ Casting(s) /\ texts[s] \in Nat
           /\ Due(r, s) = {texts[s]} /\ Due(r, s)' = {}
           /\ \A q, p \in Clients : q # r \/ p # s => Due(q, p)' = Due(q, p)
           /\ UNCHANGED <<texts, casting, reading, todo>>
           /\ \A p \in Clients : (Casting(p)' <=> Casting(p))
           /\ \A p \in Clients : todo[LoopOf[p]] \cup seen[LoopOf[p]]
                                   \subseteq todo'[LoopOf[p]] \cup seen'[LoopOf[p]]
           /\ r \in seen'[LoopOf[s]]
<1>1. s \in Clients /\ LoopOf[s] = l /\ Casting(s) /\ r \notin seen[l] /\ texts[s] \in Nat
  BY ReadingClient DEF OrderInv, CastTo, Casting, MayReturn, TypeOK
<1>2. /\ UNCHANGED <<texts, casting, reading, todo>>
      /\ seen' = [seen EXCEPT ![l] = @ \cup {r}]
  BY DEF CastTo, countVars
<1>3. /\ seen'[l] = seen[l] \cup {r} /\ \A k \in Loops \ {l} : seen'[k] = seen[k]
  BY <1>2 DEF TypeOK
<1>4. \A p \in Clients : LoopOf[p] \in Loops /\ (Casting(p)' <=> Casting(p))
  BY <1>2, LoopAssumption DEF Casting
<1>5. \A p \in Clients : Casting(p) /\ LoopOf[p] = l => p = s
  BY DEF Casting
<1>6. \A q, p \in Clients : q # r \/ p # s => Due(q, p)' = Due(q, p)
  BY <1>2, <1>3, <1>4, <1>5 DEF Due
<1>7. Due(r, s) = {texts[s]} /\ Due(r, s)' = {}
  BY <1>1, <1>3 DEF Due
<1> QED BY <1>1, <1>2, <1>3, <1>4, <1>6, <1>7

\* A channel takes a text directly, unless it is closed or not upgraded; a
\* channel that is not upgraded was given none before.
LEMMA CastDirectDelivery ==
    ASSUME TypeOK, TypeOK', OrderInv, DeliveryInv, NEW l \in Loops, NEW r \in Clients,
           CastTo(l, r), LoopOf[r] = l
    PROVE  DeliveryInv'
<1> USE DEF DeliveryInv
<1>1. PICK s \in Clients : s = reading[l]
  BY CastDue
<1>2. PICK n \in Nat : n = texts[s]
  BY CastDue, <1>1
<1>3. /\ LoopOf[s] = l /\ Casting(s) /\ Due(r, s) = {n} /\ Due(r, s)' = {}
      /\ \A q, p \in Clients : q # r \/ p # s => Due(q, p)' = Due(q, p)
      /\ UNCHANGED <<texts, casting, reading, todo>>
      /\ \A p \in Clients : (Casting(p)' <=> Casting(p))
      /\ \A p \in Clients : todo[LoopOf[p]] \cup seen[LoopOf[p]]
                              \subseteq todo'[LoopOf[p]] \cup seen'[LoopOf[p]]
      /\ r \in seen'[LoopOf[s]]
  BY CastDue, <1>1, <1>2
<1>4. Deliver(r, s, n) /\ queue' = queue
  BY <1>1, <1>2 DEF CastTo
<1> DEFINE m == Text(s, n)
<1>5. m \in Item /\ IsText(m) /\ m.from = s /\ m.n = n /\ m.kind \notin Responses
  BY ItemTypes DEF Text, IsText, Responses
<1>6. /\ \A c \in Clients : Keeps(c, m)
      /\ \A c \in Clients \ {r} : chan'[c] = chan[c]
      /\ \/ ~Accepts(chan[r], m) /\ Moved(chan[r], chan'[r])
         \/ Accepts(chan[r], m) /\ Gained(chan[r], chan'[r], m)
  BY <1>4, DeliverKeeps
<1> HIDE DEF m
<1>7. \A q, p \in Clients : Waiting(q, p)' = Waiting(q, p)
  BY <1>4, WaitingSame
<1>8. ASSUME NEW q \in Clients, NEW p \in Clients, q # r \/ p # s
      PROVE  Got(q, p)' = Got(q, p)
  <2>1. CASE chan'[q].out = chan[q].out
    BY <2>1, GotSame
  <2>2. CASE chan'[q].out # chan[q].out
    <3>1. q = r /\ chan'[r].out = Append(chan[r].out, m)
      BY <1>6, <2>2 DEF Moved, Gained
    <3>2. {k \in {m.n} : IsText(m) /\ m.from = p} = {}
      BY <1>5, <1>8, <3>1
    <3>3. Got(q, p)' = Got(q, p) \cup {k \in {m.n} : IsText(m) /\ m.from = p}
      BY <1>5, <3>1, GotGained
    <3> QED BY <3>2, <3>3
  <2> QED BY <2>1, <2>2
<1>9. \/ Accepts(chan[r], m) /\ Got(r, s)' = Got(r, s) \cup {n}
      \/ ~Accepts(chan[r], m) /\ Got(r, s)' = Got(r, s)
  <2>1. CASE Accepts(chan[r], m)
    <3>1. chan'[r].out = Append(chan[r].out, m)
      BY <1>6, <2>1 DEF Gained
    <3> QED BY <1>5, <2>1, <3>1, GotGained
  <2>2. CASE ~Accepts(chan[r], m)
    BY <1>6, <2>2, GotSame DEF Moved
  <2> QED BY <2>1, <2>2
<1>10. Waiting(r, s) = {} /\ \A k \in Got(r, s) : k \in Nat
  BY <1>3, Numbers
<1>11. \A q \in Clients : Open(q)' => Open(q)
  BY <1>6 DEF Keeps, Moved, Gained, Accepts, Open
<1>12. Open(r)' /\ ~Accepts(chan[r], m) => Got(r, s) = {}
  BY <1>5, <1>11 DEF Accepts, Open, TextsOK
<1>13. Open(r) => \A k \in Got(r, s) : k .. n \subseteq Got(r, s) \cup {n}
  BY <1>2, <1>3, <1>10 DEF Pursued
<1>14. MembersOK'
  BY <1>3, <1>4, <1>6, MembersKept
<1>15. \A q \in Clients : Upgraded(chan[q]) => Upgraded(chan'[q])
  BY <1>5, <1>6, UpgradedKept
<1>16. TextsOK'
  <2>1. Accepts(chan[r], m) => Upgraded(chan'[r])
    BY <1>5, <1>15 DEF Accepts
  <2>2. n > 0 /\ 0 \notin Got(r, s)
    BY <1>2, <1>3 DEF TextsOK
  <2>3. \A q, p \in Clients : /\ 0 \notin Got(q, p)' \cup Waiting(q, p)'
                              /\ Got(q, p)' # {} => Upgraded(chan'[q])
    BY <1>7, <1>8, <1>9, <1>15, <2>1, <2>2 DEF TextsOK
  <2> QED BY <1>3, <2>3 DEF TextsOK
<1>17. Pursued'
  <2> SUFFICES ASSUME NEW q \in Clients, NEW p \in Clients, Open(q)'
               PROVE  /\ \A k \in Got(q, p)' \cup Waiting(q, p)' :
                            k .. texts[p] \subseteq Got(q, p)' \cup Waiting(q, p)' \cup Due(q, p)'
                      /\ Got(q, p)' \cup Waiting(q, p)' # {} /\ Casting(p)' =>
                            q \in todo'[LoopOf[p]] \cup seen'[LoopOf[p]]
    BY <1>3 DEF Pursued
  <2>1. CASE q = r /\ p = s
    BY <1>2, <1>3, <1>7, <1>9, <1>10, <1>11, <1>12, <1>13, <2>1
  <2>2. CASE q # r \/ p # s
    BY <1>3, <1>7, <1>8, <1>11, <2>2 DEF Pursued
  <2> QED BY <2>1, <2>2
<1>18. Contiguous'
  <2>1. ASSUME Accepts(chan[r], m), NEW i \in Got(r, s) \cup {n}, NEW j \in Got(r, s) \cup {n}
        PROVE  i .. j \subseteq Got(r, s) \cup {n}
    <3>1. Open(r)
      BY <2>1 DEF Accepts, Open
    <3>2. \A k \in Got(r, s) : k \in Nat /\ k <= n
      BY <1>2, Numbers
    <3>3. CASE j = n
      BY <1>13, <3>1, <3>3
    <3>4. CASE i = n /\ j # n
      BY <3>2, <3>4
    <3>5. CASE i \in Got(r, s) /\ j \in Got(r, s)
      BY <3>5 DEF Contiguous
    <3> QED BY <3>3, <3>4, <3>5
  <2> QED BY <1>8, <1>9, <2>1 DEF Contiguous
<1> QED BY <1>14, <1>16, <1>17, <1>18

\* The text becomes a task: what was due waits now.
LEMMA CastTaskDelivery ==
    ASSUME TypeOK, OrderInv, DeliveryInv, NEW l \in Loops, NEW r \in Clients,
           CastTo(l, r), LoopOf[r] # l
    PROVE  DeliveryInv'
<1> USE DEF DeliveryInv
<1>1. PICK s \in Clients : s = reading[l]
  BY CastDue
<1>2. PICK n \in Nat : n = texts[s]
  BY CastDue, <1>1
<1>3. /\ LoopOf[s] = l /\ Casting(s) /\ Due(r, s) = {n} /\ Due(r, s)' = {}
      /\ \A q, p \in Clients : q # r \/ p # s => Due(q, p)' = Due(q, p)
      /\ UNCHANGED <<texts, casting, reading, todo>>
      /\ \A p \in Clients : (Casting(p)' <=> Casting(p))
      /\ \A p \in Clients : todo[LoopOf[p]] \cup seen[LoopOf[p]]
                              \subseteq todo'[LoopOf[p]] \cup seen'[LoopOf[p]]
      /\ r \in seen'[LoopOf[s]]
  BY CastDue, <1>1, <1>2
<1>4. PICK t \in Task : t = [to |-> r, from |-> s, n |-> n]
  BY DEF Task
<1>5. /\ queue' = [queue EXCEPT ![LoopOf[t.to]] = Append(@, t)]
      /\ UNCHANGED <<chan, group>>
  BY <1>1, <1>2, <1>4 DEF CastTo
<1>6. \A q, p \in Clients : Got(q, p)' = Got(q, p)
  BY <1>5, GotSame
<1>7. /\ Waiting(r, s)' = Waiting(r, s) \cup {n}
      /\ \A q, p \in Clients : q # r \/ p # s => Waiting(q, p)' = Waiting(q, p)
  <2>1. \A q, p \in Clients : Waiting(q, p)' =
           Waiting(q, p) \cup {k \in {t.n} : t.to = q /\ t.from = p}
    BY <1>5, WaitingGained
  <2>2. t.to = r /\ t.from = s /\ t.n = n
    BY <1>4
  <2> QED BY <2>1, <2>2
<1>8. MembersOK'
  <2>1. chan[r].state # "new"
    BY DEF CastTo, MayReturn, MembersOK
  <2>2. \A k \in Loops : \A j \in DOMAIN queue'[k] :
           \/ \E i \in DOMAIN queue[k] : queue'[k][j].to = queue[k][i].to
           \/ chan[queue'[k][j].to].state # "new"
    <3> SUFFICES ASSUME NEW k \in Loops, NEW j \in DOMAIN queue'[k]
                 PROVE  \/ \E i \in DOMAIN queue[k] : queue'[k][j].to = queue[k][i].to
                        \/ chan[queue'[k][j].to].state # "new"
      OBVIOUS
    <3>1. queue[k] \in Seq(Task) /\ LoopOf[r] \in Loops /\ t.to = r
      BY <1>4, LoopAssumption DEF TypeOK
    <3>2. CASE k = LoopOf[r]
      <4>1. queue'[k] = Append(queue[k], t)
        BY <1>5, <3>1, <3>2 DEF TypeOK
      <4>2. /\ Append(queue[k], t) \in Seq(Task)
            /\ Len(Append(queue[k], t)) = Len(queue[k]) + 1
            /\ \A i \in 1 .. Len(queue[k]) : Append(queue[k], t)[i] = queue[k][i]
            /\ Append(queue[k], t)[Len(queue[k]) + 1] = t
        BY <3>1, AppendProperties
      <4>3. Len(queue[k]) \in Nat /\ DOMAIN queue[k] = 1 .. Len(queue[k])
            /\ DOMAIN queue'[k] = 1 .. Len(queue[k]) + 1
        BY <3>1, <4>1, <4>2, LenProperties
      <4> QED BY <2>1, <3>1, <4>1, <4>2, <4>3
    <3>3. CASE k # LoopOf[r]
      BY <1>5, <3>1, <3>3
    <3> QED BY <3>2, <3>3
  <2> QED BY <1>3, <1>5, <2>2, StillKeeps, MembersKept
<1>9. TextsOK'
  <2>1. n > 0
    BY <1>2, <1>3 DEF TextsOK
  <2> QED BY <1>3, <1>5, <1>6, <1>7, <2>1 DEF TextsOK
<1>10. Pursued'
  <2> SUFFICES ASSUME NEW q \in Clients, NEW p \in Clients, Open(q)
               PROVE  /\ \A k \in Got(q, p) \cup Waiting(q, p)' :
                            k .. texts[p] \subseteq Got(q, p) \cup Waiting(q, p)' \cup Due(q, p)'
                      /\ Got(q, p) \cup Waiting(q, p)' # {} /\ Casting(p) =>
                            q \in todo'[LoopOf[p]] \cup seen'[LoopOf[p]]
    BY <1>3, <1>5, <1>6 DEF Pursued, Open
  <2>1. CASE q = r /\ p = s
    BY <1>2, <1>3, <1>7, <2>1 DEF Pursued
  <2>2. CASE q # r \/ p # s
    BY <1>3, <1>7, <2>2 DEF Pursued
  <2> QED BY <2>1, <2>2
<1>11. Contiguous'
  BY <1>6 DEF Contiguous
<1> QED BY <1>8, <1>9, <1>10, <1>11

\* A task reaches its channel, which takes its text unless it is closed or not
\* upgraded.
LEMMA RunTaskDelivery ==
    ASSUME TypeOK, TypeOK', OrderInv, DeliveryInv, NEW l \in Loops, RunTask(l)
    PROVE  DeliveryInv'
<1> USE DEF DeliveryInv
<1>1. PICK t : t = Head(queue[l])
  OBVIOUS
<1>2. /\ queue' = [queue EXCEPT ![l] = Tail(@)] /\ queue[l] # <<>>
      /\ queue'[l] = Tail(queue[l]) /\ \A k \in Loops \ {l} : queue'[k] = queue[k]
      /\ t \in Task
  BY <1>1, HeadTailProperties DEF RunTask, TypeOK
<1>3. PICK r \in Clients, s \in Clients, n \in Nat : r = t.to /\ s = t.from /\ n = t.n
  BY <1>2 DEF Task
<1>4. /\ Deliver(r, s, n)
      /\ UNCHANGED <<texts, casting, reading, todo, seen>>
  BY <1>1, <1>3 DEF RunTask, loopVars, countVars
<1> DEFINE m == Text(s, n)
<1>5. m \in Item /\ IsText(m) /\ m.from = s /\ m.n = n /\ m.kind \notin Responses
  BY ItemTypes DEF Text, IsText, Responses
<1>6. /\ \A c \in Clients : Keeps(c, m)
      /\ \A c \in Clients \ {r} : chan'[c] = chan[c]
      /\ \/ ~Accepts(chan[r], m) /\ Moved(chan[r], chan'[r])
         \/ Accepts(chan[r], m) /\ Gained(chan[r], chan'[r], m)
  BY <1>4, DeliverKeeps
<1> HIDE DEF m
<1>7. /\ Waiting(r, s)' = Waiting(r, s) \ {n} /\ n \in Waiting(r, s)
      /\ \A k \in Got(r, s) : k < n
      /\ \A k \in Waiting(r, s) : k = n \/ n < k
      /\ \A q, p \in Clients : q # r \/ p # s => Waiting(q, p)' = Waiting(q, p)
  <2>1. /\ t.n \in Waiting(t.to, t.from)
        /\ \A k \in Got(t.to, t.from) : k < t.n
        /\ \A k \in Waiting(t.to, t.from) : k = t.n \/ t.n < k
        /\ Waiting(t.to, t.from)' = Waiting(t.to, t.from) \ {t.n}
        /\ \A q, p \in Clients :
              q # t.to \/ p # t.from => Waiting(q, p)' = Waiting(q, p)
    <3>1. /\ queue[l] # <<>> /\ queue'[l] = Tail(queue[l])
          /\ \A k \in Loops \ {l} : queue'[k] = queue[k]
          /\ t \in Task /\ t = Head(queue[l])
      BY <1>1, <1>2
    <3>2. t.n \in Waiting(t.to, t.from)
      BY <3>1, WaitingTaken
    <3>3. \A k \in Got(t.to, t.from) : k < t.n
      BY <3>1, WaitingTaken
    <3>4. \A k \in Waiting(t.to, t.from) : k = t.n \/ t.n < k
      BY <3>1, WaitingTaken
    <3>5. Waiting(t.to, t.from)' = Waiting(t.to, t.from) \ {t.n}
      BY <3>1, WaitingTaken
    <3>6. \A q, p \in Clients : q # t.to \/ p # t.from => Waiting(q, p)' = Waiting(q, p)
      BY <3>1, WaitingTaken
    <3> QED BY <3>2, <3>3, <3>4, <3>5, <3>6
  <2>2. /\ n \in Waiting(r, s)
        /\ \A k \in Got(r, s) : k < n
        /\ \A k \in Waiting(r, s) : k = n \/ n < k
    BY <1>3, <2>1
  <2>3. Waiting(r, s)' = Waiting(r, s) \ {n}
    BY <1>3, <2>1
  <2>4. \A q, p \in Clients : q # r \/ p # s => Waiting(q, p)' = Waiting(q, p)
    BY <1>3, <2>1
  <2> QED BY <2>2, <2>3, <2>4
<1>8. ASSUME NEW q \in Clients, NEW p \in Clients, q # r \/ p # s
      PROVE  Got(q, p)' = Got(q, p)
  <2>1. CASE chan'[q].out = chan[q].out
    BY <2>1, GotSame
  <2>2. CASE chan'[q].out # chan[q].out
    <3>1. q = r /\ chan'[r].out = Append(chan[r].out, m)
      BY <1>6, <2>2 DEF Moved, Gained
    <3>2. {k \in {m.n} : IsText(m) /\ m.from = p} = {}
      BY <1>5, <1>8, <3>1
    <3>3. Got(q, p)' = Got(q, p) \cup {k \in {m.n} : IsText(m) /\ m.from = p}
      BY <1>5, <3>1, GotGained
    <3> QED BY <3>2, <3>3
  <2> QED BY <2>1, <2>2
<1>9. \/ Accepts(chan[r], m) /\ Got(r, s)' = Got(r, s) \cup {n}
      \/ ~Accepts(chan[r], m) /\ Got(r, s)' = Got(r, s)
  <2>1. CASE Accepts(chan[r], m)
    <3>1. chan'[r].out = Append(chan[r].out, m)
      BY <1>6, <2>1 DEF Gained
    <3> QED BY <1>5, <2>1, <3>1, GotGained
  <2>2. CASE ~Accepts(chan[r], m)
    BY <1>6, <2>2, GotSame DEF Moved
  <2> QED BY <2>1, <2>2
<1>10. \A q, p \in Clients : (Casting(p)' <=> Casting(p)) /\ Due(q, p)' = Due(q, p)
  BY <1>4 DEF Casting, Due
<1>11. \A q \in Clients : Open(q)' => Open(q)
  BY <1>6 DEF Keeps, Moved, Gained, Accepts, Open
<1>12. Open(r)' /\ ~Accepts(chan[r], m) => Got(r, s) = {}
  BY <1>5, <1>11 DEF Accepts, Open, TextsOK
<1>13. /\ texts[s] \in Nat /\ n <= texts[s] /\ n \notin Due(r, s) /\ Due(r, s) \subseteq {texts[s]}
       /\ \A k \in Got(r, s) \cup Waiting(r, s) : k \in Nat /\ k <= texts[s]
  BY <1>7, Numbers DEF Due
<1>14. MembersOK'
  <2>1. \A k \in Loops : \A j \in DOMAIN queue'[k] :
           \E i \in DOMAIN queue[k] : queue'[k][j].to = queue[k][i].to
    <3>1. queue[l] \in Seq(Task) /\ \A k \in Loops \ {l} : queue'[k] = queue[k]
      BY <1>2 DEF TypeOK
    <3>2. queue'[l] = Tail(queue[l])
      BY <1>2 DEF TypeOK
    <3>3. /\ Tail(queue[l]) \in Seq(Task) /\ Len(Tail(queue[l])) = Len(queue[l]) - 1
          /\ \A i \in 1 .. Len(queue[l]) - 1 : Tail(queue[l])[i] = queue[l][i + 1]
      BY <1>2, <3>1, HeadTailProperties
    <3>4. /\ Len(queue[l]) \in Nat /\ DOMAIN queue[l] = 1 .. Len(queue[l])
          /\ DOMAIN queue'[l] = 1 .. Len(queue[l]) - 1
      BY <3>1, <3>2, <3>3, LenProperties
    <3>5. \A j \in DOMAIN queue'[l] : j + 1 \in DOMAIN queue[l] /\ queue'[l][j] = queue[l][j + 1]
      BY <3>2, <3>3, <3>4
    <3> QED BY <3>1, <3>5
  <2> QED BY <1>4, <1>6, <2>1, MembersKept
<1>15. \A q \in Clients : Upgraded(chan[q]) => Upgraded(chan'[q])
  BY <1>5, <1>6, UpgradedKept
<1>16. TextsOK'
  <2>1. Accepts(chan[r], m) => Upgraded(chan'[r])
    BY <1>5, <1>15 DEF Accepts
  <2>2. n # 0
    BY <1>7 DEF TextsOK
  <2>3. \A q, p \in Clients : /\ 0 \notin Got(q, p)' \cup Waiting(q, p)'
                              /\ Got(q, p)' # {} => Upgraded(chan'[q])
    BY <1>7, <1>8, <1>9, <1>15, <2>1, <2>2 DEF TextsOK
  <2> QED BY <1>4, <1>10, <2>3 DEF TextsOK
<1>17. Pursued'
  <2> SUFFICES ASSUME NEW q \in Clients, NEW p \in Clients, Open(q)'
               PROVE  /\ \A k \in Got(q, p)' \cup Waiting(q, p)' :
                            k .. texts[p] \subseteq Got(q, p)' \cup Waiting(q, p)' \cup Due(q, p)
                      /\ Got(q, p)' \cup Waiting(q, p)' # {} /\ Casting(p) =>
                            q \in todo[LoopOf[p]] \cup seen[LoopOf[p]]
    BY <1>4, <1>10 DEF Pursued
  <2>1. CASE q # r \/ p # s
    BY <1>7, <1>8, <1>11, <2>1 DEF Pursued
  <2>2. CASE q = r /\ p = s
    <3>1. /\ \A k \in Got(r, s) \cup Waiting(r, s) :
                k .. texts[s] \subseteq Got(r, s) \cup Waiting(r, s) \cup Due(r, s)
          /\ Casting(s) => r \in todo[LoopOf[s]] \cup seen[LoopOf[s]]
      BY <1>7, <1>11, <2>2 DEF Pursued
    <3>2. CASE Accepts(chan[r], m)
      <4>1. Got(r, s)' \cup Waiting(r, s)' = Got(r, s) \cup Waiting(r, s)
        BY <1>7, <1>9, <3>2
      <4> QED BY <2>2, <3>1, <4>1
    <3>3. CASE ~Accepts(chan[r], m)
      <4>1. Got(r, s)' = {} /\ Got(r, s) = {}
        BY <1>9, <1>12, <2>2, <3>3
      <4>2. \A k \in Waiting(r, s)' : k \in Waiting(r, s) /\ n \notin k .. texts[s]
        BY <1>7, <1>13
      <4>3. \A k \in Waiting(r, s)' : k .. texts[s] \subseteq Waiting(r, s)' \cup Due(r, s)
        BY <1>7, <3>1, <4>1, <4>2
      <4> QED BY <2>2, <3>1, <4>1, <4>2, <4>3
    <3> QED BY <3>2, <3>3
  <2> QED BY <2>1, <2>2
<1>18. Contiguous'
  <2>1. ASSUME Accepts(chan[r], m), NEW i \in Got(r, s) \cup {n}, NEW j \in Got(r, s) \cup {n}
        PROVE  i .. j \subseteq Got(r, s) \cup {n}
    <3>1. Open(r)
      BY <2>1 DEF Accepts, Open
    <3>2. \A k \in Got(r, s) : k .. n \subseteq Got(r, s) \cup {n}
      <4> SUFFICES ASSUME NEW k \in Got(r, s), NEW x \in k .. n, x # n PROVE x \in Got(r, s)
        OBVIOUS
      <4>1. x \in k .. texts[s] /\ x < n /\ n <= texts[s]
        BY <1>13
      <4>2. x \in Got(r, s) \cup Waiting(r, s) \cup Due(r, s)
        BY <3>1, <4>1 DEF Pursued
      <4> QED BY <1>7, <1>13, <4>1, <4>2
    <3>3. CASE j = n
      BY <1>13, <3>2, <3>3
    <3>4. CASE i = n /\ j # n
      BY <1>7, <1>13, <3>4
    <3>5. CASE i \in Got(r, s) /\ j \in Got(r, s)
      BY <3>5 DEF Contiguous
    <3> QED BY <3>3, <3>4, <3>5
  <2> QED BY <1>8, <1>9, <2>1 DEF Contiguous
<1> QED BY <1>14, <1>16, <1>17, <1>18

\* A broadcast ends: it owes nothing to an open channel that was given a text
\* of its sender before.
LEMMA EndCastDelivery ==
    ASSUME TypeOK, OrderInv, DeliveryInv, NEW l \in Loops, EndCast(l)
    PROVE  DeliveryInv'
<1> USE DEF DeliveryInv
<1>1. PICK s \in Clients : s = reading[l]
  BY ReadingClient DEF OrderInv, EndCast
<1>2. LoopOf[s] = l /\ Casting(s) /\ l \in Loops
  BY <1>1, ReadingClient DEF OrderInv, EndCast, Casting
<1>3. /\ UNCHANGED <<chan, group, queue, texts, reading>>
      /\ casting' = [casting EXCEPT ![l] = FALSE] /\ todo' = [todo EXCEPT ![l] = {}]
      /\ seen' = [seen EXCEPT ![l] = {}] /\ Exhausted(l)
  BY DEF EndCast, countVars
<1>4. \A q, p \in Clients : Got(q, p)' = Got(q, p) /\ Waiting(q, p)' = Waiting(q, p)
  BY <1>3, GotSame, WaitingSame
<1>5. /\ ~Casting(s)'
      /\ \A p \in Clients \ {s} : (Casting(p)' <=> Casting(p))
      /\ \A p \in Clients \ {s} : Casting(p) => LoopOf[p] # l
  BY <1>1, <1>2, <1>3, LoopAssumption DEF Casting, TypeOK
<1>6. \A p \in Clients \ {s} : Casting(p) =>
         todo'[LoopOf[p]] = todo[LoopOf[p]] /\ seen'[LoopOf[p]] = seen[LoopOf[p]]
  BY <1>3, <1>5
<1>7. \A q, p \in Clients : p # s => Due(q, p)' = Due(q, p)
  BY <1>3, <1>5, <1>6 DEF Due
<1>8. MembersOK'
  <2>1. \A k \in Loops : todo'[k] \subseteq todo[k]
    BY <1>3 DEF TypeOK
  <2> QED BY <1>3, <2>1, StillKeeps, MembersKept
<1>9. TextsOK'
  BY <1>3, <1>4, <1>5 DEF TextsOK
<1>10. ASSUME NEW q \in Clients, Open(q), Got(q, s) \cup Waiting(q, s) # {}
       PROVE  Due(q, s) = {}
  <2>1. q \in todo[l] \cup seen[l] /\ q \in group
    BY <1>2, <1>10 DEF Pursued, MembersOK
  <2>2. q \in seen[l]
    BY <1>3, <2>1 DEF Exhausted
  <2> QED BY <1>2, <2>2 DEF Due
<1>11. Pursued'
  <2> SUFFICES ASSUME NEW q \in Clients, NEW p \in Clients, Open(q)
               PROVE  /\ \A k \in Got(q, p) \cup Waiting(q, p) :
                            k .. texts[p] \subseteq Got(q, p) \cup Waiting(q, p) \cup Due(q, p)'
                      /\ Got(q, p) \cup Waiting(q, p) # {} /\ Casting(p)' =>
                            q \in todo'[LoopOf[p]] \cup seen'[LoopOf[p]]
    BY <1>3, <1>4 DEF Pursued, Open
  <2>1. CASE p = s
    BY <1>5, <1>10, <2>1 DEF Pursued
  <2>2. CASE p # s
    BY <1>5, <1>6, <1>7, <2>2 DEF Pursued
  <2> QED BY <2>1, <2>2
<1>12. Contiguous'
  BY <1>4 DEF Contiguous
<1> QED BY <1>8, <1>9, <1>11, <1>12

\* Every step of the server keeps the deliveries complete.
LEMMA DeliveryStep ==
    ASSUME TypeOK, TypeOK', OrderInv, DeliveryInv, [Next]_vars
    PROVE  DeliveryInv'
<1> USE DEF loopVars, countVars
<1> DEFINE pong == Control("pong")
<1>0. \A k \in Responses \cup {"pong", "close"} : Control(k) \in Item /\ ~IsText(Control(k))
  BY ItemTypes DEF Control, IsText, Responses
<1>1. ASSUME UNCHANGED <<chan, group, queue, texts, todo, seen, casting>>,
             \A l \in Loops : casting[l] => reading'[l] = reading[l]
      PROVE  DeliveryInv'
  BY <1>0, <1>1, StillKeeps, QuietDelivery
<1>2. CASE UNCHANGED vars
  BY <1>1, <1>2 DEF vars
<1>3. ASSUME NEW c \in Clients, ReadRequest(c) \/ ReadFrames(c) PROVE DeliveryInv'
  <2>1. PICK msgs : StartCycle(c, msgs)
    BY <1>3 DEF ReadRequest, ReadFrames
  <2>2. ~casting[LoopOf[c]]
    BY <2>1, LoopAssumption DEF StartCycle, OrderInv, LoopsOK
  <2>3. /\ UNCHANGED <<chan, group, queue, texts, todo, seen, casting>>
        /\ reading' = [reading EXCEPT ![LoopOf[c]] = c]
    BY <2>1 DEF StartCycle
  <2>4. \A l \in Loops : casting[l] => reading'[l] = reading[l]
    BY <2>2, <2>3 DEF TypeOK
  <2> QED BY <1>1, <2>3, <2>4
<1>4. ASSUME NEW l \in Loops, Binary(l) PROVE DeliveryInv'
  BY <1>1, <1>4 DEF Binary
<1>5. ASSUME NEW c \in Clients, NEW x, NEW m \in Item, ~IsText(m), Put(c, x),
             Moved(chan[c], x) \/ Gained(chan[c], x, m),
             UNCHANGED <<queue, texts, todo, seen, casting>>,
             \A l \in Loops : casting[l] => reading'[l] = reading[l]
      PROVE  DeliveryInv'
  BY <1>5, PutKeeps, QuietDelivery
<1>6. ASSUME NEW c \in Clients PROVE ChannelOK(chan[c]) /\ Moved(chan[c], Closed(chan[c]))
  BY DEF TypeOK, ChannelOK, Channel, Closed, Moved
<1>7. ASSUME NEW c \in Clients, PeerGone(c) PROVE DeliveryInv'
  BY <1>0, <1>5, <1>6, <1>7 DEF PeerGone
<1>8. ASSUME NEW c \in Clients, Drain(c) PROVE DeliveryInv'
  <2>1. PICK w \in chan[c].written + 1 .. chan[c].flushed : Put(c, Written(chan[c], w))
    BY <1>8 DEF Drain
  <2>2. w \in chan[c].written .. chan[c].flushed
    BY DEF TypeOK, Channel
  <2>3. Moved(chan[c], Written(chan[c], w))
    BY <1>6, <2>2, WrittenMoves
  <2> QED BY <1>0, <1>5, <1>8, <2>1, <2>3 DEF Drain
<1>9. ASSUME NEW l \in Loops, NEW k \in Responses \cup {"pong", "close"},
             reading[l] \in Clients, Reply(l, Control(k)),
             UNCHANGED <<reading, casting, todo, seen, queue, countVars>>
      PROVE  DeliveryInv'
  <2>1. PICK x \in FlushOutcomes(Write(chan[reading[l]], Control(k))) : Put(reading[l], x)
    BY <1>9 DEF Reply
  <2>2. Moved(chan[reading[l]], x) \/ Gained(chan[reading[l]], x, Control(k))
    BY <1>0, <1>6, <1>9, <2>1, WriteFlushMoves
  <2> QED BY <1>0, <1>5, <1>9, <2>1, <2>2
<1>10. ASSUME NEW l \in Loops, BadRequest(l) \/ OldVersion(l) \/ Handshake(l) PROVE DeliveryInv'
  <2>1. PICK k \in Responses, q \in Requests : Answer(l, q, k)
    BY <1>10 DEF BadRequest, OldVersion, Handshake, Responses, Requests
  <2>2. reading[l] \in Clients
    BY <2>1, ReadingClient DEF Answer, Handles, OrderInv
  <2> QED BY <1>9, <2>1, <2>2 DEF Answer
<1>11. ASSUME NEW l \in Loops, CloseFrame(l) PROVE DeliveryInv'
  <2>1. reading[l] \in Clients
    BY <1>11, ReadingClient DEF CloseFrame, Handles, OrderInv
  <2> QED BY <1>9, <1>11, <2>1 DEF CloseFrame
<1>12. ASSUME NEW l \in Loops, Ping(l) PROVE DeliveryInv'
  <2>1. reading[l] \in Clients
    BY <1>12, ReadingClient DEF Ping, Handles, OrderInv
  <2>2. Put(reading[l], Write(chan[reading[l]], pong))
    BY <1>12 DEF Ping
  <2>3. \/ Moved(chan[reading[l]], Write(chan[reading[l]], pong))
        \/ Gained(chan[reading[l]], Write(chan[reading[l]], pong), pong)
    BY <1>0, <1>6, <2>1, WriteMoves DEF Moved, ChannelOK, Channel
  <2> QED BY <1>0, <1>5, <1>12, <2>1, <2>2, <2>3 DEF Ping
<1>13. ASSUME NEW l \in Loops, ExceptionCaught(l) PROVE DeliveryInv'
  <2>1. reading[l] \in Clients
    BY <1>13, ReadingClient DEF ExceptionCaught, OrderInv
  <2> QED BY <1>0, <1>5, <1>6, <1>13, <2>1 DEF ExceptionCaught
<1>14. ASSUME NEW l \in Loops, ReadComplete(l) PROVE DeliveryInv'
  <2>1. reading[l] \in Clients
    BY <1>14, ReadingClient DEF ReadComplete, OrderInv
  <2>2. PICK x \in FlushOutcomes(chan[reading[l]]) : Put(reading[l], x)
    BY <1>14 DEF ReadComplete
  <2>3. Moved(chan[reading[l]], x)
    BY <1>6, <2>1, <2>2, FlushMoves
  <2>4. /\ UNCHANGED <<queue, texts, casting, todo, seen>> /\ ~casting[l]
        /\ reading' = [reading EXCEPT ![l] = NoOne]
    BY <1>14 DEF ReadComplete
  <2>5. \A k \in Loops : casting[k] => reading'[k] = reading[k]
    BY <2>4 DEF TypeOK
  <2> QED BY <1>0, <1>5, <2>1, <2>2, <2>3, <2>4, <2>5
<1> QED
  BY <1>2, <1>3, <1>4, <1>7, <1>8, <1>10, <1>11, <1>12, <1>13, <1>14,
     AcceptDelivery, StartCastDelivery, CastDirectDelivery, CastTaskDelivery,
     RunTaskDelivery, EndCastDelivery DEF Next, Peer, Handle

LEMMA DeliveryInit == Init => DeliveryInv
<1> SUFFICES ASSUME Init PROVE DeliveryInv
  OBVIOUS
<1>1. \A r, s \in Clients : Got(r, s) = {} /\ Waiting(r, s) = {}
  BY LoopAssumption DEF Init, Got, TextsOf, TextsIn, Waiting, TasksOf
<1>2. MembersOK
  <2>1. \A c \in Clients : chan[c].out = <<>> /\ chan[c].state = "new" /\ c \notin group
    BY DEF Init
  <2>2. \A l \in Loops : todo[l] = {} /\ DOMAIN queue[l] = {}
    BY DEF Init
  <2> QED BY <2>1, <2>2 DEF MembersOK, Open
<1>3. \A s \in Clients : ~Casting(s)
  BY LoopAssumption DEF Init, Casting
<1> QED BY <1>1, <1>2, <1>3 DEF DeliveryInv, TextsOK, Pursued, Contiguous

\* In every reachable state the deliveries are complete.
THEOREM DeliveryInvariance == Spec => [](TypeOK /\ OrderInv /\ DeliveryInv)
<1>1. Init => TypeOK /\ OrderInv /\ DeliveryInv
  BY InitInv, DeliveryInit
<1>2. TypeOK /\ OrderInv /\ DeliveryInv /\ [Next]_vars => (TypeOK /\ OrderInv /\ DeliveryInv)'
  BY NextInv, DeliveryStep
<1> QED BY <1>1, <1>2, PTL DEF Spec

\* From the first text of a sender that an open channel was given, it is given
\* every one, whichever of the two ways of group.writeAndFlush it takes and
\* whoever joins or leaves the group meanwhile.
THEOREM NoneIsSkipped == Spec => []NoneSkipped
<1>1. TypeOK /\ OrderInv /\ DeliveryInv => NoneSkipped
  <2> SUFFICES ASSUME TypeOK, OrderInv, DeliveryInv,
                      NEW r \in Clients, NEW s \in Clients, NEW i \in TextsOf(r, s),
                      Open(r), NEW m \in chan[r].out[i].n .. texts[s]
               PROVE  \/ \E j \in TextsOf(r, s) : chan[r].out[j].n = m
                      \/ \E k \in DOMAIN queue[LoopOf[r]] :
                           queue[LoopOf[r]][k] = [to |-> r, from |-> s, n |-> m]
                      \/ m = texts[s] /\ Casting(s) /\ r \notin seen[LoopOf[s]]
    BY DEF NoneSkipped, Open
  <2>1. m \in Got(r, s) \cup Waiting(r, s) \cup Due(r, s)
    BY DEF DeliveryInv, Pursued, Got
  <2>2. CASE m \in Got(r, s)
    BY <2>2 DEF Got
  <2>3. CASE m \in Waiting(r, s)
    <3>1. PICK k \in DOMAIN queue[LoopOf[r]] :
             /\ queue[LoopOf[r]][k].to = r /\ queue[LoopOf[r]][k].from = s
             /\ queue[LoopOf[r]][k].n = m
      BY <2>3 DEF Waiting, TasksOf
    <3>2. queue[LoopOf[r]][k] \in Task
      BY LoopAssumption, QueuedTask
    <3> QED BY <3>1, <3>2 DEF Task
  <2>4. CASE m \in Due(r, s)
    BY <2>4 DEF Due
  <2> QED BY <2>1, <2>2, <2>3, <2>4
<1> QED BY <1>1, DeliveryInvariance, PTL

-----------------------------------------------------------------------------
(* SenderFifo is implemented.                                               *)

Reached == [c \in Clients |-> HeardBy(chan[c])]

\* What reached a client is a sequence of what may be said, as long as the
\* cursor tells, and empty before the channel is accepted.
LEMMA HeardBySeq ==
    ASSUME NEW ch, ChannelOK(ch)
    PROVE  /\ HeardBy(ch) \in Seq(Fifo!Said)
           /\ Len(HeardBy(ch)) = ch.written
           /\ \A i \in 1 .. ch.written :
                 /\ i \in 1 .. Len(ch.out) /\ ch.out[i] \in Item
                 /\ HeardBy(ch)[i] = [from |-> ch.out[i].from, n |-> ch.out[i].n]
<1>1. ch.out \in Seq(Item) /\ ch.written \in Nat /\ Len(ch.out) \in Nat
      /\ ch.written <= Len(ch.out)
  <2>1. ch.out \in Seq(Item) /\ ch.written \in Nat /\ ch.flushed \in Nat
    BY DEF ChannelOK, Channel
  <2>2. Len(ch.out) \in Nat
    BY <2>1, LenProperties
  <2> QED BY <2>1, <2>2 DEF ChannelOK, CursorsOK
<1>2. ASSUME NEW i \in 1 .. ch.written
      PROVE  i \in 1 .. Len(ch.out) /\ ch.out[i] \in Item
  BY <1>1, <1>2, ElementOfSeq
<1>3. ASSUME NEW i \in 1 .. ch.written
      PROVE  [from |-> ch.out[i].from, n |-> ch.out[i].n] \in Fifo!Said
  BY <1>2, ItemFields DEF Fifo!Said
<1> QED BY <1>1, <1>2, <1>3 DEF HeardBy

LEMMA FifoInit == Init => Fifo!Init
<1> SUFFICES ASSUME Init PROVE Fifo!Init
  OBVIOUS
<1>1. TypeOK
  BY InitInv
<1>2. ASSUME NEW c \in Clients PROVE HeardBy(chan[c]) = <<>>
  <2>1. ChannelOK(chan[c]) /\ chan[c].written = 0
    BY <1>1 DEF TypeOK, ChannelOK, Init
  <2>2. HeardBy(chan[c]) \in Seq(Fifo!Said) /\ Len(HeardBy(chan[c])) = 0
    BY <2>1, HeardBySeq
  <2> QED BY <2>2, EmptySeq
<1>3. texts = [s \in Clients |-> 0]
  BY DEF Init
<1> QED BY <1>2, <1>3 DEF Fifo!Init

\* If the texts of a sender on a channel are in order and leave none out, so
\* are those that reached its client.
LEMMA InARow ==
    ASSUME NEW ch, ChannelOK(ch), NEW s \in Clients,
           NEW T, T = TextsIn(ch.out, s), NEW N, N = {ch.out[i].n : i \in T},
           \A i, j \in T : i < j => ch.out[i].n < ch.out[j].n,
           \A m, n \in N : m .. n \subseteq N
    PROVE  Fifo!Consecutive(HeardBy(ch), s)
<1> DEFINE h == HeardBy(ch)
           out == ch.out
           w == ch.written
<1>1. /\ out \in Seq(Item)
      /\ \A i \in T : i \in 1 .. Len(out) /\ out[i] \in Item
                     /\ out[i].from = s /\ out[i].n \in Nat
  <2>1. out \in Seq(Item) /\ DOMAIN out = 1 .. Len(out)
    BY LenProperties DEF ChannelOK, Channel
  <2> QED BY <2>1, ElementOfSeq, ItemFields DEF TextsIn
<1>2. w \in Nat /\ DOMAIN h = 1 .. w
  BY DEF ChannelOK, Channel, HeardBy
<1>3. ASSUME NEW i \in 1 .. w
      PROVE  /\ i \in 1 .. Len(out) /\ out[i] \in Item /\ out[i].n \in Nat
             /\ h[i] = [from |-> out[i].from, n |-> out[i].n]
             /\ h[i].from = s => i \in T
  <2>1. i \in 1 .. Len(out) /\ out[i] \in Item
        /\ h[i] = [from |-> out[i].from, n |-> out[i].n]
    BY HeardBySeq
  <2>2. i \in DOMAIN out
    BY <1>1, <2>1, LenProperties
  <2> QED BY <2>1, <2>2, ItemFields, NoOneAssumption DEF TextsIn
<1>4. \A i, j \in T : i < j => out[i].n < out[j].n
  OBVIOUS
<1> SUFFICES ASSUME NEW i \in 1 .. w, h[i].from = s, NEW e \in 1 .. i - 1, h[e].from = s
             PROVE  \E j \in 1 .. i - 1 : /\ h[j] = [from |-> s, n |-> h[i].n - 1]
                                          /\ \A k \in j + 1 .. i - 1 : h[k].from # s
  BY <1>2 DEF Fifo!Consecutive
<1> HIDE DEF h, w
<1>5. e \in 1 .. w /\ e < i /\ i \in T /\ e \in T
  BY <1>2, <1>3
<1>6. out[e].n < out[i].n /\ out[e].n \in Nat /\ out[i].n \in Nat
  BY <1>3, <1>4, <1>5
<1>7. out[i].n - 1 \in N
  <2>1. out[e].n \in N /\ out[i].n \in N
    BY <1>5
  <2>2. out[e].n .. out[i].n \subseteq N
    BY <2>1
  <2>3. out[i].n - 1 \in out[e].n .. out[i].n
    BY <1>6
  <2> QED BY <2>2, <2>3
<1>8. PICK j \in T : out[j].n = out[i].n - 1
  BY <1>7
<1>9. j \in Nat /\ j < i /\ 1 <= j
  <2>1. j \in Nat /\ 1 <= j /\ out[j].n < out[i].n
    BY <1>1, <1>6, <1>8
  <2>2. i # j
    BY <1>6, <2>1
  <2>3. CASE i < j
    <3>1. out[i].n < out[j].n
      BY <1>4, <1>5, <2>3
    <3> QED BY <1>6, <1>8, <3>1
  <2> QED BY <1>2, <2>1, <2>2, <2>3
<1>10. j \in 1 .. w /\ j \in 1 .. i - 1
  BY <1>2, <1>9
<1>11. h[j] = [from |-> s, n |-> h[i].n - 1]
  <2>1. out[j].from = s
    BY <1>1
  <2>2. h[j] = [from |-> out[j].from, n |-> out[j].n]
    BY <1>3, <1>10
  <2>3. h[i] = [from |-> out[i].from, n |-> out[i].n]
    BY <1>3
  <2>4. h[i].n = out[i].n
    BY <2>3
  <2> QED BY <1>8, <2>1, <2>2, <2>4
<1>12. ASSUME NEW k \in j + 1 .. i - 1, h[k].from = s PROVE FALSE
  <2>1. k \in 1 .. w /\ j < k /\ k < i
    BY <1>2, <1>9
  <2>2. out[j].n < out[k].n /\ out[k].n < out[i].n /\ out[k].n \in Nat
    BY <1>3, <1>4, <1>12, <2>1
  <2> QED BY <1>6, <1>8, <2>2
<1> QED BY <1>10, <1>11, <1>12

\* A step that changes one channel as the loops do lets its client hear more.
LEMMA HearStep ==
    ASSUME TypeOK, TypeOK', OrderInv', DeliveryInv', NEW c \in Clients,
           \/ Moved(chan[c], chan'[c])
           \/ \E m \in Item : Gained(chan[c], chan'[c], m),
           \A q \in Clients \ {c} : chan'[q] = chan[q], UNCHANGED texts
    PROVE  Fifo!Hear(c)
<1>1. \A q \in Clients : ChannelOK(chan[q]) /\ ChannelOK(chan'[q])
  BY DEF TypeOK, ChannelOK
<1>2. Reached' = [q \in Clients |-> HeardBy(chan'[q])]
  BY DEF Reached, HeardBy
<1>3. Reached' \in [Clients -> Seq(Fifo!Said)]
  BY <1>1, <1>2, HeardBySeq
<1>4. Fifo!IsExtension(HeardBy(chan[c]), HeardBy(chan'[c]))
  <2> DEFINE g == HeardBy(chan[c])
             h == HeardBy(chan'[c])
  <2>1. /\ g \in Seq(Fifo!Said) /\ h \in Seq(Fifo!Said)
        /\ Len(g) = chan[c].written /\ Len(h) = chan'[c].written
        /\ chan[c].written \in Nat /\ chan'[c].written \in Nat
        /\ chan[c].written <= chan'[c].written
    BY <1>1, HeardBySeq DEF Moved, Gained, ChannelOK, Channel
  <2>2. ASSUME NEW i \in 1 .. chan[c].written PROVE h[i] = g[i]
    <3>1. /\ i \in 1 .. Len(chan[c].out)
          /\ g[i] = [from |-> chan[c].out[i].from, n |-> chan[c].out[i].n]
      BY <1>1, HeardBySeq
    <3>4. i \in 1 .. chan'[c].written
      BY <2>1
    <3>2. h[i] = [from |-> chan'[c].out[i].from, n |-> chan'[c].out[i].n]
      BY <1>1, <3>4, HeardBySeq
    <3>3. chan'[c].out[i] = chan[c].out[i]
      <4>1. chan[c].out \in Seq(Item)
        BY <1>1 DEF ChannelOK, Channel
      <4> QED BY <3>1, <4>1, AppendProperties DEF Moved, Gained
    <3> QED BY <3>1, <3>2, <3>3
  <2> HIDE DEF g, h
  <2>3. /\ SubSeq(h, 1, Len(g)) \in Seq(Fifo!Said)
        /\ Len(SubSeq(h, 1, Len(g))) = Len(g)
        /\ \A i \in 1 .. Len(g) : SubSeq(h, 1, Len(g))[i] = h[i]
    <3>1. \A i \in 1 .. Len(g) : h[i] \in Fifo!Said
      BY <2>1, ElementOfSeq
    <3> QED BY <2>1, <3>1, SubSeqProperties
  <2>4. SubSeq(h, 1, Len(g)) = g
    BY <2>1, <2>2, <2>3, SeqEqual
  <2> QED BY <2>1, <2>4 DEF Fifo!IsExtension, g, h
<1>5. \A q \in Clients \ {c} : HeardBy(chan'[q]) = HeardBy(chan[q])
  OBVIOUS
<1>6. ASSUME NEW i \in 1 .. chan'[c].written, HeardBy(chan'[c])[i].from # NoOne
      PROVE  HeardBy(chan'[c])[i].n \in 1 .. texts'[HeardBy(chan'[c])[i].from]
  <2>1. PICK m \in Item : m = chan'[c].out[i]
    BY <1>1, HeardBySeq
  <2>2. HeardBy(chan'[c])[i] = [from |-> m.from, n |-> m.n]
    BY <1>1, <2>1, HeardBySeq
  <2>3. IsText(m) /\ m.from \in Clients /\ m.n \in Nat
    BY <1>6, <2>2, ItemFields
  <2>4. PICK s \in Clients : s = m.from
    BY <2>3
  <2>5. i \in TextsOf(c, s)'
    <3>1. i \in DOMAIN chan'[c].out
      <4>1. chan'[c].out \in Seq(Item) /\ i \in 1 .. Len(chan'[c].out)
        BY <1>1, HeardBySeq DEF ChannelOK, Channel
      <4> QED BY <4>1, LenProperties
    <3> QED BY <2>1, <2>3, <2>4, <3>1 DEF TextsOf, TextsIn
  <2>6. m.n <= texts'[s] /\ texts'[s] \in Nat
    BY <2>1, <2>5 DEF OrderInv, OutGiven, Given, TypeOK
  <2>7. m.n # 0
    BY <2>1, <2>5 DEF DeliveryInv, TextsOK, Got
  <2> QED BY <2>2, <2>3, <2>4, <2>6, <2>7
<1>7. \A s \in Clients : Fifo!Consecutive(HeardBy(chan'[c]), s)
  <2> SUFFICES ASSUME NEW s \in Clients PROVE Fifo!Consecutive(HeardBy(chan'[c]), s)
    OBVIOUS
  <2> DEFINE T == TextsIn(chan'[c].out, s)
             N == {chan'[c].out[i].n : i \in T}
  <2>1. \A i, j \in T : i < j => chan'[c].out[i].n < chan'[c].out[j].n
    BY DEF OrderInv, SenderOrder, TextsOf
  <2>2. \A m, n \in N : m .. n \subseteq N
    BY DEF DeliveryInv, Contiguous, Got, TextsOf
  <2> QED BY <1>1, <2>1, <2>2, InARow
<1>8. DOMAIN HeardBy(chan'[c]) = 1 .. chan'[c].written
  BY DEF HeardBy
<1> QED BY <1>2, <1>3, <1>4, <1>5, <1>6, <1>7, <1>8 DEF Fifo!Hear, Reached

\* A step of the server is one of SenderFifo, or changes nothing of it.
LEMMA FifoStep ==
    ASSUME TypeOK, TypeOK', OrderInv, OrderInv', DeliveryInv', [Next]_vars
    PROVE  [Fifo!Next]_<<texts, Reached>>
<1> USE DEF loopVars, countVars
<1>0. \A k \in Responses \cup {"pong", "close"} : Control(k) \in Item
  BY ItemTypes
<1>1. ASSUME UNCHANGED <<chan, texts>> PROVE UNCHANGED <<texts, Reached>>
  BY <1>1 DEF Reached, HeardBy
<1>2. CASE UNCHANGED vars
  BY <1>1, <1>2 DEF vars
<1>3. ASSUME NEW c \in Clients, NEW x, NEW m \in Item, UNCHANGED texts,
             chan' = [chan EXCEPT ![c] = x],
             Moved(chan[c], x) \/ Gained(chan[c], x, m)
      PROVE  Fifo!Next
  <2>1. chan'[c] = x /\ \A q \in Clients \ {c} : chan'[q] = chan[q]
    BY <1>3 DEF TypeOK
  <2>2. Fifo!Hear(c)
    BY <1>3, <2>1, HearStep
  <2> QED BY <2>2 DEF Fifo!Next
<1>4. ASSUME NEW c \in Clients
      PROVE  /\ ChannelOK(chan[c]) /\ Moved(chan[c], Closed(chan[c]))
             /\ Control("pong") \in Item
  BY <1>0 DEF TypeOK, ChannelOK, Channel, Closed, Moved
<1>5. ASSUME NEW c \in Clients, Peer(c) \/ Drain(c) PROVE [Fifo!Next]_<<texts, Reached>>
  <2>1. CASE ReadRequest(c) \/ ReadFrames(c)
    BY <1>1, <2>1 DEF ReadRequest, ReadFrames, StartCycle
  <2>2. CASE PeerGone(c)
    BY <1>3, <1>4, <2>2 DEF PeerGone, Put
  <2>3. CASE Drain(c)
    <3>1. PICK w \in chan[c].written + 1 .. chan[c].flushed : Put(c, Written(chan[c], w))
      BY <2>3 DEF Drain
    <3>2. w \in chan[c].written .. chan[c].flushed
      BY DEF TypeOK, Channel
    <3>3. Moved(chan[c], Written(chan[c], w))
      BY <1>4, <3>2, WrittenMoves
    <3> QED BY <1>3, <1>4, <2>3, <3>1, <3>3 DEF Drain, Put
  <2>4. CASE Accept(c)
    <3>1. UNCHANGED texts /\ chan' = [chan EXCEPT ![c].state = "open"]
      BY <2>4 DEF Accept
    <3>2. \A q \in Clients : HeardBy(chan'[q]) = HeardBy(chan[q])
      BY SMTT(30), <3>1 DEF TypeOK, Channel, HeardBy
    <3>3. Reached' = Reached
      BY <3>2 DEF Reached
    <3> QED BY <3>1, <3>3
  <2> QED BY <1>5, <2>1, <2>2, <2>3, <2>4 DEF Peer
<1>6. ASSUME NEW l \in Loops, NEW k \in Responses \cup {"pong", "close"},
             reading[l] \in Clients, Reply(l, Control(k)), UNCHANGED texts
      PROVE  Fifo!Next
  <2>1. PICK x \in FlushOutcomes(Write(chan[reading[l]], Control(k))) : Put(reading[l], x)
    BY <1>6 DEF Reply
  <2>2. Moved(chan[reading[l]], x) \/ Gained(chan[reading[l]], x, Control(k))
    BY <1>0, <1>4, <1>6, <2>1, WriteFlushMoves
  <2> QED BY <1>0, <1>3, <1>6, <2>1, <2>2 DEF Put
<1>7. ASSUME NEW r \in Clients, NEW s \in Clients, NEW n \in Nat,
             Deliver(r, s, n), UNCHANGED texts
      PROVE  Fifo!Next
  <2>1. PICK x \in FlushOutcomes(Write(chan[r], Text(s, n))) : Put(r, x)
    BY <1>7 DEF Deliver
  <2>2. Moved(chan[r], x) \/ Gained(chan[r], x, Text(s, n))
    BY <1>4, <2>1, ItemTypes, WriteFlushMoves
  <2> QED BY <1>3, <1>7, <2>1, <2>2, ItemTypes DEF Put
<1>8. ASSUME NEW l \in Loops, Handle(l) \/ RunTask(l) PROVE [Fifo!Next]_<<texts, Reached>>
  <2>1. CASE Binary(l) \/ EndCast(l)
    BY <1>1, <2>1 DEF Binary, EndCast
  <2>2. CASE BadRequest(l) \/ OldVersion(l) \/ Handshake(l)
    <3>1. PICK k \in Responses, q \in Requests : Answer(l, q, k)
      BY <2>2 DEF BadRequest, OldVersion, Handshake, Responses, Requests
    <3>2. reading[l] \in Clients
      BY <3>1, ReadingClient DEF Answer, Handles, OrderInv
    <3> QED BY <1>6, <3>1, <3>2 DEF Answer
  <2>3. CASE CloseFrame(l)
    <3>1. reading[l] \in Clients
      BY <2>3, ReadingClient DEF CloseFrame, Handles, OrderInv
    <3> QED BY <1>6, <2>3, <3>1 DEF CloseFrame
  <2>4. CASE Ping(l)
    <3>1. reading[l] \in Clients
      BY <2>4, ReadingClient DEF Ping, Handles, OrderInv
    <3>2. \/ Moved(chan[reading[l]], Write(chan[reading[l]], Control("pong")))
          \/ Gained(chan[reading[l]], Write(chan[reading[l]], Control("pong")), Control("pong"))
      BY <1>4, <3>1, WriteMoves DEF Moved, ChannelOK, Channel
    <3> QED BY <1>3, <1>4, <2>4, <3>1, <3>2 DEF Ping, Put
  <2>5. CASE ExceptionCaught(l)
    <3>1. reading[l] \in Clients
      BY <2>5, ReadingClient DEF ExceptionCaught, OrderInv
    <3> QED BY <1>3, <1>4, <2>5, <3>1 DEF ExceptionCaught, Put
  <2>6. CASE ReadComplete(l)
    <3>1. reading[l] \in Clients
      BY <2>6, ReadingClient DEF ReadComplete, OrderInv
    <3>2. PICK x \in FlushOutcomes(chan[reading[l]]) : Put(reading[l], x)
      BY <2>6 DEF ReadComplete
    <3>3. Moved(chan[reading[l]], x)
      BY <1>4, <3>1, <3>2, FlushMoves
    <3> QED BY <1>3, <1>4, <2>6, <3>1, <3>2, <3>3 DEF ReadComplete, Put
  <2>7. CASE StartCast(l)
    <3>1. reading[l] \in Clients
      BY <2>7, ReadingClient DEF StartCast, Handles, OrderInv
    <3>2. UNCHANGED chan /\ texts' = [texts EXCEPT ![reading[l]] = @ + 1]
      BY <2>7 DEF StartCast
    <3>3. Fifo!Say(reading[l])
      BY <3>2 DEF Fifo!Say, HeardBy
    <3> QED BY <3>1, <3>3 DEF Fifo!Next
  <2>8. ASSUME NEW r \in Clients, CastTo(l, r) PROVE [Fifo!Next]_<<texts, Reached>>
    <3>1. reading[l] \in Clients /\ texts[reading[l]] \in Nat
      BY <2>8, ReadingClient DEF CastTo, OrderInv, TypeOK
    <3>2. CASE LoopOf[r] = l
      BY <1>7, <2>8, <3>1, <3>2 DEF CastTo
    <3>3. CASE LoopOf[r] # l
      BY <1>1, <2>8, <3>3 DEF CastTo
    <3> QED BY <3>2, <3>3
  <2>9. CASE RunTask(l)
    <3>1. PICK t : t = Head(queue[l])
      OBVIOUS
    <3>2. t \in Task
      BY <2>9, <3>1, HeadTailProperties DEF RunTask, TypeOK
    <3>3. t.to \in Clients /\ t.from \in Clients /\ t.n \in Nat
      BY <3>2 DEF Task
    <3> QED BY <1>7, <2>9, <3>1, <3>3 DEF RunTask
  <2> QED BY <1>8, <2>1, <2>2, <2>3, <2>4, <2>5, <2>6, <2>7, <2>8, <2>9 DEF Handle
<1> QED BY <1>2, <1>5, <1>8 DEF Next

\* The loops, their queues, the changing group and the cursors implement the
\* FIFO promise: each client hears the texts of each sender in the order in
\* which they were said, none twice and, from the first one, none left out.
THEOREM FifoImplemented == Spec => ImplementsFifo
<1>1. Init => Fifo!Init
  BY FifoInit
<1>2. TypeOK /\ OrderInv /\ DeliveryInv /\ (TypeOK /\ OrderInv /\ DeliveryInv)'
         /\ [Next]_vars => [Fifo!Next]_<<texts, Reached>>
  BY FifoStep
<1>3. [][Fifo!Next]_<<texts, Reached>> => [][Fifo!Next]_<<texts, [c \in Clients |-> HeardBy(chan[c])]>>
  BY PTL DEF Reached
<1> QED BY <1>1, <1>2, <1>3, DeliveryInvariance, PTL DEF Spec, ImplementsFifo, Fifo!Spec

-----------------------------------------------------------------------------
(* What a channel accepted, as far as it ends or upgrades the channel.      *)

Ended(ch) == \E i \in DOMAIN ch.out : ch.out[i].kind \in Ends

\* Only the last item ends the channel, and it has not reached the socket.
EndsLast(ch) ==
    /\ \A i \in DOMAIN ch.out : ch.out[i].kind \in Ends => i = Len(ch.out)
    /\ ch.state = "open" => \A i \in 1 .. ch.written : ch.out[i].kind \notin Ends

Flushed(ch) == ch.state = "open" => ch.flushed = Len(ch.out)

LEMMA ItemsOf ==
    ASSUME NEW ch, ChannelOK(ch)
    PROVE  /\ ch.out \in Seq(Item) /\ Len(ch.out) \in Nat
           /\ DOMAIN ch.out = 1 .. Len(ch.out)
           /\ ch.written \in Nat /\ ch.flushed \in Nat
           /\ ch.written <= ch.flushed /\ ch.flushed <= Len(ch.out)
BY LenProperties DEF ChannelOK, CursorsOK, Channel

\* A write to a channel that has not ended lets its item be the last.
LEMMA WriteEnds ==
    ASSUME NEW ch, ChannelOK(ch), NEW m \in Item, EndsLast(ch),
           Accepts(ch, m) => ~Ended(ch)
    PROVE  /\ EndsLast(Write(ch, m))
           /\ Write(ch, m).state = ch.state
           /\ Ended(Write(ch, m)) => Ended(ch) \/ m.kind \in Ends
           /\ Upgraded(Write(ch, m)) => Upgraded(ch) \/ m.kind = "r101"
<1> DEFINE x == Write(ch, m)
<1>1. CASE ~Accepts(ch, m)
  BY <1>1, WriteMoves
<1>2. CASE Accepts(ch, m)
  <2>1. /\ x.out = Append(ch.out, m) /\ x.state = "open" /\ x.written = ch.written
        /\ ch.state = "open"
    BY <1>2, WriteMoves DEF Gained, Accepts
  <2>2. /\ ch.out \in Seq(Item) /\ Len(ch.out) \in Nat /\ DOMAIN ch.out = 1 .. Len(ch.out)
        /\ ch.written \in Nat /\ ch.written <= Len(ch.out)
    BY ItemsOf
  <2>3. /\ x.out \in Seq(Item) /\ Len(x.out) = Len(ch.out) + 1
        /\ \A i \in 1 .. Len(ch.out) : x.out[i] = ch.out[i]
        /\ x.out[Len(ch.out) + 1] = m
    BY <2>1, <2>2, AppendProperties
  <2>4. DOMAIN x.out = 1 .. Len(ch.out) + 1
    BY <2>3, LenProperties
  <2>5. \A i \in 1 .. Len(ch.out) : x.out[i].kind \notin Ends
    BY <1>2, <2>2, <2>3 DEF Ended
  <2> HIDE DEF x
  <2>6. EndsLast(x)
    BY <2>1, <2>2, <2>3, <2>4, <2>5 DEF EndsLast
  <2>7. Ended(x) => m.kind \in Ends
    BY <2>2, <2>3, <2>4, <2>5 DEF Ended
  <2>8. Upgraded(x) => Upgraded(ch) \/ m.kind = "r101"
    BY <2>2, <2>3, <2>4 DEF Upgraded
  <2> QED BY <2>1, <2>6, <2>7, <2>8 DEF x
<1> QED BY <1>1, <1>2

\* What only moves keeps its items; the socket takes none that ends it but by
\* closing it.
LEMMA MovedEnds ==
    ASSUME NEW ch, NEW x, Moved(ch, x), EndsLast(ch),
           x.state = "open" => \A i \in 1 .. x.written : x.out[i].kind \notin Ends
    PROVE  /\ EndsLast(x)
           /\ x.state = "open" => ch.state = "open"
           /\ Ended(x) => Ended(ch)
           /\ Upgraded(x) => Upgraded(ch)
BY DEF Moved, EndsLast, Ended, Upgraded

\* So does a flush, after which nothing of an open channel is unflushed.
LEMMA FlushEnds ==
    ASSUME NEW ch, ChannelOK(ch), EndsLast(ch), NEW x \in FlushOutcomes(ch)
    PROVE  /\ EndsLast(x) /\ Flushed(x)
           /\ x.state = "open" => ch.state = "open"
           /\ Ended(x) => Ended(ch)
           /\ Upgraded(x) => Upgraded(ch)
<1>1. /\ Moved(ch, x)
      /\ x.state = "open" => /\ x.flushed = Len(x.out)
                             /\ \A i \in 1 .. x.written : x.out[i].kind \notin Ends
  BY FlushMoves
<1> QED BY <1>1, MovedEnds DEF Flushed

LEMMA WriteFlushEnds ==
    ASSUME NEW ch, ChannelOK(ch), NEW m \in Item, EndsLast(ch),
           Accepts(ch, m) => ~Ended(ch), NEW x \in FlushOutcomes(Write(ch, m))
    PROVE  /\ EndsLast(x) /\ Flushed(x)
           /\ x.state = "open" => ch.state = "open"
           /\ Ended(x) => Ended(ch) \/ m.kind \in Ends
           /\ Upgraded(x) => Upgraded(ch) \/ m.kind = "r101"
<1>1. ChannelOK(Write(ch, m))
  BY WriteOK
<1>2. /\ EndsLast(Write(ch, m))
      /\ Write(ch, m).state = ch.state
      /\ Ended(Write(ch, m)) => Ended(ch) \/ m.kind \in Ends
      /\ Upgraded(Write(ch, m)) => Upgraded(ch) \/ m.kind = "r101"
  BY WriteEnds
<1>3. /\ EndsLast(x) /\ Flushed(x)
      /\ x.state = "open" => Write(ch, m).state = "open"
      /\ Ended(x) => Ended(Write(ch, m))
      /\ Upgraded(x) => Upgraded(Write(ch, m))
  BY <1>1, <1>2, FlushEnds
<1> QED BY <1>2, <1>3

\* Ending and NothingAfterClose in these words.
AllEnd ==
    \A c \in Clients :
        /\ EndsLast(chan[c])
        /\ Open(c) /\ Ended(chan[c]) /\ Upgraded(chan[c]) => Throwing(c)

LEMMA EndingMeans == TypeOK => (NothingAfterClose /\ Ending <=> AllEnd)
<1> SUFFICES ASSUME TypeOK PROVE NothingAfterClose /\ Ending <=> AllEnd
  OBVIOUS
<1>1. ASSUME NEW c \in Clients
      PROVE  /\ DOMAIN chan[c].out = 1 .. Len(chan[c].out) /\ Len(chan[c].out) \in Nat
             /\ chan[c].written \in Nat /\ chan[c].written <= Len(chan[c].out)
  <2>1. ChannelOK(chan[c])
    BY DEF TypeOK, ChannelOK
  <2>2. /\ chan[c].written \in Nat /\ chan[c].flushed \in Nat /\ Len(chan[c].out) \in Nat
        /\ chan[c].written <= chan[c].flushed /\ chan[c].flushed <= Len(chan[c].out)
    BY <2>1, ItemsOf
  <2> QED BY <2>1, <2>2, ItemsOf
<1>2. ASSUME NothingAfterClose, Ending, NEW c \in Clients
      PROVE  /\ EndsLast(chan[c])
             /\ Open(c) /\ Ended(chan[c]) /\ Upgraded(chan[c]) => Throwing(c)
  <2>1. EndsLast(chan[c])
    BY <1>1, <1>2 DEF EndsLast, NothingAfterClose, Ending, Open, Ends
  <2> QED BY <1>2, <2>1 DEF Ending, Ended, Upgraded, Ends
<1>3. ASSUME AllEnd
      PROVE  NothingAfterClose /\ Ending
  <2>1. NothingAfterClose
    BY <1>3 DEF AllEnd, NothingAfterClose, EndsLast, Ends
  <2>2. Ending
    <3> SUFFICES ASSUME NEW c \in Clients, NEW i \in DOMAIN chan[c].out, Open(c),
                        chan[c].out[i].kind \in {"r400", "close"}
                 PROVE  /\ i > chan[c].written
                        /\ \/ \A j \in DOMAIN chan[c].out : chan[c].out[j].kind # "r101"
                           \/ Throwing(c)
      BY DEF Ending
    <3>1. EndsLast(chan[c])
      BY <1>3 DEF AllEnd
    <3>2. i \notin 1 .. chan[c].written
      BY <3>1 DEF EndsLast, Open, Ends
    <3>3. i > chan[c].written
      BY <1>1, <3>2
    <3>4. Ended(chan[c])
      BY DEF Ended, Ends
    <3> QED BY <1>3, <3>3, <3>4 DEF AllEnd, Upgraded
  <2> QED BY <2>1, <2>2
<1> QED BY <1>2, <1>3 DEF AllEnd

\* An upgraded channel whose close frame is not being thrown has not ended:
\* it may be written to.
LEMMA FreeToWrite ==
    ASSUME TypeOK, Ending, NothingAfterClose, NEW c \in Clients,
           Open(c), Upgraded(chan[c]), ~Throwing(c)
    PROVE  ~Ended(chan[c])
BY EndingMeans DEF AllEnd

\* The response is out of an upgraded channel once everything is.
LEMMA FramedUpgrades ==
    ASSUME NEW ch, ChannelOK(ch)
    PROVE  /\ Framed(ch) => Upgraded(ch)
           /\ ch.written = Len(ch.out) /\ Upgraded(ch) => Framed(ch)
<1>1. /\ DOMAIN ch.out = 1 .. Len(ch.out) /\ Len(ch.out) \in Nat
      /\ ch.written \in Nat /\ ch.flushed \in Nat
      /\ ch.written <= ch.flushed /\ ch.flushed <= Len(ch.out)
  BY ItemsOf
<1> QED BY <1>1 DEF Framed, Upgraded

-----------------------------------------------------------------------------
(* A step is of one loop l, and replaces at most one channel, c, of it.     *)

LEMMA ClosingKept ==
    ASSUME TypeOK, TypeOK', OrderInv, ClosingInv,
           NEW l \in Loops, NEW c \in Clients, LoopOf[c] = l,
           NEW x, chan' = [chan EXCEPT ![c] = x],
           \A k \in Loops \ {l} : /\ reading'[k] = reading[k] /\ batch'[k] = batch[k]
                                  /\ casting'[k] = casting[k] /\ raised'[k] = raised[k],
           EndsLast(x),
           raised[l] # "close" \/ reading[l] = c,
           x.state = "open" /\ Ended(x) /\ Upgraded(x) => Throwing(c)',
           reading[l] \in {NoOne, c} \/ reading'[l] = reading[l],
           x.state = "open" /\ x.flushed # Len(x.out) => reading'[l] = c,
           BatchOK(l)', ThrowsAlone(l)'
    PROVE  ClosingInv'
<1>1. chan'[c] = x /\ \A d \in Clients \ {c} : chan'[d] = chan[d]
  BY DEF TypeOK
<1>2. \A d \in Clients : LoopOf[d] \in Loops
  BY LoopAssumption
<1>3. AllEnd
  BY EndingMeans DEF ClosingInv
<1>4. \A d \in Clients \ {c} : Throwing(d) => Throwing(d)'
  BY <1>2, NoOneAssumption DEF Throwing
<1>5. AllEnd'
  BY <1>1, <1>3, <1>4 DEF AllEnd, Open
<1>6. (NothingAfterClose /\ Ending)'
  <2>1. TypeOK' => ((NothingAfterClose /\ Ending)' <=> AllEnd')
    BY EndingMeans, PTL
  <2> QED BY <1>5, <2>1
<1>7. NothingStranded'
  <2> SUFFICES ASSUME NEW d \in Clients, chan'[d].state = "open",
                      chan'[d].flushed < Len(chan'[d].out)
               PROVE  reading'[LoopOf[d]] = d
    BY DEF NothingStranded
  <2>1. CASE d = c
    <3>1. chan'[c].flushed \in Nat
      BY DEF TypeOK, Channel
    <3>2. x.flushed # Len(x.out)
      BY <1>1, <2>1, <3>1
    <3> QED BY <1>1, <2>1, <3>2
  <2>2. CASE d # c
    <3>1. reading[LoopOf[d]] = d
      BY <1>1, <2>2 DEF ClosingInv, NothingStranded
    <3> QED BY <1>2, <2>2, <3>1, NoOneAssumption
  <2> QED BY <2>1, <2>2
<1>8. ASSUME NEW k \in Loops \ {l} PROVE BatchOK(k)' /\ ThrowsAlone(k)'
  <2>1. BatchOK(k) /\ ThrowsAlone(k)
    BY DEF ClosingInv
  <2>2. ~Idle(k) => reading[k] \in Clients /\ chan'[reading[k]] = chan[reading[k]]
    BY <1>1 DEF OrderInv, LoopsOK, Idle, TypeOK
  <2> QED BY <2>1, <2>2 DEF BatchOK, ThrowsAlone, Idle
<1> QED BY <1>6, <1>7, <1>8 DEF ClosingInv

\* An idle loop has nothing decoded, casts nothing and throws nothing.
LEMMA IdleLoop ==
    ASSUME TypeOK, OrderInv, ClosingInv, NEW l \in Loops, Idle(l)
    PROVE  batch[l] = <<>> /\ ~casting[l] /\ raised[l] = NoFrame
BY DEF OrderInv, LoopsOK, ClosingInv, BatchOK

\* A step of the peer of c, or of its socket, which may replace c.
LEMMA IdleStep ==
    ASSUME TypeOK, TypeOK', OrderInv, ClosingInv, NEW c \in Clients, Idle(LoopOf[c]),
           UNCHANGED loopVars, NEW x, chan' = [chan EXCEPT ![c] = x],
           EndsLast(x), ~(x.state = "open" /\ Ended(x) /\ Upgraded(x)),
           x.state = "open" => x.flushed = Len(x.out)
    PROVE  ClosingInv'
<1>1. PICK l \in Loops : l = LoopOf[c]
  BY LoopAssumption
<1>2. batch[l] = <<>> /\ ~casting[l] /\ raised[l] = NoFrame /\ reading[l] = NoOne
  BY <1>1, IdleLoop DEF Idle
<1>3. UNCHANGED <<reading, batch, casting, raised>>
  BY DEF loopVars
<1>4. BatchOK(l)' /\ ThrowsAlone(l)'
  BY <1>2, <1>3 DEF BatchOK, ThrowsAlone
<1> QED BY <1>1, <1>2, <1>3, <1>4, ClosingKept DEF NoFrame

LEMMA AcceptCloses ==
    ASSUME TypeOK, TypeOK', OrderInv, DeliveryInv, ClosingInv, NEW c \in Clients, Accept(c)
    PROVE  ClosingInv'
<1> DEFINE x == [chan[c] EXCEPT !.state = "open"]
<1>1. chan' = [chan EXCEPT ![c] = x] /\ Idle(LoopOf[c]) /\ UNCHANGED loopVars
  BY DEF Accept
<1>2. chan[c].out = <<>> /\ chan[c].written = 0 /\ chan[c].flushed = 0
  <2>1. chan[c].out = <<>> /\ ChannelOK(chan[c])
    BY DEF Accept, DeliveryInv, MembersOK, TypeOK, ChannelOK
  <2>2. Len(chan[c].out) = 0
    BY <2>1
  <2> QED BY <2>1, <2>2, ItemsOf
<1>3. x.out = <<>> /\ x.written = 0 /\ x.flushed = 0
  BY <1>2 DEF TypeOK, Channel
<1> HIDE DEF x
<1>4. EndsLast(x) /\ ~Ended(x) /\ x.flushed = Len(x.out)
  BY <1>3 DEF EndsLast, Ended
<1> QED BY <1>1, <1>4, IdleStep

\* A read decodes one request of a channel that waits for nothing, or frames
\* of an upgraded one.
LEMMA StartCloses ==
    ASSUME TypeOK, TypeOK', OrderInv, ClosingInv, NEW c \in Clients,
           ReadRequest(c) \/ ReadFrames(c)
    PROVE  ClosingInv'
<1>1. PICK l \in Loops : l = LoopOf[c]
  BY LoopAssumption
<1>2. PICK msgs : /\ StartCycle(c, msgs)
                  /\ \/ /\ Len(msgs) = 1 /\ msgs[1] \in Requests
                        /\ chan[c].written = Len(chan[c].out) /\ ~Framed(chan[c])
                     \/ Framed(chan[c]) /\ \A i \in DOMAIN msgs : msgs[i] \in Frames
  <2>1. CASE ReadRequest(c)
    <3>1. PICK q \in Requests : StartCycle(c, <<q>>)
      BY <2>1 DEF ReadRequest
    <3>2. Len(<<q>>) = 1 /\ <<q>>[1] = q
      OBVIOUS
    <3> QED BY <2>1, <3>1, <3>2 DEF ReadRequest
  <2>2. CASE ReadFrames(c)
    <3>1. PICK k \in 1 .. MaxBatch : \E fs \in [1 .. k -> Frames] : StartCycle(c, fs)
      BY <2>2 DEF ReadFrames
    <3>2. PICK fs \in [1 .. k -> Frames] : StartCycle(c, fs)
      BY <3>1
    <3> QED BY <2>2, <3>2 DEF ReadFrames
  <2> QED BY <2>1, <2>2
<1>3. /\ Idle(l) /\ UNCHANGED <<chan, casting, raised>>
      /\ reading' = [reading EXCEPT ![l] = c] /\ batch' = [batch EXCEPT ![l] = msgs]
  BY <1>1, <1>2 DEF StartCycle
<1>4. /\ reading[l] = NoOne /\ ~casting[l] /\ raised[l] = NoFrame
      /\ reading'[l] = c /\ batch'[l] = msgs
      /\ \A k \in Loops \ {l} : reading'[k] = reading[k] /\ batch'[k] = batch[k]
  BY <1>3, IdleLoop DEF TypeOK, Idle
<1>5. BatchOK(l)' /\ ThrowsAlone(l)'
  BY <1>2, <1>3, <1>4, NoOneAssumption DEF BatchOK, ThrowsAlone, Idle
<1>6. EndsLast(chan[c]) /\ ~(chan[c].state = "open" /\ Ended(chan[c]) /\ Upgraded(chan[c]))
  BY <1>1, <1>4, EndingMeans DEF ClosingInv, AllEnd, Open, Throwing, NoFrame
<1>7. chan' = [chan EXCEPT ![c] = chan[c]]
  BY <1>3 DEF TypeOK
<1>8. \A k \in Loops \ {l} : /\ reading'[k] = reading[k] /\ batch'[k] = batch[k]
                             /\ casting'[k] = casting[k] /\ raised'[k] = raised[k]
  BY <1>3, <1>4
<1>9. raised[l] # "close" /\ reading[l] \in {NoOne, c}
  BY <1>4 DEF NoFrame
<1> QED BY <1>1, <1>4, <1>5, <1>6, <1>7, <1>8, <1>9, ClosingKept

LEMMA PeerGoneCloses ==
    ASSUME TypeOK, TypeOK', OrderInv, ClosingInv, NEW c \in Clients, PeerGone(c)
    PROVE  ClosingInv'
<1>1. Moved(chan[c], Closed(chan[c])) /\ Closed(chan[c]).state = "closed"
  BY DEF TypeOK, Channel, Closed, Moved
<1>2. EndsLast(Closed(chan[c]))
  BY <1>1, EndingMeans, MovedEnds DEF ClosingInv, AllEnd
<1> QED BY <1>1, <1>2, IdleStep DEF PeerGone, Put

\* What the socket takes later closes the channel if it ends it.
LEMMA DrainCloses ==
    ASSUME TypeOK, TypeOK', OrderInv, ClosingInv, NEW c \in Clients, Drain(c)
    PROVE  ClosingInv'
<1>1. PICK w \in chan[c].written + 1 .. chan[c].flushed : Put(c, Written(chan[c], w))
  BY DEF Drain
<1>2. ChannelOK(chan[c]) /\ w \in chan[c].written .. chan[c].flushed
  BY DEF TypeOK, ChannelOK, Channel
<1> DEFINE x == Written(chan[c], w)
<1>3. /\ Moved(chan[c], x) /\ x.flushed = chan[c].flushed /\ x.written = w
      /\ x.state # "closed" => \A i \in 1 .. w : chan[c].out[i].kind \notin Ends
  BY <1>2, WrittenMoves
<1> HIDE DEF x
<1>4. /\ EndsLast(chan[c]) /\ Idle(LoopOf[c]) /\ LoopOf[c] \in Loops
      /\ Open(c) /\ Ended(chan[c]) /\ Upgraded(chan[c]) => Throwing(c)
  BY EndingMeans, LoopAssumption DEF ClosingInv, AllEnd, Drain
<1>5. ~Throwing(c) /\ reading[LoopOf[c]] # c
  BY <1>4, NoOneAssumption DEF Throwing, Idle
<1>6. /\ EndsLast(x) /\ Open(c)
      /\ Ended(x) => Ended(chan[c])
      /\ Upgraded(x) => Upgraded(chan[c])
  BY <1>3, <1>4, MovedEnds DEF Moved, Drain, Open
<1>7. x.flushed = Len(x.out)
  <2>1. ~(chan[c].flushed < Len(chan[c].out))
    BY <1>5, <1>6 DEF ClosingInv, NothingStranded, Open
  <2>2. /\ Len(chan[c].out) \in Nat /\ chan[c].flushed \in Nat
        /\ chan[c].flushed <= Len(chan[c].out)
    BY <1>2, ItemsOf
  <2> QED BY <1>3, <2>1, <2>2 DEF Moved
<1> QED BY <1>1, <1>4, <1>5, <1>6, <1>7, IdleStep DEF Drain, Put, x

-----------------------------------------------------------------------------
(* What a handler finds, and what it leaves of the batch.                   *)

LEMMA TailOf ==
    ASSUME TypeOK, NEW l \in Loops, batch[l] # <<>>, Consume(l)
    PROVE  /\ Head(batch[l]) = batch[l][1]
           /\ Len(batch[l]) = 1 => batch'[l] = <<>>
           /\ (\A i \in DOMAIN batch[l] : batch[l][i] \in Frames) =>
                 /\ batch[l][1] \in Frames
                 /\ \A i \in DOMAIN batch'[l] : batch'[l][i] \in Frames
           /\ \A k \in Loops \ {l} : batch'[k] = batch[k]
<1> DEFINE b == batch[l]
<1>1. b \in Seq(Requests \cup Frames) /\ Len(b) \in Nat \ {0} /\ DOMAIN b = 1 .. Len(b)
  BY LenProperties, EmptySeq DEF TypeOK
<1>2. /\ Tail(b) \in Seq(Requests \cup Frames) /\ Len(Tail(b)) = Len(b) - 1
      /\ \A i \in 1 .. Len(b) - 1 : Tail(b)[i] = b[i + 1]
      /\ DOMAIN Tail(b) = 1 .. Len(b) - 1
  BY <1>1, HeadTailProperties, LenProperties
<1>3. batch'[l] = Tail(b) /\ \A k \in Loops \ {l} : batch'[k] = batch[k]
  BY DEF Consume, TypeOK
<1>4. Len(b) = 1 => Tail(b) = <<>>
  BY <1>2, EmptySeq
<1>5. Head(b) = b[1]
  BY <1>1
<1>6. ASSUME \A i \in DOMAIN b : b[i] \in Frames
      PROVE  b[1] \in Frames /\ \A i \in DOMAIN Tail(b) : Tail(b)[i] \in Frames
  BY <1>1, <1>2, <1>6
<1> QED BY <1>3, <1>4, <1>5, <1>6

\* A request is the last of its batch and finds a channel without an end; a
\* frame finds one that may be written to as long as it is open.
LEMMA Found ==
    ASSUME TypeOK, OrderInv, ClosingInv, NEW l \in Loops, NEW k, Handles(l, k), Consume(l),
           NEW c, c = reading[l]
    PROVE  /\ c \in Clients /\ LoopOf[c] = l /\ ChannelOK(chan[c]) /\ EndsLast(chan[c])
           /\ ~casting[l] /\ raised[l] = NoFrame /\ c # NoOne
           /\ Open(c) => ~Ended(chan[c])
           /\ \A j \in Loops \ {l} : batch'[j] = batch[j]
           /\ k \in Requests => ~Upgraded(chan[c]) /\ batch'[l] = <<>>
           /\ k \in Frames => /\ Framed(chan[c])
                              /\ \A i \in DOMAIN batch'[l] : batch'[l][i] \in Frames
<1>1. /\ ~Idle(l) /\ ~casting[l] /\ raised[l] = NoFrame
      /\ batch[l] # <<>> /\ Head(batch[l]) = k
  BY DEF Handles
<1>2. c \in Clients /\ LoopOf[c] = l /\ c # NoOne
  BY <1>1, ReadingClient, NoOneAssumption DEF OrderInv
<1>3. ChannelOK(chan[c])
  BY <1>2 DEF TypeOK, ChannelOK
<1>4. AllEnd /\ ~Throwing(c)
  BY <1>1, <1>2, EndingMeans DEF ClosingInv, Throwing, NoFrame
<1>5. EndsLast(chan[c]) /\ (Open(c) => ~Ended(chan[c]) \/ ~Upgraded(chan[c]))
  BY <1>2, <1>4 DEF AllEnd
<1>6. /\ k = batch[l][1]
      /\ Len(batch[l]) = 1 => batch'[l] = <<>>
      /\ (\A i \in DOMAIN batch[l] : batch[l][i] \in Frames) =>
            k \in Frames /\ \A i \in DOMAIN batch'[l] : batch'[l][i] \in Frames
      /\ \A j \in Loops \ {l} : batch'[j] = batch[j]
  BY <1>1, TailOf
<1>7. CASE Framed(chan[c]) /\ \A i \in DOMAIN batch[l] : batch[l][i] \in Frames
  <2>1. k \in Frames /\ k \notin Requests
    BY <1>6, <1>7 DEF Frames, Requests
  <2> QED BY <1>1, <1>2, <1>3, <1>5, <1>6, <1>7, <2>1, FramedUpgrades
<1>8. CASE /\ Len(batch[l]) = 1 /\ batch[l][1] \in Requests
           /\ chan[c].written = Len(chan[c].out) /\ ~Framed(chan[c])
  <2>1. k \in Requests /\ k \notin Frames /\ batch'[l] = <<>>
    BY <1>6, <1>8 DEF Frames, Requests
  <2>2. ~Upgraded(chan[c])
    BY <1>3, <1>8, FramedUpgrades
  <2>3. Open(c) => ~Ended(chan[c])
    <3>1. DOMAIN chan[c].out = 1 .. Len(chan[c].out)
      BY <1>3, ItemsOf
    <3> QED BY <1>5, <1>8, <3>1 DEF EndsLast, Ended, Open
  <2> QED BY <1>1, <1>2, <1>3, <1>5, <1>6, <2>1, <2>2, <2>3
<1> QED BY <1>1, <1>7, <1>8 DEF ClosingInv, BatchOK

\* An answer to a request.
LEMMA AnswerCloses ==
    ASSUME TypeOK, TypeOK', OrderInv, ClosingInv, NEW l \in Loops,
           NEW k \in Requests, NEW p \in Responses, Answer(l, k, p)
    PROVE  ClosingInv'
<1>1. /\ Handles(l, k) /\ Consume(l) /\ Reply(l, Control(p))
      /\ UNCHANGED <<reading, casting, raised>>
  BY DEF Answer
<1>2. PICK c : c = reading[l]
  OBVIOUS
<1>3. /\ c \in Clients /\ LoopOf[c] = l /\ ChannelOK(chan[c]) /\ EndsLast(chan[c])
      /\ ~casting[l] /\ raised[l] = NoFrame
      /\ Open(c) => ~Ended(chan[c])
      /\ \A j \in Loops \ {l} : batch'[j] = batch[j]
      /\ ~Upgraded(chan[c]) /\ batch'[l] = <<>>
  BY <1>1, <1>2, Found
<1>4. PICK x \in FlushOutcomes(Write(chan[c], Control(p))) : Put(c, x)
  BY <1>1, <1>2 DEF Reply
<1>5. Control(p) \in Item /\ Control(p).kind = p /\ (Accepts(chan[c], Control(p)) => Open(c))
  BY ItemTypes DEF Control, Accepts, Open
<1>6. /\ EndsLast(x) /\ Flushed(x)
      /\ x.state = "open" => chan[c].state = "open"
      /\ Ended(x) => Ended(chan[c]) \/ p \in Ends
      /\ Upgraded(x) => Upgraded(chan[c]) \/ p = "r101"
  BY <1>3, <1>4, <1>5, WriteFlushEnds
<1>7. ~(x.state = "open" /\ Ended(x) /\ Upgraded(x))
  BY <1>3, <1>6 DEF Open, Ends
<1>8. BatchOK(l)' /\ ThrowsAlone(l)'
  BY <1>1, <1>3 DEF BatchOK, ThrowsAlone
<1>9. chan' = [chan EXCEPT ![c] = x]
  BY <1>4 DEF Put
<1> QED BY <1>1, <1>2, <1>3, <1>6, <1>7, <1>8, <1>9, ClosingKept DEF Flushed, NoFrame

\* What is out stays out under what a write and a flush do.
LEMMA StaysFramed ==
    ASSUME TypeOK, TypeOK', NEW c \in Clients, NEW x, chan' = [chan EXCEPT ![c] = x],
           NEW m \in Item, Moved(chan[c], x) \/ Gained(chan[c], x, m), Framed(chan[c])
    PROVE  Framed(chan'[c])
<1>1. chan'[c] = x /\ ChannelOK(chan[c]) /\ ChannelOK(chan'[c])
  BY DEF TypeOK, ChannelOK
<1> QED BY <1>1, FramedStays

\* The close frame is answered and thrown.
LEMMA CloseFrameCloses ==
    ASSUME TypeOK, TypeOK', OrderInv, ClosingInv, NEW l \in Loops, CloseFrame(l)
    PROVE  ClosingInv'
<1> DEFINE m == Control("close")
<1>1. /\ Handles(l, "close") /\ Consume(l) /\ Reply(l, m)
      /\ UNCHANGED <<reading, casting>>
      /\ raised' = [raised EXCEPT ![l] = "close"]
  BY DEF CloseFrame, ThrownAfterClose
<1>2. PICK c : c = reading[l]
  OBVIOUS
<1>3. /\ c \in Clients /\ LoopOf[c] = l /\ ChannelOK(chan[c]) /\ EndsLast(chan[c])
      /\ ~casting[l] /\ raised[l] = NoFrame /\ c # NoOne
      /\ Open(c) => ~Ended(chan[c])
      /\ \A j \in Loops \ {l} : batch'[j] = batch[j]
      /\ Framed(chan[c]) /\ \A i \in DOMAIN batch'[l] : batch'[l][i] \in Frames
  BY <1>1, <1>2, Found DEF Frames
<1>4. PICK x \in FlushOutcomes(Write(chan[c], m)) : Put(c, x)
  BY <1>1, <1>2 DEF Reply
<1>5. m \in Item /\ (Accepts(chan[c], m) => Open(c))
  BY ItemTypes DEF Accepts, Open
<1>6. EndsLast(x) /\ Flushed(x)
  BY <1>3, <1>4, <1>5, WriteFlushEnds
<1>7. chan' = [chan EXCEPT ![c] = x]
  BY <1>4 DEF Put
<1>8. raised'[l] = "close" /\ \A k \in Loops \ {l} : raised'[k] = raised[k]
  BY <1>1 DEF TypeOK
<1>9. Throwing(c)'
  BY <1>1, <1>2, <1>3, <1>8 DEF Throwing
<1>10. Framed(chan'[c])
  <2>1. Moved(chan[c], x) \/ Gained(chan[c], x, m)
    BY <1>3, <1>4, <1>5, WriteFlushMoves
  <2> QED BY <1>3, <1>5, <1>7, <2>1, StaysFramed
<1>11. BatchOK(l)' /\ ThrowsAlone(l)'
  BY <1>1, <1>2, <1>3, <1>10 DEF BatchOK, ThrowsAlone, Idle
<1> QED BY <1>1, <1>2, <1>3, <1>6, <1>7, <1>8, <1>9, <1>11, ClosingKept DEF Flushed

\* The pong is left unflushed, in the read cycle of its channel.
LEMMA PingCloses ==
    ASSUME TypeOK, TypeOK', OrderInv, ClosingInv, NEW l \in Loops, Ping(l)
    PROVE  ClosingInv'
<1> DEFINE m == Control("pong")
<1>1. /\ Handles(l, "ping") /\ Consume(l)
      /\ Put(reading[l], Write(chan[reading[l]], m))
      /\ UNCHANGED <<reading, casting, raised>>
  BY DEF Ping
<1>2. PICK c : c = reading[l]
  OBVIOUS
<1>3. /\ c \in Clients /\ LoopOf[c] = l /\ ChannelOK(chan[c]) /\ EndsLast(chan[c])
      /\ ~casting[l] /\ raised[l] = NoFrame /\ c # NoOne
      /\ Open(c) => ~Ended(chan[c])
      /\ \A j \in Loops \ {l} : batch'[j] = batch[j]
      /\ Framed(chan[c]) /\ \A i \in DOMAIN batch'[l] : batch'[l][i] \in Frames
  BY <1>1, <1>2, Found DEF Frames
<1>4. PICK x : x = Write(chan[c], m)
  OBVIOUS
<1>5. m \in Item /\ m.kind \notin Ends /\ (Accepts(chan[c], m) => Open(c))
  BY ItemTypes DEF Accepts, Open, Control, Ends
<1>6. EndsLast(x) /\ ~(x.state = "open" /\ Ended(x))
  BY <1>3, <1>4, <1>5, WriteEnds DEF Open
<1>7. chan' = [chan EXCEPT ![c] = x]
  BY <1>1, <1>2, <1>4 DEF Put
<1>8. Framed(chan'[c])
  <2>1. Moved(chan[c], x) \/ Gained(chan[c], x, m)
    BY <1>3, <1>4, <1>5, WriteMoves DEF Moved, ChannelOK, Channel
  <2> QED BY <1>3, <1>5, <1>7, <2>1, StaysFramed
<1>9. BatchOK(l)' /\ ThrowsAlone(l)'
  BY <1>1, <1>2, <1>3, <1>8 DEF BatchOK, ThrowsAlone, Idle
<1> QED BY <1>1, <1>2, <1>3, <1>6, <1>7, <1>9, ClosingKept

\* A frame that changes no channel: one that is refused, or a text.
LEMMA FrameCloses ==
    ASSUME TypeOK, TypeOK', OrderInv, ClosingInv, NEW l \in Loops, NEW k \in Frames,
           Handles(l, k), Consume(l), UNCHANGED <<chan, reading>>,
           \A j \in Loops \ {l} : casting'[j] = casting[j] /\ raised'[j] = raised[j],
           ThrowsAlone(l)'
    PROVE  ClosingInv'
<1>1. PICK c : c = reading[l]
  OBVIOUS
<1>2. /\ c \in Clients /\ LoopOf[c] = l /\ EndsLast(chan[c])
      /\ ~casting[l] /\ raised[l] = NoFrame /\ c # NoOne
      /\ Open(c) => ~Ended(chan[c])
      /\ \A j \in Loops \ {l} : batch'[j] = batch[j]
      /\ Framed(chan[c]) /\ \A i \in DOMAIN batch'[l] : batch'[l][i] \in Frames
  BY <1>1, Found
<1>3. chan' = [chan EXCEPT ![c] = chan[c]]
  BY DEF TypeOK
<1>4. BatchOK(l)'
  BY <1>1, <1>2 DEF BatchOK, Idle
<1> QED BY <1>1, <1>2, <1>3, <1>4, ClosingKept DEF Open

LEMMA ExceptionCloses ==
    ASSUME TypeOK, TypeOK', OrderInv, ClosingInv, NEW l \in Loops, ExceptionCaught(l)
    PROVE  ClosingInv'
<1>1. PICK c : c = reading[l]
  OBVIOUS
<1>2. c \in Clients /\ LoopOf[c] = l /\ c # NoOne /\ raised[l] # NoFrame
  BY <1>1, ReadingClient, NoOneAssumption DEF OrderInv, ExceptionCaught
<1>3. PICK x : x = Closed(chan[c])
  OBVIOUS
<1>4. /\ chan' = [chan EXCEPT ![c] = x] /\ UNCHANGED <<reading, batch, casting>>
      /\ raised' = [raised EXCEPT ![l] = NoFrame]
  BY <1>1, <1>3 DEF ExceptionCaught, Put
<1>5. raised'[l] = NoFrame /\ \A k \in Loops \ {l} : raised'[k] = raised[k]
  BY <1>4 DEF TypeOK
<1>6. /\ Moved(chan[c], x) /\ x.state = "closed"
      /\ x.out = chan[c].out /\ x.written = chan[c].written
  BY <1>2, <1>3 DEF TypeOK, Channel, Closed, Moved
<1>7. EndsLast(x)
  BY <1>2, <1>6, EndingMeans, MovedEnds DEF ClosingInv, AllEnd
<1>8. BatchOK(l)' /\ ThrowsAlone(l)'
  <2>1. BatchOK(l) /\ chan'[c] = x
    BY <1>2, <1>4 DEF ClosingInv, TypeOK
  <2>2. Framed(x) <=> Framed(chan[c])
    BY <1>6 DEF Framed
  <2>3. batch[l] # <<>> =>
          Framed(chan[c]) /\ \A i \in DOMAIN batch[l] : batch[l][i] \in Frames
    BY <1>1, <1>2, <2>1 DEF BatchOK
  <2> QED BY <1>1, <1>2, <1>4, <1>5, <2>1, <2>2, <2>3 DEF BatchOK, ThrowsAlone, Idle
<1> QED BY <1>1, <1>2, <1>4, <1>5, <1>6, <1>7, <1>8, ClosingKept

\* The flush of channelReadComplete.
LEMMA CompleteCloses ==
    ASSUME TypeOK, TypeOK', OrderInv, ClosingInv, NEW l \in Loops, ReadComplete(l)
    PROVE  ClosingInv'
<1>1. PICK c : c = reading[l]
  OBVIOUS
<1>2. /\ c \in Clients /\ LoopOf[c] = l /\ ~casting[l] /\ raised[l] = NoFrame
      /\ batch[l] = <<>>
  BY <1>1, ReadingClient DEF OrderInv, ReadComplete
<1>3. PICK x \in FlushOutcomes(chan[c]) : Put(c, x)
  BY <1>1 DEF ReadComplete
<1>4. /\ chan' = [chan EXCEPT ![c] = x] /\ UNCHANGED <<batch, casting, raised>>
      /\ reading' = [reading EXCEPT ![l] = NoOne]
  BY <1>3 DEF ReadComplete, Put
<1>5. \A k \in Loops \ {l} : reading'[k] = reading[k]
  BY <1>4 DEF TypeOK
<1>6. /\ EndsLast(chan[c])
      /\ Open(c) /\ Ended(chan[c]) /\ Upgraded(chan[c]) => Throwing(c)
  BY <1>2, EndingMeans DEF ClosingInv, AllEnd
<1>7. ~Throwing(c) /\ ChannelOK(chan[c])
  BY <1>2 DEF Throwing, NoFrame, TypeOK, ChannelOK
<1>8. /\ EndsLast(x) /\ Flushed(x)
      /\ x.state = "open" => chan[c].state = "open"
      /\ Ended(x) => Ended(chan[c])
      /\ Upgraded(x) => Upgraded(chan[c])
  BY <1>3, <1>6, <1>7, FlushEnds
<1>9. BatchOK(l)' /\ ThrowsAlone(l)'
  BY <1>2, <1>4 DEF BatchOK, ThrowsAlone
<1> QED BY <1>1, <1>2, <1>4, <1>5, <1>6, <1>7, <1>8, <1>9, ClosingKept DEF Flushed, Open, NoFrame

\* A text comes to a channel of the loop l, which throws nothing.
LEMMA DeliverCloses ==
    ASSUME TypeOK, TypeOK', OrderInv, ClosingInv, NEW l \in Loops, raised[l] = NoFrame,
           casting[l] \/ Idle(l), UNCHANGED <<reading, batch, casting, raised>>,
           NEW c \in Clients, LoopOf[c] = l, NEW s \in Clients, NEW n \in Nat, Deliver(c, s, n)
    PROVE  ClosingInv'
<1> DEFINE m == Text(s, n)
<1>1. PICK x \in FlushOutcomes(Write(chan[c], m)) : Put(c, x)
  BY DEF Deliver
<1>2. /\ m \in Item /\ m.kind \notin Ends /\ m.kind # "r101"
      /\ Accepts(chan[c], m) => Open(c) /\ Upgraded(chan[c])
  BY ItemTypes DEF Accepts, Open, Text, Ends, Responses
<1> HIDE DEF m
<1>3. /\ EndsLast(chan[c]) /\ ~Throwing(c) /\ ChannelOK(chan[c])
      /\ Open(c) /\ Ended(chan[c]) => ~Upgraded(chan[c])
  BY EndingMeans DEF ClosingInv, AllEnd, Throwing, NoFrame, TypeOK, ChannelOK
<1>4. Accepts(chan[c], m) => ~Ended(chan[c])
  BY <1>2, <1>3, FramedUpgrades
<1>5. /\ EndsLast(x) /\ Flushed(x)
      /\ x.state = "open" => chan[c].state = "open"
      /\ Ended(x) => Ended(chan[c]) \/ m.kind \in Ends
      /\ Upgraded(x) => Upgraded(chan[c]) \/ m.kind = "r101"
  BY <1>1, <1>2, <1>3, <1>4, WriteFlushEnds DEF m
<1>6. chan' = [chan EXCEPT ![c] = x]
  BY <1>1 DEF Put
<1>7. ThrowsAlone(l)' /\ BatchOK(l) /\ chan'[c] = x
      /\ \A d \in Clients \ {c} : chan'[d] = chan[d]
  BY <1>6 DEF ClosingInv, ThrowsAlone, TypeOK
<1>8. ASSUME batch[l] # <<>> PROVE Framed(chan'[reading[l]])
  <2>1. Framed(chan[reading[l]]) /\ reading[l] \in Clients
    BY <1>7, <1>8, ReadingClient DEF BatchOK, OrderInv
  <2>2. CASE reading[l] = c
    <3>1. Moved(chan[c], x) \/ Gained(chan[c], x, m)
      BY <1>1, <1>2, <1>3, WriteFlushMoves DEF m
    <3> QED BY <1>2, <1>6, <2>1, <2>2, <3>1, StaysFramed
  <2> QED BY <1>7, <2>1, <2>2
<1>9. BatchOK(l)'
  BY <1>7, <1>8 DEF BatchOK, Idle
<1> QED BY <1>2, <1>3, <1>5, <1>6, <1>7, <1>9, ClosingKept DEF Flushed, Open, NoFrame

-----------------------------------------------------------------------------
\* Every step of the server keeps the ends of its channels and the flushes.
LEMMA ClosingStep ==
    ASSUME TypeOK, TypeOK', OrderInv, DeliveryInv, ClosingInv, [Next]_vars
    PROVE  ClosingInv'
<1> USE DEF loopVars, countVars
<1>1. ASSUME UNCHANGED <<chan, reading, batch, casting, raised>> PROVE ClosingInv'
  BY <1>1 DEF ClosingInv, NothingAfterClose, NothingStranded, Ending, Open, Throwing,
              BatchOK, ThrowsAlone, Idle
<1>2. CASE UNCHANGED vars
  BY <1>1, <1>2 DEF vars
<1>3. ASSUME NEW c \in Clients, Peer(c) \/ Drain(c) PROVE ClosingInv'
  BY <1>3, AcceptCloses, StartCloses, PeerGoneCloses, DrainCloses DEF Peer
<1>4. ASSUME NEW l \in Loops, BadRequest(l) \/ OldVersion(l) \/ Handshake(l) PROVE ClosingInv'
  <2>1. PICK k \in Requests, p \in Responses : Answer(l, k, p)
    BY <1>4 DEF BadRequest, OldVersion, Handshake, Responses, Requests
  <2> QED BY <2>1, AnswerCloses
<1>5. ASSUME NEW l \in Loops, Binary(l) PROVE ClosingInv'
  <2>1. /\ Handles(l, "binary") /\ Consume(l) /\ UNCHANGED <<chan, reading, casting>>
        /\ raised' = [raised EXCEPT ![l] = "binary"] /\ ~casting[l]
    BY <1>5 DEF Binary, Handles
  <2>2. \A j \in Loops \ {l} : casting'[j] = casting[j] /\ raised'[j] = raised[j]
    BY <2>1 DEF TypeOK
  <2>3. ThrowsAlone(l)'
    BY <2>1 DEF ThrowsAlone
  <2> QED BY <2>1, <2>2, <2>3, FrameCloses DEF Frames
<1>6. ASSUME NEW l \in Loops, StartCast(l) PROVE ClosingInv'
  <2>1. /\ Handles(l, "text") /\ Consume(l) /\ UNCHANGED <<chan, reading, raised>>
        /\ casting' = [casting EXCEPT ![l] = TRUE] /\ raised[l] = NoFrame
    BY <1>6 DEF StartCast, Handles
  <2>2. \A j \in Loops \ {l} : casting'[j] = casting[j] /\ raised'[j] = raised[j]
    BY <2>1 DEF TypeOK
  <2>3. ThrowsAlone(l)'
    BY <2>1 DEF ThrowsAlone
  <2> QED BY <2>1, <2>2, <2>3, FrameCloses DEF Frames
<1>7. ASSUME NEW l \in Loops, NEW r \in Clients, CastTo(l, r) PROVE ClosingInv'
  <2>1. /\ casting[l] /\ raised[l] = NoFrame
        /\ UNCHANGED <<reading, batch, casting, raised>>
    BY <1>7 DEF CastTo, ClosingInv, ThrowsAlone
  <2>2. reading[l] \in Clients /\ texts[reading[l]] \in Nat
    BY <2>1, ReadingClient DEF OrderInv, TypeOK
  <2>3. CASE LoopOf[r] = l
    <3>1. Deliver(r, reading[l], texts[reading[l]])
      BY <1>7, <2>3 DEF CastTo
    <3> QED BY <2>1, <2>2, <2>3, <3>1, DeliverCloses
  <2>4. CASE LoopOf[r] # l
    BY <1>1, <1>7, <2>1, <2>4 DEF CastTo
  <2> QED BY <2>3, <2>4
<1>8. ASSUME NEW l \in Loops, EndCast(l) PROVE ClosingInv'
  <2>1. /\ UNCHANGED <<chan, reading, batch, raised>>
        /\ casting' = [casting EXCEPT ![l] = FALSE]
    BY <1>8 DEF EndCast
  <2>2. \A k \in Loops : casting'[k] => casting[k]
    BY <2>1 DEF TypeOK
  <2>3. \A k \in Loops : BatchOK(k)' /\ ThrowsAlone(k)'
    BY <2>1, <2>2 DEF ClosingInv, BatchOK, ThrowsAlone, Idle
  <2> QED BY <2>1, <2>3 DEF ClosingInv, NothingAfterClose, NothingStranded, Ending, Open, Throwing
<1>9. ASSUME NEW l \in Loops, RunTask(l) PROVE ClosingInv'
  <2>1. /\ Idle(l) /\ queue[l] # <<>> /\ queue[l] \in Seq(Task)
        /\ UNCHANGED <<reading, batch, casting, raised>>
    BY <1>9 DEF RunTask, TypeOK
  <2>2. PICK t : t = Head(queue[l])
    OBVIOUS
  <2>3. t \in Task /\ t = queue[l][1] /\ 1 \in DOMAIN queue[l]
    BY <2>1, <2>2, HeadTailProperties, LenProperties, EmptySeq
  <2>4. t.to \in Clients /\ t.from \in Clients /\ t.n \in Nat /\ LoopOf[t.to] = l
    BY <2>3 DEF Task, OrderInv, QueueGiven
  <2>5. Deliver(t.to, t.from, t.n)
    BY <1>9, <2>2 DEF RunTask
  <2>6. raised[l] = NoFrame
    BY <2>1, IdleLoop
  <2> QED BY <2>1, <2>4, <2>5, <2>6, DeliverCloses
<1> QED
  BY <1>2, <1>3, <1>4, <1>5, <1>6, <1>7, <1>8, <1>9, CloseFrameCloses, PingCloses,
     ExceptionCloses, CompleteCloses DEF Next, Handle

LEMMA ClosingInit == Init => ClosingInv
<1> SUFFICES ASSUME Init PROVE ClosingInv
  OBVIOUS
<1>1. \A c \in Clients : DOMAIN chan[c].out = {} /\ chan[c].state = "new"
  <2>1. \A c \in Clients : chan[c].out = <<>> /\ chan[c].state = "new"
    BY DEF Init
  <2>2. ASSUME NEW c \in Clients PROVE DOMAIN chan[c].out = {}
    BY <2>1
  <2> QED BY <2>1, <2>2
<1>2. \A l \in Loops : batch[l] = <<>> /\ ~casting[l]
  BY DEF Init
<1> QED BY <1>1, <1>2 DEF ClosingInv, NothingAfterClose, NothingStranded, Ending, Open,
                         BatchOK, ThrowsAlone

\* The invariant of both theorems below.
THEOREM ClosingInvariance == Spec => []ClosingInv
<1>1. Init => TypeOK /\ OrderInv /\ DeliveryInv /\ ClosingInv
  BY InitInv, DeliveryInit, ClosingInit
<1>2. TypeOK /\ OrderInv /\ DeliveryInv /\ TypeOK' /\ ClosingInv /\ [Next]_vars
         => ClosingInv'
  BY ClosingStep
<1> QED BY <1>1, <1>2, DeliveryInvariance, PTL DEF Spec

\* What a channel accepted is unflushed only inside the read cycle of that
\* channel, so that the flush of channelReadComplete is still to come: neither
\* a broadcast of another loop nor a task leaves a pong behind.
THEOREM NothingIsStranded == Spec => []NothingStranded
BY ClosingInvariance, PTL DEF ClosingInv

\* Nothing follows the response or close frame that ends a connection, not
\* even a text whose broadcast or task comes to the channel before that item
\* is in the socket.
THEOREM NothingFollowsClose == Spec => []NothingAfterClose
BY ClosingInvariance, PTL DEF ClosingInv

=============================================================================
