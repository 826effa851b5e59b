----------------------------- MODULE ChatServer -----------------------------
(***************************************************************************)
(* The WebSocket chat server of webscoket-study.  Every accepted channel   *)
(* belongs to one event loop of the work group, and everything that        *)
(* happens on a channel happens on that loop.  The one structure shared by *)
(* the loops is NettyConfig.group: a text frame read on any loop is        *)
(* written to every channel of the group, directly when the channel is on  *)
(* the writer's own loop, through the task queue of its loop otherwise.    *)
(***************************************************************************)
EXTENDS Naturals, Sequences

CONSTANTS
    Clients,   \* the peers that may connect; a channel is named by its client
    Loops,     \* the event loops of the work group
    LoopOf,    \* the loop a channel is registered with, for its whole life
    NoOne,     \* no channel
    MaxSent,   \* bound: messages each client sends
    MaxBatch   \* bound: frames decoded from one read

ASSUME LoopAssumption == LoopOf \in [Clients -> Loops]
ASSUME NoOneAssumption == NoOne \notin Clients
ASSUME BoundAssumption == MaxSent \in [Clients -> Nat] /\ MaxBatch \in Nat

VARIABLES
    chan,      \* per client: the channel, its accepted writes and two cursors
    group,     \* NettyConfig.group
    reading,   \* per loop: the channel whose read cycle the loop is in
    batch,     \* per loop: decoded messages of that cycle still to be handled
    casting,   \* per loop: is it inside group.writeAndFlush
    todo,      \* per loop: members of the group when that call began
    seen,      \* per loop: channels the iteration has returned so far
    queue,     \* per loop: write tasks submitted by the other loops
    sent,      \* per client: messages it sent
    texts,     \* per client: text frames whose broadcast has begun
    raised     \* per loop: kind of the frame whose handling has just thrown

vars == <<chan, group, reading, batch, casting, todo, seen, queue,
          sent, texts, raised>>
loopVars == <<reading, batch, casting, todo, seen, raised>>
countVars == <<sent, texts>>

-----------------------------------------------------------------------------
(* Messages *)

Requests == {"plain", "oldVersion", "upgrade"}
Frames   == {"text", "ping", "binary", "close"}
NoFrame  == "none"

\* What the server writes: http responses, and the frames pong, close, text.
Responses == {"r400", "r426", "r101"}
Control(k)  == [kind |-> k, from |-> NoOne, n |-> 0]
Text(s, n)  == [kind |-> "text", from |-> s, n |-> n]
Item == {m \in [kind : Responses \cup {"pong", "close", "text"},
                from : Clients \cup {NoOne}, n : Nat] :
            IF m.kind = "text" THEN m.from \in Clients ELSE m = Control(m.kind)}
Task == [to : Clients, from : Clients, n : Nat]

-----------------------------------------------------------------------------
(* A channel.  out is everything its pipeline accepted, in order; out[i] is *)
(* flushed for i <= flushed and in the socket for i <= written.             *)

Channel == [state : {"new", "open", "closed"}, out : Seq(Item),
            flushed : Nat, written : Nat]

\* handshaker.handshake has put the codec for frames into the pipeline, before
\* it writes the 101 response.
Upgraded(ch) == \E i \in DOMAIN ch.out : ch.out[i].kind = "r101"

\* The 101 response is out: the client may send frames.
Framed(ch) == \E i \in 1 .. ch.written : ch.out[i].kind = "r101"

\* A closed channel fails a write; before the upgrade the pipeline has no
\* encoder for frames, so the channel refuses the object.
Accepts(ch, m) == ch.state = "open" /\ (m.kind \notin Responses => Upgraded(ch))

Write(ch, m) == IF Accepts(ch, m) THEN [ch EXCEPT !.out = Append(@, m)] ELSE ch

Closed(ch) == [ch EXCEPT !.state = "closed"]

\* Faulty: the cursor runs one item ahead.
WrittenAhead(ch, w) == [ch EXCEPT !.written = w + 1]

\* The socket took the first w items: the futures of the 400 response and of
\* the close frame have ChannelFutureListener.CLOSE as their listener.
Written(ch, w) ==
    [ch EXCEPT !.written = w,
               !.state = IF \E i \in 1 .. w : ch.out[i].kind \in {"r400", "close"}
                         THEN "closed" ELSE @]

\* A flush marks everything accepted; the socket takes some of it at once, and
\* a write error closes the channel.
FlushOutcomes(ch) ==
    IF ch.state # "open" THEN {ch}
    ELSE LET all == [ch EXCEPT !.flushed = Len(ch.out)]
         IN  {Written(all, w) : w \in ch.written .. Len(ch.out)} \cup {Closed(all)}

\* A closed channel leaves the group (DefaultChannelGroup listens for the close).
Put(c, ch) ==
    /\ chan' = [chan EXCEPT ![c] = ch]
    /\ group' = IF ch.state = "closed" THEN group \ {c} ELSE group

-----------------------------------------------------------------------------
Init ==
    /\ chan = [c \in Clients |->
                 [state |-> "new", out |-> <<>>, flushed |-> 0, written |-> 0]]
    /\ group = {}
    /\ reading = [l \in Loops |-> NoOne]
    /\ batch = [l \in Loops |-> <<>>]
    /\ casting = [l \in Loops |-> FALSE]
    /\ todo = [l \in Loops |-> {}]
    /\ seen = [l \in Loops |-> {}]
    /\ queue = [l \in Loops |-> <<>>]
    /\ sent = [c \in Clients |-> 0]
    /\ texts = [c \in Clients |-> 0]
    /\ raised = [l \in Loops |-> NoFrame]

-----------------------------------------------------------------------------
(* The peers and the socket: what an idle loop picks up. *)

Idle(l) == reading[l] = NoOne

\* A connection is registered with its loop: channelActive adds it to the group.
Accept(c) ==
    /\ Idle(LoopOf[c])
    /\ chan[c].state = "new"
    /\ chan' = [chan EXCEPT ![c].state = "open"]
    /\ group' = group \cup {c}
    /\ UNCHANGED <<loopVars, queue, countVars>>

StartCycle(c, msgs) ==
    /\ Idle(LoopOf[c])
    /\ chan[c].state = "open"
    /\ sent[c] + Len(msgs) <= MaxSent[c]
    /\ reading' = [reading EXCEPT ![LoopOf[c]] = c]
    /\ batch' = [batch EXCEPT ![LoopOf[c]] = msgs]
    /\ sent' = [sent EXCEPT ![c] = @ + Len(msgs)]
    /\ UNCHANGED <<chan, group, casting, todo, seen, queue, texts, raised>>

\* Before the upgrade a client sends one http request and waits for its answer.
ReadRequest(c) ==
    /\ chan[c].written = Len(chan[c].out)
    /\ ~Framed(chan[c])
    /\ \E r \in Requests : StartCycle(c, <<r>>)

\* Afterwards one read may hold several frames; the decoder ignores what
\* follows a close frame.
ReadFrames(c) ==
    /\ Framed(chan[c])
    /\ \E k \in 1 .. MaxBatch : \E fs \in [1 .. k -> Frames] :
         /\ \A i \in 1 .. k - 1 : fs[i] # "close"
         /\ StartCycle(c, fs)

\* The peer disconnects, or reading from it fails.
PeerGone(c) ==
    /\ Idle(LoopOf[c])
    /\ chan[c].state = "open"
    /\ Put(c, Closed(chan[c]))
    /\ UNCHANGED <<loopVars, queue, countVars>>

\* The socket became writable again and takes more of what was flushed.
Drain(c) ==
    /\ Idle(LoopOf[c])
    /\ chan[c].state = "open"
    /\ \E w \in chan[c].written + 1 .. chan[c].flushed : Put(c, Written(chan[c], w))
    /\ UNCHANGED <<loopVars, queue, countVars>>

-----------------------------------------------------------------------------
(* channelRead0 and what it calls, for the message at the head of the batch. *)

Handles(l, k) ==
    /\ ~Idle(l)
    /\ ~casting[l]
    /\ raised[l] = NoFrame
    /\ batch[l] # <<>>
    /\ Head(batch[l]) = k

Consume(l) == batch' = [batch EXCEPT ![l] = Tail(@)]

\* A response or frame to the channel being read, flushed at once.
Reply(l, m) ==
    \E ch \in FlushOutcomes(Write(chan[reading[l]], m)) : Put(reading[l], ch)

Answer(l, request, response) ==
    /\ Handles(l, request)
    /\ Consume(l)
    /\ Reply(l, Control(response))
    /\ UNCHANGED <<reading, casting, todo, seen, raised, queue, countVars>>

\* Not an upgrade: 400, and the channel closes once it is written.
BadRequest(l) == Answer(l, "plain", "r400")

\* newHandshaker knows no such version: 426, and the channel stays open.
OldVersion(l) == Answer(l, "oldVersion", "r426")

\* handshaker.handshake: the codec for frames, and 101.
Handshake(l) == Answer(l, "upgrade", "r101")

\* Faulty: return after the close handshake.
ReturnsAfterClose == NoFrame

\* What is thrown after the close handshake: the test for text frames fails.
ThrownAfterClose == "close"

\* handshaker.close answers with a close frame; there is no return, so the
\* handler goes on to the test for text frames and throws.
CloseFrame(l) ==
    /\ Handles(l, "close")
    /\ Consume(l)
    /\ Reply(l, Control("close"))
    /\ raised' = [raised EXCEPT ![l] = ThrownAfterClose]
    /\ UNCHANGED <<reading, casting, todo, seen, queue, countVars>>

\* The pong is written, not flushed.
Ping(l) ==
    /\ Handles(l, "ping")
    /\ Consume(l)
    /\ Put(reading[l], Write(chan[reading[l]], Control("pong")))
    /\ UNCHANGED <<reading, casting, todo, seen, raised, queue, countVars>>

\* Any other frame that is not text is refused with an exception.
Binary(l) ==
    /\ Handles(l, "binary")
    /\ Consume(l)
    /\ raised' = [raised EXCEPT ![l] = "binary"]
    /\ UNCHANGED <<chan, group, reading, casting, todo, seen, queue, countVars>>

\* Faulty: exceptionCaught takes the channel out of the group, not down.
ExceptionLeaves(l) ==
    /\ raised[l] # NoFrame
    /\ group' = group \ {reading[l]}
    /\ raised' = [raised EXCEPT ![l] = NoFrame]
    /\ UNCHANGED <<chan, reading, batch, casting, todo, seen, queue, countVars>>

\* The exception reaches exceptionCaught, which closes the channel.
ExceptionCaught(l) ==
    /\ raised[l] # NoFrame
    /\ Put(reading[l], Closed(chan[reading[l]]))
    /\ raised' = [raised EXCEPT ![l] = NoFrame]
    /\ UNCHANGED <<reading, batch, casting, todo, seen, queue, countVars>>

\* Faulty: write without flush.
DeliverUnflushed(r, s, n) == Put(r, Write(chan[r], Text(s, n)))

\* What writeAndFlush does with a text of s on r's own loop.
Deliver(r, s, n) ==
    \E ch \in FlushOutcomes(Write(chan[r], Text(s, n))) : Put(r, ch)

\* Faulty: the text also goes back to its sender directly.
CastAndEcho(l) ==
    /\ Handles(l, "text")
    /\ Consume(l)
    /\ casting' = [casting EXCEPT ![l] = TRUE]
    /\ todo' = [todo EXCEPT ![l] = group]
    /\ seen' = [seen EXCEPT ![l] = {}]
    /\ texts' = [texts EXCEPT ![reading[l]] = @ + 1]
    /\ Deliver(reading[l], reading[l], texts'[reading[l]])
    /\ UNCHANGED <<reading, raised, queue, sent>>

\* A text frame: group.writeAndFlush begins to iterate over the group.
StartCast(l) ==
    /\ Handles(l, "text")
    /\ Consume(l)
    /\ casting' = [casting EXCEPT ![l] = TRUE]
    /\ todo' = [todo EXCEPT ![l] = group]
    /\ seen' = [seen EXCEPT ![l] = {}]
    /\ texts' = [texts EXCEPT ![reading[l]] = @ + 1]
    /\ UNCHANGED <<chan, group, reading, raised, queue, sent>>

\* The iterator is weakly consistent: it returns each channel at most once,
\* and may or may not return one that joined or left meanwhile.
MayReturn(l) == (todo[l] \cup group) \ seen[l]

\* It ends only when every channel that was there all along was returned.
Exhausted(l) == todo[l] \cap group \subseteq seen[l]

CastTo(l, r) ==
    /\ casting[l]
    /\ r \in MayReturn(l)
    /\ seen' = [seen EXCEPT ![l] = @ \cup {r}]
    /\ LET s == reading[l]
       IN  IF LoopOf[r] = l
           THEN /\ Deliver(r, s, texts[s])
                /\ UNCHANGED queue
           ELSE /\ queue' = [queue EXCEPT ![LoopOf[r]] =
                               Append(@, [to |-> r, from |-> s, n |-> texts[s]])]
                /\ UNCHANGED <<chan, group>>
    /\ UNCHANGED <<reading, batch, casting, todo, raised, countVars>>

EndCast(l) ==
    /\ casting[l]
    /\ Exhausted(l)
    /\ casting' = [casting EXCEPT ![l] = FALSE]
    /\ todo' = [todo EXCEPT ![l] = {}]
    /\ seen' = [seen EXCEPT ![l] = {}]
    /\ UNCHANGED <<chan, group, reading, batch, raised, queue, countVars>>

\* Faulty: channelReadComplete does not flush.
CompleteUnflushed(l) ==
    /\ ~Idle(l)
    /\ ~casting[l]
    /\ raised[l] = NoFrame
    /\ batch[l] = <<>>
    /\ reading' = [reading EXCEPT ![l] = NoOne]
    /\ UNCHANGED <<chan, group, batch, casting, todo, seen, raised, queue, countVars>>

\* channelReadComplete ends the cycle with a flush.
ReadComplete(l) ==
    /\ ~Idle(l)
    /\ ~casting[l]
    /\ raised[l] = NoFrame
    /\ batch[l] = <<>>
    /\ \E ch \in FlushOutcomes(chan[reading[l]]) : Put(reading[l], ch)
    /\ reading' = [reading EXCEPT ![l] = NoOne]
    /\ UNCHANGED <<batch, casting, todo, seen, raised, queue, countVars>>

\* An idle loop runs the oldest write task another loop submitted.
RunTask(l) ==
    /\ Idle(l)
    /\ queue[l] # <<>>
    /\ LET t == Head(queue[l]) IN Deliver(t.to, t.from, t.n)
    /\ queue' = [queue EXCEPT ![l] = Tail(@)]
    /\ UNCHANGED <<loopVars, countVars>>

-----------------------------------------------------------------------------
\* What a loop does once it has begun a read cycle.
Handle(l) ==
    \/ BadRequest(l) \/ OldVersion(l) \/ Handshake(l)
    \/ CloseFrame(l) \/ Ping(l) \/ Binary(l) \/ ExceptionCaught(l)
    \/ StartCast(l) \/ (\E r \in Clients : CastTo(l, r)) \/ EndCast(l)
    \/ ReadComplete(l)

Peer(c) == Accept(c) \/ ReadRequest(c) \/ ReadFrames(c) \/ PeerGone(c)

Next ==
    \/ \E c \in Clients : Peer(c) \/ Drain(c)
    \/ \E l \in Loops : Handle(l) \/ RunTask(l)

Spec == Init /\ [][Next]_vars

\* A loop's thread goes on with what it began; it returns again and again to
\* its task queue and to the sockets that are writable.
Fairness ==
    /\ \A l \in Loops : WF_vars(Handle(l)) /\ SF_vars(RunTask(l))
    /\ \A c \in Clients : SF_vars(Drain(c))

FairSpec == Spec /\ Fairness

-----------------------------------------------------------------------------
(* Properties *)

CursorsOK(ch) == ch.written <= ch.flushed /\ ch.flushed <= Len(ch.out)

\* Every variable keeps its type, and the cursors of a channel their order.
TypeOK ==
    /\ chan \in [Clients -> Channel]
    /\ \A c \in Clients : CursorsOK(chan[c])
    /\ group \subseteq Clients
    /\ reading \in [Loops -> Clients \cup {NoOne}]
    /\ batch \in [Loops -> Seq(Requests \cup Frames)]
    /\ casting \in [Loops -> BOOLEAN]
    /\ todo \in [Loops -> SUBSET Clients]
    /\ seen \in [Loops -> SUBSET Clients]
    /\ raised \in [Loops -> Frames \cup {NoFrame}]
    /\ queue \in [Loops -> Seq(Task)]
    /\ sent \in [Clients -> Nat]
    /\ texts \in [Clients -> Nat]

IsText(m) == m.kind = "text"
TextsIn(log, s) == {i \in DOMAIN log : IsText(log[i]) /\ log[i].from = s}
TextsOf(r, s) == TextsIn(chan[r].out, s)
Casting(s) == casting[LoopOf[s]] /\ reading[LoopOf[s]] = s

\* On no channel does a text overtake an earlier text of the same sender, and
\* none is written twice, although group.writeAndFlush takes two ways (direct,
\* or the task queue of another loop) and iterates over a changing group.
SenderOrder ==
    \A r, s \in Clients : \A i, j \in TextsOf(r, s) :
        i < j => chan[r].out[i].n < chan[r].out[j].n

(* The inductive invariant behind SenderOrder: along the way from the sender *)
(* through the queue of r's loop to out[r], the numbers of its texts fall.   *)

LoopsOK ==
    \A l \in Loops : /\ casting[l] \/ raised[l] # NoFrame => ~Idle(l)
                     /\ ~Idle(l) => LoopOf[reading[l]] = l

\* A text of s that r was given, directly or in a task, is no younger than the
\* newest one, and older than it while the newest has not come to r.
Given(r, s, n) ==
    /\ n <= texts[s]
    /\ Casting(s) /\ r \notin seen[LoopOf[s]] => n < texts[s]

OutGiven ==
    \A r, s \in Clients : \A i \in TextsOf(r, s) : Given(r, s, chan[r].out[i].n)

QueueGiven ==
    \A l \in Loops : \A k \in DOMAIN queue[l] :
        LET t == queue[l][k]
        IN  /\ LoopOf[t.to] = l /\ LoopOf[t.from] # l
            /\ Given(t.to, t.from, t.n)

QueueOrder ==
    \A l \in Loops : \A i, j \in DOMAIN queue[l] :
        i < j /\ queue[l][i].to = queue[l][j].to /\ queue[l][i].from = queue[l][j].from
            => queue[l][i].n < queue[l][j].n

OutBeforeQueue ==
    \A l \in Loops : \A k \in DOMAIN queue[l] :
        LET t == queue[l][k]
        IN  \A i \in TextsOf(t.to, t.from) : chan[t.to].out[i].n < t.n

\* SenderOrder and what keeps it true: the inductive invariant of the proof.
OrderInv == /\ LoopsOK /\ OutGiven /\ QueueGiven
            /\ SenderOrder /\ QueueOrder /\ OutBeforeQueue

\* Once a channel was given a text of s, every later text of s was given to
\* it too, or waits in its loop's queue, or its broadcast has not come to it
\* yet, as long as the channel is open.
NoneSkipped ==
    \A r, s \in Clients : \A i \in TextsOf(r, s) :
        chan[r].state = "open" =>
            \A m \in chan[r].out[i].n .. texts[s] :
                \/ \E j \in TextsOf(r, s) : chan[r].out[j].n = m
                \/ \E k \in DOMAIN queue[LoopOf[r]] :
                     queue[LoopOf[r]][k] = [to |-> r, from |-> s, n |-> m]
                \/ m = texts[s] /\ Casting(s) /\ r \notin seen[LoopOf[s]]

\* A write is left unflushed only inside the read cycle that made it: pongs
\* go out with the flush of channelReadComplete or earlier.
NothingStranded ==
    \A c \in Clients :
        chan[c].state = "open" /\ chan[c].flushed < Len(chan[c].out)
            => reading[LoopOf[c]] = c

\* After the response or frame that ends the connection nothing more is
\* accepted, in particular no text of a broadcast that comes while the close
\* frame waits for a slow socket.
NothingAfterClose ==
    \A c \in Clients : \A i \in DOMAIN chan[c].out :
        chan[c].out[i].kind \in {"r400", "close"} => i = Len(chan[c].out)

(* The inductive invariants behind these three, and behind SenderFifo.       *)

Open(c) == chan[c].state = "open"

\* The texts of s that r was given, those in the queue of its loop, and the one
\* whose broadcast has not come to r yet.
Got(r, s) == {chan[r].out[i].n : i \in TextsOf(r, s)}
TasksOf(r, s) ==
    {k \in DOMAIN queue[LoopOf[r]] :
        queue[LoopOf[r]][k].to = r /\ queue[LoopOf[r]][k].from = s}
Waiting(r, s) == {queue[LoopOf[r]][k].n : k \in TasksOf(r, s)}
Due(r, s) == {n \in {texts[s]} : Casting(s) /\ r \notin seen[LoopOf[s]]}

\* No broadcast has heard of a channel before it is accepted; from then on it
\* is in the group until it closes.
MembersOK ==
    \A c \in Clients :
        /\ Open(c) => c \in group
        /\ chan[c].state = "new" =>
              /\ chan[c].out = <<>> /\ c \notin group
              /\ \A l \in Loops : /\ c \notin todo[l]
                                  /\ \A k \in DOMAIN queue[l] : queue[l][k].to # c

\* Texts are numbered from 1, and only an upgraded channel has any.
TextsOK ==
    /\ \A s \in Clients : Casting(s) => texts[s] > 0
    /\ \A r, s \in Clients : /\ 0 \notin Got(r, s) \cup Waiting(r, s)
                             /\ Got(r, s) # {} => Upgraded(chan[r])

\* An open channel that was given a text, or has it in its queue, is given the
\* later ones; the iterator cannot end before it has returned the channel.
Pursued ==
    \A r, s \in Clients : Open(r) =>
        /\ \A n \in Got(r, s) \cup Waiting(r, s) :
              n .. texts[s] \subseteq Got(r, s) \cup Waiting(r, s) \cup Due(r, s)
        /\ Got(r, s) \cup Waiting(r, s) # {} /\ Casting(s) =>
              r \in todo[LoopOf[s]] \cup seen[LoopOf[s]]

\* The texts of one sender on a channel, open or closed, leave none out.
Contiguous ==
    \A r, s \in Clients : \A m, n \in Got(r, s) : m .. n \subseteq Got(r, s)

DeliveryInv == MembersOK /\ TextsOK /\ Pursued /\ Contiguous

\* A channel's first request finds everything written; what is decoded later
\* are frames of an upgraded channel.
BatchOK(l) ==
    LET ch == chan[reading[l]]
    IN  batch[l] # <<>> =>
            /\ ~Idle(l)
            /\ \/ Framed(ch) /\ \A i \in DOMAIN batch[l] : batch[l][i] \in Frames
               \/ /\ Len(batch[l]) = 1 /\ batch[l][1] \in Requests
                  /\ ch.written = Len(ch.out) /\ ~Framed(ch)
                  /\ ~casting[l] /\ raised[l] = NoFrame

Throwing(c) == reading[LoopOf[c]] = c /\ raised[LoopOf[c]] = "close"

\* While the item that ends an open channel waits for the socket, the channel
\* is not upgraded and has nothing to read, or its close frame is being thrown.
Ending ==
    \A c \in Clients : \A i \in DOMAIN chan[c].out :
        Open(c) /\ chan[c].out[i].kind \in {"r400", "close"} =>
            /\ i > chan[c].written
            /\ \/ \A j \in DOMAIN chan[c].out : chan[c].out[j].kind # "r101"
               \/ Throwing(c)

ThrowsAlone(l) == ~(casting[l] /\ raised[l] # NoFrame)

ClosingInv == /\ NothingAfterClose /\ NothingStranded /\ Ending
              /\ \A l \in Loops : BatchOK(l) /\ ThrowsAlone(l)

\* What has reached a client, as SenderFifo names it.
HeardBy(ch) == [i \in 1 .. ch.written |-> [from |-> ch.out[i].from, n |-> ch.out[i].n]]
Fifo == INSTANCE SenderFifo WITH
            said <- texts, heard <- [c \in Clients |-> HeardBy(chan[c])]

\* The loops, queues and cursors implement the per-sender FIFO promise.
ImplementsFifo == Fifo!Spec

\* A broadcast reaches the socket of every upgraded channel it finds in the
\* group, unless that channel closes.
Heard(r, s, n) == \E i \in 1 .. chan[r].written : chan[r].out[i] = Text(s, n)
EveryListenerHears ==
    \A r, s \in Clients : \A n \in 1 .. MaxSent[s] :
        (Casting(s) /\ texts[s] = n /\ Upgraded(chan[r])
              /\ r \in todo[LoopOf[s]] \ seen[LoopOf[s]])
            ~> (Heard(r, s, n) \/ chan[r].state = "closed")

\* Only a message that is a binary one raises the exception, as the comment
\* above the test for text frames says.
OnlyBinaryThrows == \A l \in Loops : raised[l] \in {NoFrame, "binary"}

\* A broadcast is written to every connected client it iterates over, as the
\* comment above group.writeAndFlush says (stated for clients on its own loop).
EveryConnectedHears ==
    \A l \in Loops : casting[l] =>
        \A r \in seen[l] : LoopOf[r] = l /\ chan[r].state = "open" =>
            \E i \in TextsOf(r, reading[l]) : chan[r].out[i].n = texts[reading[l]]
=============================================================================
