----------------------------- MODULE Subscribe -----------------------------
(***************************************************************************)
(* The subscription clients and servers of seria-jboss and seria-protobuf, *)
(* which differ in their codec only: one connection, on which the client   *)
(* orders as soon as it is active and sends a heartbeat, an order with an  *)
(* id of its own, when nothing was read or written for a while.  Both      *)
(* codecs put messages together again, however they are cut.               *)
(***************************************************************************)
EXTENDS Naturals, Sequences

CONSTANTS
    Orders,     \* how many orders the client sends: 10
    Beat,       \* the id of a heartbeat: -1000
    IdleTime,   \* ticks until the client's IdleStateHandler fires
    Window,     \* bound: messages in a direction's socket buffers
    MaxBeats,   \* bound: heartbeats that wait in the client's channel
    MaxReplies  \* bound: responses that wait in the server's channel

Ids == 0 .. Orders - 1

SubscribeAssumption ==
    /\ Orders \in Nat /\ Beat \notin Ids
    /\ IdleTime \in Nat \ {0} /\ Window \in Nat \ {0} /\ MaxBeats \in Nat
    /\ MaxReplies \in Nat

VARIABLES
    client,    \* the client's channel: new, open, closed
    timer,     \* ticks since the IdleStateHandler's timer was last set
    out,       \* ids of requests in the client's channel, flushed
    wire,      \* ids in the socket buffers towards the server
    server,    \* the server's channel: none, open, closed; lost: its host died
    replies,   \* ids of responses in the server's channel, flushed
    back,      \* ids in the socket buffers towards the client
    received   \* ids of the responses to orders the client has logged

vars == <<client, timer, out, wire, server, replies, back, received>>
serverVars == <<server, replies>>

Init ==
    /\ client = "new" /\ server = "none"
    /\ timer = 0
    /\ out = <<>> /\ wire = <<>> /\ replies = <<>> /\ back = <<>>
    /\ received = <<>>

-----------------------------------------------------------------------------
(* The client. *)

\* Faulty: what is flushed ends with the last but one order.
OrdersShort == [i \in 1 .. Orders - 1 |-> i - 1]

\* The loop in channelActive, and the flush behind it.
AllOrders == [i \in 1 .. Orders |-> i - 1]

ChannelActive ==
    /\ client = "new"
    /\ client' = "open" /\ server' = "open"
    /\ out' = AllOrders
    /\ UNCHANGED <<timer, wire, replies, back, received>>

\* The socket takes the next request: a write that completes sets the timer.
ClientWrites ==
    /\ client = "open" /\ out # <<>> /\ Len(wire) < Window
    /\ wire' = Append(wire, Head(out))
    /\ out' = Tail(out)
    /\ timer' = 0
    /\ UNCHANGED <<client, serverVars, back, received>>

Logged(id) == IF id = Beat THEN received ELSE Append(received, id)

\* A response is decoded and logged; the IdleStateHandler, first in the
\* pipeline, has seen the read.
ClientReads ==
    /\ client = "open" /\ back # <<>>
    /\ received' = Logged(Head(back))
    /\ back' = Tail(back)
    /\ timer' = 0
    /\ UNCHANGED <<client, out, wire, serverVars>>

Tick ==
    /\ client = "open" /\ timer < IdleTime
    /\ timer' = timer + 1
    /\ UNCHANGED <<client, out, wire, serverVars, back, received>>

IsBeat(id) == id = Beat

\* userEventTriggered: a heartbeat goes through the whole pipeline.
Heartbeat ==
    /\ client = "open" /\ timer = IdleTime
    /\ timer' = 0
    /\ out' = Append(out, Beat)
    /\ Len(SelectSeq(out, IsBeat)) < MaxBeats
    /\ UNCHANGED <<client, wire, serverVars, back, received>>

\* End of stream, or an error: exceptionCaught.  The kernel gives up on a host
\* that leaves bytes unacknowledged.
ClientCloses ==
    /\ client = "open"
    /\ server = "closed" \/ (server = "lost" /\ wire # <<>>)
    /\ client' = "closed"
    /\ UNCHANGED <<timer, out, wire, serverVars, back, received>>

-----------------------------------------------------------------------------
(* The server. *)

\* Faulty: the response is written, not flushed.
ServerReadsUnflushed ==
    /\ server = "open" /\ wire # <<>> /\ Len(replies) < MaxReplies
    /\ wire' = Tail(wire)
    /\ UNCHANGED <<client, timer, out, server, replies, back, received>>

\* channelRead answers every order, heartbeats too, and flushes.
ServerReads ==
    /\ server = "open" /\ wire # <<>> /\ Len(replies) < MaxReplies
    /\ wire' = Tail(wire)
    /\ replies' = Append(replies, Head(wire))
    /\ UNCHANGED <<client, timer, out, server, back, received>>

ServerWrites ==
    /\ server = "open" /\ replies # <<>> /\ Len(back) < Window
    /\ back' = Append(back, Head(replies))
    /\ replies' = Tail(replies)
    /\ UNCHANGED <<client, timer, out, wire, server, received>>

\* End of stream, or an error and exceptionCaught.
ServerCloses ==
    /\ server = "open"
    /\ server' = "closed"
    /\ UNCHANGED <<client, timer, out, wire, replies, back, received>>

\* The host or the network dies without a word.
ServerLost ==
    /\ server = "open"
    /\ server' = "lost"
    /\ UNCHANGED <<client, timer, out, wire, replies, back, received>>

-----------------------------------------------------------------------------
Next ==
    \/ ChannelActive \/ ClientWrites \/ ClientReads
    \/ Tick \/ Heartbeat \/ ClientCloses
    \/ ServerReads \/ ServerWrites \/ ServerCloses \/ ServerLost

Spec == Init /\ [][Next]_vars

\* Loops serve their sockets, time passes, a due timer fires, the kernel
\* reports an ended or dead connection.
FairSpec ==
    /\ Spec
    /\ WF_vars(ClientWrites) /\ WF_vars(ClientReads) /\ WF_vars(ClientCloses)
    /\ WF_vars(ServerReads) /\ WF_vars(ServerWrites)
    /\ WF_vars(Tick \/ Heartbeat)

-----------------------------------------------------------------------------
(* Properties *)

IsOrder(id) == id # Beat

\* done are the first orders one by one; the orders that come are the others,
\* one by one too, with heartbeats anywhere between them.
InTurn(done, coming) ==
    /\ Len(done) <= Orders
    /\ \A i \in DOMAIN done : done[i] = i - 1
    /\ {coming[i] : i \in DOMAIN coming} \ {Beat} = Len(done) .. Orders - 1
    /\ \A i, j \in DOMAIN coming :
           i < j /\ IsOrder(coming[i]) /\ IsOrder(coming[j]) => coming[i] < coming[j]

\* Each order is answered once and in its turn: what was received and what is
\* on its way, in one direction or the other, are all orders in their order.
Conversation ==
    client # "new" => InTurn(received, back \o replies \o wire \o out)

\* A client whose orders were all answered still learns that the server's host
\* is gone.
LostServerNoticed == server = "lost" ~> client = "closed"

\* All orders are answered, unless the connection ends.
AllAnswered ==
    client = "open" ~> Len(received) = Orders \/ client = "closed" \/ server # "open"
=============================================================================
