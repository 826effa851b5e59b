--------------------------- MODULE EchoHeartbeat ---------------------------
(***************************************************************************)
(* echo-client and echo-server: one connection.  The client greets and,    *)
(* whenever its IdleStateHandler says so, sends a heartbeat; the server    *)
(* writes back what it reads and flushes at the end of each read cycle.    *)
(* What is sent is counted in messages; a TCP buffer holds Window of them. *)
(***************************************************************************)
EXTENDS Naturals

CONSTANTS
    IdleTime,    \* ticks until the IdleStateHandler fires: 5 seconds
    Window,      \* bound: messages in a direction's socket buffers
    MaxWaiting,  \* bound: heartbeats that wait for room in the socket
    MaxEchoes    \* bound: echoes that wait in the server's channel

EchoAssumption ==
    IdleTime \in Nat \ {0} /\ Window \in Nat \ {0} /\ MaxWaiting \in Nat
    /\ MaxEchoes \in Nat

VARIABLES
    client,    \* the client's channel: new, open, closed
    watching,  \* has the IdleStateHandler started its timer?
    timer,     \* ticks since the timer was last set
    waiting,   \* heartbeats accepted by the client's channel, not in the socket
    wire,      \* messages in the socket buffers towards the server
    server,    \* the server's channel: none, open, closed; lost: its host died
    cycle,     \* is the server's loop between a channelRead and its complete?
    written,   \* echoes accepted by the server's channel, not flushed
    flushed,   \* echoes flushed, not in the socket
    back       \* echoes in the socket buffers towards the client

clientVars == <<client, watching, timer, waiting>>
serverVars == <<server, cycle, written, flushed>>
vars == <<clientVars, wire, serverVars, back>>

Init ==
    /\ client = "new" /\ watching = FALSE /\ timer = 0 /\ waiting = 0
    /\ wire = 0 /\ back = 0
    /\ server = "none" /\ cycle = FALSE /\ written = 0 /\ flushed = 0

-----------------------------------------------------------------------------
(* The client's pipeline: ClientChannelActiveHandler, ClientChannelRead-     *)
(* Handler, IdleStateHandler, HeartbeatHandler.                              *)

\* Faulty: super.channelActive is not called.
ActiveNotPassedOn ==
    /\ client = "new"
    /\ client' = "open" /\ server' = "open"
    /\ wire' = wire + 1
    /\ UNCHANGED <<watching, timer, waiting, cycle, written, flushed, back>>

\* channelActive greets, and passes the event on to the IdleStateHandler.
ChannelActive ==
    /\ client = "new"
    /\ client' = "open" /\ server' = "open"
    /\ wire' = wire + 1
    /\ watching' = TRUE /\ timer' = 0
    /\ UNCHANGED <<waiting, cycle, written, flushed, back>>

\* A due timer fires before time goes on.
Tick ==
    /\ client = "open" /\ watching /\ timer < IdleTime
    /\ timer' = timer + 1
    /\ UNCHANGED <<client, watching, waiting, wire, serverVars, back>>

\* userEventTriggered writes a heartbeat, which sets the timer again when the
\* socket takes it; the timer is set in any case when it fires.
Heartbeat ==
    /\ client = "open" /\ watching /\ timer = IdleTime
    /\ timer' = 0
    /\ UNCHANGED <<watching, serverVars, back>>

\* The socket has room for it at once.
HeartbeatSent ==
    /\ Heartbeat
    /\ waiting = 0 /\ wire < Window
    /\ wire' = wire + 1
    /\ UNCHANGED <<client, waiting>>

\* It has not, or earlier heartbeats wait: this one waits behind them.
HeartbeatWaits ==
    /\ Heartbeat
    /\ waiting > 0 \/ wire = Window
    /\ waiting < MaxWaiting
    /\ waiting' = waiting + 1
    /\ UNCHANGED <<client, wire>>

\* The connection is known to be broken: CLOSE_ON_FAILURE.
HeartbeatFails ==
    /\ Heartbeat
    /\ server = "closed"
    /\ client' = "closed"
    /\ UNCHANGED <<waiting, wire>>

\* The socket is writable again; the write that completes sets the timer.
ClientDrain ==
    /\ client = "open" /\ waiting > 0 /\ wire < Window
    /\ waiting' = waiting - 1
    /\ wire' = wire + 1
    /\ timer' = 0
    /\ UNCHANGED <<client, watching, serverVars, back>>

\* ClientChannelReadHandler stands before the IdleStateHandler and passes
\* nothing on: a read does not set the timer.
ClientRead ==
    /\ client = "open"
    /\ back' \in 0 .. back - 1
    /\ UNCHANGED <<clientVars, wire, serverVars>>

\* End of stream; an error ends in exceptionCaught.  Unacknowledged bytes make
\* the kernel give up on a host that does not answer.
ClientCloses ==
    /\ client = "open"
    /\ \/ server = "closed"
       \/ server = "lost" /\ wire > 0
    /\ client' = "closed"
    /\ UNCHANGED <<watching, timer, waiting, wire, serverVars, back>>

ClientBreaks ==
    /\ client = "open"
    /\ client' = "closed"
    /\ UNCHANGED <<watching, timer, waiting, wire, serverVars, back>>

-----------------------------------------------------------------------------
(* The server. *)

\* channelRead writes back what one read brought, without a flush.
ServerRead ==
    /\ server = "open"
    /\ \E k \in 1 .. wire : /\ written + flushed + k <= MaxEchoes
                           /\ wire' = wire - k
                           /\ written' = written + k
    /\ cycle' = TRUE
    /\ UNCHANGED <<clientVars, server, flushed, back>>

\* Faulty: the empty buffer is written, not flushed.
ReadCompleteNoFlush ==
    /\ server = "open" /\ cycle
    /\ cycle' = FALSE
    /\ UNCHANGED <<clientVars, wire, server, written, flushed, back>>

\* channelReadComplete writes an empty buffer and flushes; the listener that
\* would close the channel is commented out.
ServerReadComplete ==
    /\ server = "open" /\ cycle
    /\ cycle' = FALSE
    /\ written' = 0
    /\ \E k \in 0 .. flushed + written :
         /\ back + k <= Window
         /\ back' = back + k
         /\ flushed' = flushed + written - k
    /\ UNCHANGED <<clientVars, wire, server>>

ServerDrain ==
    /\ server = "open" /\ ~cycle /\ flushed > 0 /\ back < Window
    /\ flushed' = flushed - 1
    /\ back' = back + 1
    /\ UNCHANGED <<clientVars, wire, server, cycle, written>>

\* End of stream, or an error and exceptionCaught.
ServerCloses ==
    /\ server = "open" /\ ~cycle
    /\ server' = "closed"
    /\ UNCHANGED <<clientVars, wire, cycle, written, flushed, back>>

\* The host or the network dies without a word.
ServerLost ==
    /\ server = "open"
    /\ server' = "lost"
    /\ UNCHANGED <<clientVars, wire, cycle, written, flushed, back>>

-----------------------------------------------------------------------------
TimeOrBeat == Tick \/ HeartbeatSent \/ HeartbeatWaits \/ HeartbeatFails

Next ==
    \/ ChannelActive \/ TimeOrBeat \/ ClientDrain \/ ClientRead
    \/ ClientCloses \/ ClientBreaks
    \/ ServerRead \/ ServerReadComplete \/ ServerDrain
    \/ ServerCloses \/ ServerLost

Spec == Init /\ [][Next]_vars

\* Time passes and a due timer fires; loops serve their sockets; the kernel
\* reports an ended or dead connection.  Nothing need break.
FairSpec ==
    /\ Spec
    /\ WF_vars(TimeOrBeat) /\ SF_vars(ClientDrain) /\ WF_vars(ClientRead)
    /\ WF_vars(ClientCloses)
    /\ WF_vars(ServerRead) /\ WF_vars(ServerReadComplete) /\ WF_vars(ServerDrain)
    /\ WF_vars(client = "closed" /\ ServerCloses)

-----------------------------------------------------------------------------
(* Properties *)

\* A client that only listens still learns that the server's host is gone:
\* there is always a next heartbeat that nobody acknowledges.
LostServerNoticed == server = "lost" ~> client = "closed"

\* What was read goes back to the client while both ends live.
EchoesReturn ==
    written + flushed > 0 ~> back > 0 \/ server # "open" \/ client # "open"
=============================================================================
