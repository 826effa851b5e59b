---------------------------- MODULE EchoMessage ----------------------------
(***************************************************************************)
(* echo-client2 and echo-server2: one connection, two MessageDecoder       *)
(* directions.  The client sends one request when its channel becomes      *)
(* active, the server answers every message it decodes, the client logs    *)
(* what it decodes.  A channel is shared by two directions: the end that   *)
(* decodes one of them writes the other, and whatever closes it ends both. *)
(***************************************************************************)
EXTENDS Integers, Sequences

CONSTANTS
    HEAD_LENGHT,  \* see MessageDecoder
    TagOffsets,
    Request,      \* length of the text the client sends
    Reply         \* length of the text the server answers with

TextAssumption == Request \in Nat /\ Reply \in Nat

VARIABLES
    upFrames, upTaken, upPos, upGot,            \* client to server
    downFrames, downTaken, downPos, downGot,    \* server to client
    server,    \* the server's end of the channel: open, failed, closed
    client     \* the client's end

up   == <<upFrames, upTaken, upPos, upGot, server>>
down == <<downFrames, downTaken, downPos, downGot, client>>
vars == <<up, down>>

Up == INSTANCE MessageDecoder WITH
          frames <- upFrames, taken <- upTaken, pos <- upPos, got <- upGot,
          channel <- server, Bodies <- {Request}, MaxMessages <- 1

Down == INSTANCE MessageDecoder WITH
          frames <- downFrames, taken <- downTaken, pos <- downPos,
          got <- downGot, channel <- client, Bodies <- {Reply}, MaxMessages <- 1

Init == Up!Init /\ Down!Init

-----------------------------------------------------------------------------
(* The client's pipeline: MessageEncoder, MessageDecoder, EchoClientHandler, *)
(* EchoClientHandler3 (the message to its string), EchoClientHandler2.       *)

\* channelActive writes and flushes the request.
ChannelActive ==
    /\ client = "open"
    /\ Up!Send
    /\ UNCHANGED down

ClientRead == Down!Read /\ UNCHANGED up

\* The message goes up the pipeline; every handler finds the type it casts to.
ClientReceives == Down!Whole /\ UNCHANGED up

\* The decoder throws, exceptionCaught of EchoClientHandler closes.
ClientFails ==
    /\ Down!TooShort \/ Down!WrongTag \/ Down!ShortBody
    /\ UNCHANGED up

ClientInactive == Down!Inactive /\ UNCHANGED up

\* The server's end is closed, or the connection broke.
ClientHangup == Down!Hangup /\ UNCHANGED up

-----------------------------------------------------------------------------
(* The server's pipeline: MessageEncoder, MessageDecoder, EchoServerHandler. *)

ServerRead == Up!Read /\ UNCHANGED down

\* Faulty: the reply is left for a channelReadComplete that does not flush.
ReceivesUnflushed == Up!Whole /\ UNCHANGED down

\* channelRead writes and flushes a reply to the message just decoded.
ServerReceives == Up!Whole /\ Down!Send

\* Faulty: the error is answered before the channel is closed.
FailsWithReply ==
    /\ Up!TooShort \/ Up!WrongTag \/ Up!ShortBody
    /\ Down!Send

\* The decoder throws, exceptionCaught closes the channel.
ServerFails ==
    /\ Up!TooShort \/ Up!WrongTag \/ Up!ShortBody
    /\ UNCHANGED down

ServerInactive == Up!Inactive /\ UNCHANGED down

ServerHangup == Up!Hangup /\ UNCHANGED down

-----------------------------------------------------------------------------
ClientStep == ClientRead \/ ClientReceives \/ ClientFails \/ ClientInactive
ServerStep == ServerRead \/ ServerReceives \/ ServerFails \/ ServerInactive

Next == ChannelActive \/ ClientStep \/ ClientHangup \/ ServerStep \/ ServerHangup

Spec == Init /\ [][Next]_vars

\* Both event loops run, and the end of one channel is noticed by the other.
FairSpec ==
    /\ Spec
    /\ WF_vars(ChannelActive) /\ WF_vars(ClientStep) /\ WF_vars(ServerStep)
    /\ WF_vars(server # "open" /\ ClientHangup)
    /\ WF_vars(client # "open" /\ ServerHangup)

-----------------------------------------------------------------------------
(* Properties *)

\* A reply in the client's hands is the reply to the whole request, although
\* the request may have come to the server in pieces, or in part.
ReplyMeansServed ==
    downGot # <<>> => /\ upGot = upFrames /\ Len(upGot) = 1
                      /\ downGot = downFrames

\* No exchange hangs: the client gets the reply, or both ends get to know
\* that there will be none, and the client's start() returns.
Settles == <>(downGot # <<>> \/ (server = "closed" /\ client = "closed"))
=============================================================================
