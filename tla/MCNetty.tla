------------------------------- MODULE MCNetty -------------------------------
(***************************************************************************)
(* Small instances of four programs of the repository, each of which is    *)
(* one connection: `program' says which of them runs, and the others keep  *)
(* their initial state.                                                    *)
(***************************************************************************)
EXTENDS MCMessageDecoder

CONSTANTS
    IdleTime, Window, MaxWaiting, MaxEchoes,   \* of EchoHeartbeat
    Orders, Beat, MaxBeats, MaxReplies,        \* of Subscribe
    Contents, MaxRequests,                     \* of HttpServer
    Request, Reply                             \* of EchoMessage

VARIABLES
    program,
    echoClient, watching, echoTimer, waiting, echoWire,         \* EchoHeartbeat
    echoServer, cycle, written, flushed, echoBack,
    subClient, subTimer, subOut, subWire, subServer, replies,   \* Subscribe
    subBack, received,
    httpServer, asked, stream, httpTaken, handled, httpOut,     \* HttpServer
    httpWritten, httpChannel,
    upFrames, upTaken, upPos, upGot,                            \* EchoMessage
    downFrames, downTaken, downPos, downGot, server, client

heartbeatVars == <<echoClient, watching, echoTimer, waiting, echoWire, echoServer, cycle,
                   written, flushed, echoBack>>
subscribeVars == <<subClient, subTimer, subOut, subWire, subServer, replies, subBack,
                   received>>
httpVars == <<httpServer, asked, stream, httpTaken, handled, httpOut, httpWritten, httpChannel>>
echoVars == <<upFrames, upTaken, upPos, upGot, downFrames, downTaken, downPos, downGot,
              server, client>>
allVars == <<program, vars, heartbeatVars, subscribeVars, httpVars, echoVars>>

Heart == INSTANCE EchoHeartbeat WITH
    client <- echoClient, timer <- echoTimer, wire <- echoWire, server <- echoServer,
    back <- echoBack

Sub == INSTANCE Subscribe WITH
    client <- subClient, timer <- subTimer, out <- subOut, wire <- subWire,
    server <- subServer, back <- subBack

Http == INSTANCE HttpServer WITH
    server <- httpServer, taken <- httpTaken, out <- httpOut, written <- httpWritten,
    channel <- httpChannel

Echo == INSTANCE EchoMessage

ASSUME ProgramsAssumption ==
    /\ Heart!EchoAssumption /\ Sub!SubscribeAssumption /\ Http!HttpAssumption
    /\ Echo!TextAssumption

-----------------------------------------------------------------------------

MCInit ==
    /\ program \in {"decoder", "heartbeat", "subscribe", "http", "echo2"}
    /\ Init /\ Heart!Init /\ Sub!Init /\ Http!Init /\ Echo!Init
    /\ program # "http" => httpServer = "server"

\* An action of the program that runs; the others stay as they are.
Decoder(A) ==
    /\ program = "decoder" /\ A
    /\ UNCHANGED <<program, heartbeatVars, subscribeVars, httpVars, echoVars>>
Heartbeat(A) ==
    /\ program = "heartbeat" /\ A
    /\ UNCHANGED <<program, vars, subscribeVars, httpVars, echoVars>>
Subscribe(A) ==
    /\ program = "subscribe" /\ A
    /\ UNCHANGED <<program, vars, heartbeatVars, httpVars, echoVars>>
Server(A) ==
    /\ program = "http" /\ A
    /\ UNCHANGED <<program, vars, heartbeatVars, subscribeVars, echoVars>>
Exchange(A) ==
    /\ program = "echo2" /\ A
    /\ UNCHANGED <<program, vars, heartbeatVars, subscribeVars, httpVars>>

MCNext ==
    \/ Decoder(Next) \/ Heartbeat(Heart!Next) \/ Subscribe(Sub!Next)
    \/ Server(Http!Next) \/ Exchange(Echo!Next)

\* The fairness that each program states.  Only one of them ever takes steps, so
\* an action of one can share a formula with an action of another.
MCFairness ==
    /\ WF_allVars(\/ Heartbeat(Heart!TimeOrBeat) \/ Subscribe(Sub!Tick \/ Sub!Heartbeat)
                  \/ Server(Http!Handle) \/ Exchange(Echo!ChannelActive))
    /\ WF_allVars(\/ Heartbeat(Heart!ClientRead) \/ Subscribe(Sub!ClientReads)
                  \/ Server(Http!Read) \/ Exchange(Echo!ClientStep))
    /\ WF_allVars(\/ Heartbeat(Heart!ClientCloses) \/ Subscribe(Sub!ClientCloses)
                  \/ Exchange(server # "open" /\ Echo!ClientHangup))
    /\ WF_allVars(\/ Heartbeat(Heart!ServerRead) \/ Subscribe(Sub!ServerReads)
                  \/ Exchange(Echo!ServerStep))
    /\ WF_allVars(\/ Heartbeat(Heart!ServerReadComplete) \/ Subscribe(Sub!ServerWrites)
                  \/ Exchange(client # "open" /\ Echo!ServerHangup))
    /\ WF_allVars(\/ Heartbeat(Heart!ServerDrain) \/ Subscribe(Sub!ClientWrites))
    /\ WF_allVars(Heartbeat(echoClient = "closed" /\ Heart!ServerCloses))
    /\ SF_allVars(Heartbeat(Heart!ClientDrain) \/ Server(Http!Drain))

MCSpec == MCInit /\ [][MCNext]_allVars /\ MCFairness

-----------------------------------------------------------------------------

\* The clients that send heartbeats notice a server whose host has died.
LostServerNoticed == Heart!LostServerNoticed /\ Sub!LostServerNoticed

\* What each module says of its program.
EchoesReturn == Heart!EchoesReturn
Conversation == Sub!Conversation
AllAnswered == Sub!AllAnswered
ImplementsExchange == Http!ImplementsExchange
EveryRequestServed == Http!EveryRequestServed
ReplyMeansServed == Echo!ReplyMeansServed
Settles == program = "echo2" => Echo!Settles
=============================================================================
