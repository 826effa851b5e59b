\* Three messages of both sizes, one request with its reply, sockets that hold
\* two messages, three orders, three requests of two to four parts.
SPECIFICATION MCSpec
CONSTANTS
    HEAD_LENGHT = 45
    TagOffsets <- MCTagOffsets
    Bodies <- MCBodies
    MaxMessages = 3
    IdleTime = 2
    Window = 2
    MaxWaiting = 2
    MaxEchoes = 3
    Orders = 3
    Beat = Beat
    MaxBeats = 2
    MaxReplies = 3
    Contents = {0, 1, 2}
    MaxRequests = 3
    Request = 53
    Reply = 34
CHECK_DEADLOCK FALSE
INVARIANTS
    FailsOnlyOnSplit
    Conversation
    ReplyMeansServed
PROPERTIES
    ImplementsStream
    LostServerNoticed
    EchoesReturn
    AllAnswered
    ImplementsExchange
    EveryRequestServed
    Settles
