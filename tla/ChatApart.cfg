\* Two clients on different loops: every text to the other client is a task.
SPECIFICATION Spec
CONSTANTS
    a = a
    b = b
    l1 = l1
    l2 = l2
    Clients <- MCClients2
    Loops <- MCLoops2
    LoopOf <- MCLoopOfApart
    NoOne = NoOne
    MaxSent <- MCThreeEach
    MaxBatch = 2
CHECK_DEADLOCK FALSE
INVARIANTS
    TypeOK
    SenderOrder
    NoneSkipped
    NothingStranded
    NothingAfterClose
PROPERTY
    ImplementsFifo
