\* Two clients on one loop: one is connected but has not upgraded yet.
SPECIFICATION Spec
CONSTANTS
    a = a
    b = b
    l1 = l1
    l2 = l2
    Clients <- MCClients2
    Loops <- MCLoops1
    LoopOf <- MCLoopOfShared
    NoOne = NoOne
    MaxSent <- MCThreeEach
    MaxBatch = 2
CHECK_DEADLOCK FALSE
INVARIANT
    EveryConnectedHears
