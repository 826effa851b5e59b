\* What exceptionCaught can see: the comment speaks of binary messages only.
SPECIFICATION Spec
CONSTANTS
    a = a
    b = b
    l1 = l1
    l2 = l2
    Clients <- MCClients2
    Loops <- MCLoops2
    LoopOf <- MCLoopOfApart
    NoOne = NoOne
    MaxSent <- MCThreeEach
    MaxBatch = 2
CHECK_DEADLOCK FALSE
INVARIANT
    OnlyBinaryThrows
