\* A speaker and a listener on two loops, under the fairness of the event loops.
SPECIFICATION FairSpec
CONSTANTS
    a = a
    b = b
    l1 = l1
    l2 = l2
    Clients <- MCClients2
    Loops <- MCLoops2
    LoopOf <- MCLoopOfApart
    NoOne = NoOne
    MaxSent <- MCSpeaker
    MaxBatch = 2
CHECK_DEADLOCK FALSE
PROPERTY
    EveryListenerHears
