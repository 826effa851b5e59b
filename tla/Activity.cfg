\* Four calls of the effects' methods, two requests, two functions, holds and
\* messages of a page.
SPECIFICATION MCSpec
CONSTANTS
    MaxCalls = 4
    MaxRequests = 2
    MaxFns = 2
    MaxHolds = 2
    MaxMessages = 2
CHECK_DEADLOCK FALSE
INVARIANTS
    OneAtATime
    ActiveCounts
    ToldOnce
    OwnAnswer
    ReadyOnce
PROPERTIES
    EveryPromiseResolved
    EveryoneCompletes
    EveryFunctionRuns
