\* Every set of options with five calls of a list's methods; four calls of a
\* deferred; two deferreds with two promises made of them, and four calls.
SPECIFICATION MCSpec
CONSTANTS
    NoValue = NoValue
    NoFn = NoFn
    f = f
    g = g
    Fns = {f, g}
    OptionSets <- MCOptionSets
    MaxCalls = 5
    DeferredCalls = 4
    Roots = 2
    MaxPromises = 4
    ThenCalls = 4
    Idle = Idle
CHECK_DEADLOCK FALSE
PROPERTIES
    ImplementsSubscribers
    ImplementsSettlement
    EveryoneIsTold
    ImplementsPromises
    NobodyHangs
