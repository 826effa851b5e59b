\* A delay, a promise of the queue and a call of finish.
SPECIFICATION Spec
CONSTANT MaxCalls = 3
CHECK_DEADLOCK FALSE
PROPERTY
    ResolvedWhenEmptied
