\* An element with two scripts is put into two containers by one call.
SPECIFICATION Spec
CONSTANTS
    MaxNodes = 8
    MaxCalls = 2
CHECK_DEADLOCK FALSE
INVARIANT
    EvaluatedOnFirstInsertion
