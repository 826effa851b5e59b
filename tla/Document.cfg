\* Four calls of on, off and trigger with two functions; three calls on at most
\* eight nodes; three data types, two asked for; three elements matched twice.
SPECIFICATION MCSpec
CONSTANTS
    f = f
    g = g
    Fns = {f, g}
    MaxCalls = 4
    MaxNodes = 8
    ManipulationCalls = 3
    Types = {"text", "json", "xml"}
    MaxTypes = 2
    MaxNode = 3
    MaxRuns = 2
SYMMETRY MCSymmetry
CHECK_DEADLOCK FALSE
INVARIANTS
    HeardOnce
    StateFirst
    ListenersAsGiven
    EvaluatedOnce
    GivesWhatWasAsked
    FindsWhatIsMeant
