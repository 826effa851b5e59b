----------------------------- MODULE DocumentParts -----------------------------
(***************************************************************************)
(* What jQuery does with a document, side by side: the handlers of a       *)
(* click, nodes moved and copied, and a response made into data.           *)
(***************************************************************************)
EXTENDS EventHandlers

CONSTANTS
    MaxNodes, ManipulationCalls,   \* of Manipulation
    Types, MaxTypes                \* of Conversion

\* There are nodes for the page to begin with; "*" is no type of data.
ASSUME NodesAssumption == MaxNodes \in Nat /\ MaxNodes >= 5
ASSUME TypesAssumption == {"*", "none"} \intersect Types = {}

VARIABLES
    page, jobs, nodeCalls, given, runs, spread, disturbed,              \* Manipulation
    converters, asked, dataTypes, currentType, response, phase, threw   \* Conversion

nodeVars == <<page, jobs, nodeCalls, given, runs, spread, disturbed>>
typeVars == <<converters, asked, dataTypes, currentType, response, phase, threw>>

Manip == INSTANCE Manipulation WITH calls <- nodeCalls, MaxCalls <- ManipulationCalls
Conv == INSTANCE Conversion WITH current <- currentType

\* The nodes that have a listener are those that were given one, and it
\* dispatches to the node itself: Manipulation says it at length.
ListenersAsGiven == Manip!ListenersAsGiven

\* A script is evaluated once, the first time that it gets into the document,
\* with the exceptions that Manipulation names: a removal with its data, a move by
\* the script before it, and an insertion into several targets at once.
EvaluatedOnce == Manip!EvaluatedOnce

\* A success of jQuery.ajax hands over a value of the type asked for, and it
\* fails only if a converter did or none was there.
GivesWhatWasAsked == Conv!GivesWhatWasAsked
=============================================================================
