------------------------------ MODULE MCPromises ------------------------------
(***************************************************************************)
(* Small instances of what jQuery builds on callback lists: one list with  *)
(* any options, one Deferred, and then() and when over several.  `part'    *)
(* says which of the three takes steps; the others keep an initial state.  *)
(***************************************************************************)
EXTENDS CallbackList

CONSTANTS
    f, g,                        \* callbacks
    DeferredCalls,               \* of Deferred
    Roots, MaxPromises, ThenCalls, Idle

\* The user's own deferreds are among all there can be.
ASSUME RootsAssumption == Roots \in Nat /\ MaxPromises \in Nat /\ Roots <= MaxPromises

VARIABLES
    part,
    tuples, deferredState, stack, deferredRunning, deferredTimers,   \* Deferred
    deferredCalls, value, registered, told, threw,
    count, state, val, reactions, listeners, maxDepth, timers,       \* Then
    jobs, current, remaining, values, given, thenCalls, parent, following

deferredVars == <<tuples, deferredState, stack, deferredRunning, deferredTimers,
                  deferredCalls, value, registered, told, threw>>
thenVars == <<count, state, val, reactions, listeners, maxDepth, timers, jobs, current,
              remaining, values, given, thenCalls, parent, following>>
allVars == <<part, vars, deferredVars, thenVars>>

One == INSTANCE Deferred WITH
    state <- deferredState, running <- deferredRunning, timers <- deferredTimers,
    calls <- deferredCalls, MaxCalls <- DeferredCalls

Many == INSTANCE Then WITH calls <- thenCalls, MaxCalls <- ThenCalls

MCOptionSets == SUBSET {"once", "memory", "unique", "stopOnFalse"}

MCInit ==
    /\ part \in {"list", "deferred", "then"}
    /\ Init /\ One!Init /\ Many!Init
    /\ part # "list" => self.options = {}

MCNext ==
    \/ part = "list" /\ Next /\ UNCHANGED <<part, deferredVars, thenVars>>
    \/ part = "deferred" /\ One!Next /\ UNCHANGED <<part, vars, thenVars>>
    \/ part = "then" /\ Many!Next /\ UNCHANGED <<part, vars, deferredVars>>

MCSpec == MCInit /\ [][MCNext]_allVars /\ One!Fairness /\ Many!Fairness

-----------------------------------------------------------------------------

\* What each module says of its part.
ImplementsSettlement == One!ImplementsSettlement
EveryoneIsTold == One!EveryoneIsTold
ImplementsPromises == Many!ImplementsPromises
NobodyHangs == Many!NobodyHangs
=============================================================================
