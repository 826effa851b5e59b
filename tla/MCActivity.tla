------------------------------ MODULE MCActivity ------------------------------
(***************************************************************************)
(* Small instances of what goes on in a page: effects, requests, and the   *)
(* page becoming ready and talking to the chat server.  `part' says which  *)
(* of the three takes steps; the others keep an initial state.             *)
(***************************************************************************)
EXTENDS Page

CONSTANTS
    MaxCalls,      \* of Effects
    MaxRequests    \* of Ajax

\* The bounds are numbers.
ASSUME MaxCallsAssumption == MaxCalls \in Nat
ASSUME MaxRequestsAssumption == MaxRequests \in Nat

VARIABLES
    part,
    queue, hooks, animations, anims, timeouts, finishing, inProgress,     \* Effects
    animationFrames, stack, calls, promised, promisesResolved, cleared,
    nested, forced, hurried,
    requests, kind, global, completed, transport, timer, ajaxListening,   \* Ajax
    flying, state, active, jobs, name, installed, oldCallbacks, nonce,
    container, silent, told, lastGlobal, threw

effectsVars == <<queue, hooks, animations, anims, timeouts, finishing, inProgress,
                 animationFrames, stack, calls, promised, promisesResolved, cleared, nested,
                 forced, hurried>>
ajaxVars == <<requests, kind, global, completed, transport, timer, ajaxListening, flying,
              state, active, jobs, name, installed, oldCallbacks, nonce, container, told,
              lastGlobal, threw, silent>>
allVars == <<part, vars, effectsVars, ajaxVars>>

Fx == INSTANCE Effects WITH
    timers <- animations, requested <- animationFrames, resolved <- promisesResolved
Requests == INSTANCE Ajax WITH listening <- ajaxListening

MCInit ==
    /\ part \in {"effects", "ajax", "page"}
    /\ Init /\ Fx!Init /\ Requests!Init
    /\ part # "page" => document = "loading"

MCNext ==
    \/ part = "effects" /\ Fx!Next /\ UNCHANGED <<part, vars, ajaxVars>>
    \/ part = "ajax" /\ Requests!Next /\ UNCHANGED <<part, vars, effectsVars>>
    \/ part = "page" /\ Next /\ UNCHANGED <<part, effectsVars, ajaxVars>>

\* The browser goes on only with the page that is there.
MCFairness ==
    /\ Fx!Fairness /\ Requests!Fairness
    /\ WF_vars(part = "page" /\ Browser)

MCSpec == MCInit /\ [][MCNext]_allVars /\ MCFairness

-----------------------------------------------------------------------------

\* What each module says of its part.
OneAtATime == Fx!OneAtATime
EveryPromiseResolved == Fx!EveryPromiseResolved
ActiveCounts == Requests!ActiveCounts
ToldOnce == Requests!ToldOnce
OwnAnswer == Requests!OwnAnswer
EveryoneCompletes == Requests!EveryoneCompletes
=============================================================================
