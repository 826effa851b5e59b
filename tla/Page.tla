-------------------------------- MODULE Page --------------------------------
(***************************************************************************)
(* The chat page: what jQuery( function ) waits for, and the client that   *)
(* the page's own function starts.                                         *)
(*                                                                         *)
(* Any script may call jQuery.holdReady, as often to release as to hold,   *)
(* and jQuery( function ).  Function 1 is the page's.  What the messages   *)
(* say is left out; they are numbered.                                     *)
(***************************************************************************)
EXTENDS Integers, Sequences

CONSTANTS MaxFns, MaxHolds, MaxMessages

VARIABLES
    document,     \* readyState
    fired,        \* the events that the browser has fired
    listening,    \* the events that call completed
    timers,       \* setTimeout( jQuery.ready )
    readyWait, isReady,
    resolved,     \* readyList
    added,        \* the functions of readyList, of which the
    scheduled,    \* ones here wait for their own setTimeout
    holds, held,  \* calls of holdReady( true ): not yet released, all
    ran,          \* history: the functions that ran
    early,        \* history: readyList was resolved too early
    socket,       \* its readyState
    shown,        \* the lines of the text area
    received, sent, refused

readiness == <<listening, timers, readyWait, isReady, resolved, added, scheduled, holds, held, early>>
client == <<socket, shown, received, sent, refused>>
vars == <<document, fired, readiness, ran, client>>

Fns == 1..MaxFns

\* jQuery is loaded while the document is, or later: with the document parsed
\* there is a timeout, as its events may be over.
Init ==
    /\ document \in {"loading", "interactive", "complete"}
    /\ fired \in CASE document = "loading" -> {{}}
                   [] document = "interactive" -> {{}, {"DOMContentLoaded"}}
                   [] document = "complete" -> {{"DOMContentLoaded"}, {"DOMContentLoaded", "load"}}
    /\ listening = IF document = "loading" THEN {"DOMContentLoaded", "load"} ELSE {}
    /\ timers = IF document = "loading" THEN 0 ELSE 1
    /\ readyWait = 1 /\ isReady = FALSE /\ resolved = FALSE
    /\ added = {} /\ scheduled = {} /\ ran = <<>>
    /\ holds = 0 /\ held = 0 /\ early = FALSE
    /\ socket = "none" /\ shown = <<>> /\ received = 0 /\ sent = 0 /\ refused = 0

-----------------------------------------------------------------------------
(* jQuery.ready.                                                           *)

\* readyList.resolveWith: the functions run later, each in a timeout.
ResolveReadyList ==
    /\ resolved' = TRUE
    /\ scheduled' = IF resolved THEN scheduled ELSE added
    /\ early' = (early \/ (~resolved /\ (document = "loading" \/ holds' # 0)))

\* jQuery.ready( true )
Release ==
    /\ readyWait' = readyWait - 1
    /\ IF readyWait' # 0
       THEN UNCHANGED <<isReady, resolved, scheduled, early>>
       ELSE isReady' = TRUE /\ ResolveReadyList

\* Faulty: the document is ready, whoever holds the event back.
DomReadyUnheld ==
    IF isReady
    THEN UNCHANGED <<readyWait, isReady, resolved, scheduled, early>>
    ELSE isReady' = TRUE /\ readyWait' = readyWait - 1 /\ ResolveReadyList

\* jQuery.ready()
DomReady ==
    IF isReady
    THEN UNCHANGED <<readyWait, isReady, resolved, scheduled, early>>
    ELSE /\ isReady' = TRUE
         /\ readyWait' = readyWait - 1
         /\ IF readyWait' > 0
            THEN UNCHANGED <<resolved, scheduled, early>>
            ELSE ResolveReadyList

HoldReady ==
    /\ held < MaxHolds
    /\ held' = held + 1 /\ holds' = holds + 1
    /\ readyWait' = readyWait + 1
    /\ UNCHANGED <<document, fired, listening, timers, isReady, resolved, added, scheduled,
                   early, ran, client>>

ReleaseReady ==
    /\ holds > 0
    /\ holds' = holds - 1
    /\ Release
    /\ UNCHANGED <<document, fired, listening, timers, added, held, ran, client>>

\* Faulty: the list forgets that it was resolved.
ReadyForgets(fn) ==
    /\ fn \notin added
    /\ added' = added \union {fn}
    /\ UNCHANGED <<document, fired, listening, timers, readyWait, isReady, resolved, scheduled,
                   holds, held, early, ran, client>>

\* jQuery( fn )
Ready(fn) ==
    /\ fn \notin added
    /\ added' = added \union {fn}
    /\ scheduled' = IF resolved THEN scheduled \union {fn} ELSE scheduled
    /\ UNCHANGED <<document, fired, listening, timers, readyWait, isReady, resolved, holds, held,
                   early, ran, client>>

-----------------------------------------------------------------------------
(* The browser.                                                            *)

Parsed ==
    /\ document = "loading"
    /\ document' = "interactive"
    /\ UNCHANGED <<fired, readiness, ran, client>>

Loaded ==
    /\ document = "interactive" /\ "DOMContentLoaded" \in fired
    /\ document' = "complete"
    /\ UNCHANGED <<fired, readiness, ran, client>>

\* The event calls completed, if jQuery listens to it.
Fire(event) ==
    /\ event \notin fired
    /\ document # "loading" /\ (event = "load" => document = "complete")
    /\ fired' = fired \union {event}
    /\ IF event \in listening
       THEN listening' = {} /\ holds' = holds /\ DomReady
       ELSE UNCHANGED <<listening, readyWait, isReady, resolved, scheduled, holds, early>>
    /\ UNCHANGED <<document, timers, added, held, ran, client>>

\* window.setTimeout( jQuery.ready ) is over.
ReadyTimer ==
    /\ timers > 0
    /\ timers' = timers - 1 /\ holds' = holds
    /\ DomReady
    /\ UNCHANGED <<document, fired, listening, added, held, ran, client>>

\* A function runs, and may throw: another timeout reports it.  The page's
\* creates the socket of a browser that has WebSocket.
Run(fn) ==
    /\ fn \in scheduled
    /\ scheduled' = scheduled \ {fn}
    /\ ran' = Append(ran, fn)
    /\ socket' \in IF fn = 1 THEN {"connecting", "unsupported"} ELSE {socket}
    /\ UNCHANGED <<document, fired, listening, timers, readyWait, isReady, resolved, added, holds,
                   held, early, shown, received, sent, refused>>

-----------------------------------------------------------------------------
(* The page's client.                                                      *)

OnOpen ==
    /\ socket = "connecting"
    /\ socket' = "open"
    /\ shown' = <<"open">>
    /\ UNCHANGED <<document, fired, readiness, ran, received, sent, refused>>

OnMessage ==
    /\ socket = "open" /\ received < MaxMessages
    /\ received' = received + 1
    /\ shown' = Append(shown, received')
    /\ UNCHANGED <<document, fired, readiness, ran, socket, sent, refused>>

OnClose ==
    /\ socket \in {"connecting", "open"}
    /\ socket' = "closed"
    /\ shown' = <<"closed">>
    /\ UNCHANGED <<document, fired, readiness, ran, received, sent, refused>>

\* A click, heard once the page's function has run: a message is sent, or it
\* is refused with an alert, or the browser has no WebSocket.
Click ==
    /\ socket # "none" /\ sent + refused < MaxMessages
    /\ CASE socket = "open" -> sent' = sent + 1 /\ UNCHANGED refused
         [] socket = "unsupported" -> UNCHANGED <<sent, refused>>
         [] OTHER -> refused' = refused + 1 /\ UNCHANGED sent
    /\ UNCHANGED <<document, fired, readiness, ran, socket, shown, received>>

Browser ==
    \/ Parsed \/ Loaded \/ ReadyTimer
    \/ \E event \in {"DOMContentLoaded", "load"} : Fire(event)
    \/ \E fn \in Fns : Run(fn)

Next ==
    \/ HoldReady \/ ReleaseReady \/ (\E fn \in Fns : Ready(fn))
    \/ Browser
    \/ OnOpen \/ OnMessage \/ OnClose \/ Click

\* The browser goes on.
Fairness == WF_vars(Browser)

Spec == Init /\ [][Next]_vars /\ Fairness

-----------------------------------------------------------------------------

\* A function runs once, and none before the document is parsed, nor while
\* somebody who held the ready event back has not released it: in whatever
\* order the holds, the two events and the calls of jQuery( fn ) come.
ReadyOnce ==
    /\ ~early
    /\ ran # <<>> => resolved
    /\ \A i, j \in DOMAIN ran : ran[i] = ran[j] => i = j

\* Every function runs in the end, also one that was added when the page was
\* ready long since, if nobody holds it back for ever.
EveryFunctionRuns ==
    []<>(holds > 0 \/ \A fn \in added : \E i \in DOMAIN ran : ran[i] = fn)
=============================================================================
