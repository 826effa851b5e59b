---------------------------- MODULE Settlement ----------------------------
(***************************************************************************)
(* What a Deferred promises.  It settles at most once.  A callback for an  *)
(* outcome is told that outcome alone, once, with the value it settled     *)
(* with, and no callback is told before one that was registered earlier    *)
(* for the same outcome in the same way (done and fail, or then).          *)
(* Progress is told in the order it was notified.                          *)
(***************************************************************************)
EXTENDS Integers, Sequences

CONSTANTS Callbacks, Values

VARIABLES
    state,       \* pending, resolved, rejected
    value,       \* what it settled with, 0 while pending
    registered,  \* the callbacks, in the order they were registered
    told         \* what they were told: a sequence of <<callback, outcome, value>>

vars == <<state, value, registered, told>>

Init == state = "pending" /\ value = 0 /\ registered = <<>> /\ told = <<>>

Settle(outcome, v) ==
    /\ state = "pending"
    /\ state' = outcome
    /\ value' = v
    /\ UNCHANGED <<registered, told>>

\* A callback is [id, way, for]: way is "now" (done, fail, always, progress) or
\* "later" (then), `for' the set of outcomes it waits for.
Register(c) ==
    /\ registered' = Append(registered, c)
    /\ UNCHANGED <<state, value, told>>

Order(id) == CHOOSE i \in DOMAIN registered : registered[i].id = id

WasTold(c) == \E i \in DOMAIN told : told[i][1] = c.id /\ told[i][2] # "notified"

\* No one of the same way that registered after c was told already.
InTurn(c) ==
    \A i \in DOMAIN registered :
        /\ registered[i].way = c.way
        /\ i > Order(c.id)
        => ~WasTold(registered[i])

TellOutcome(c) ==
    /\ state \in c.for
    /\ ~WasTold(c)
    /\ InTurn(c)
    /\ told' = Append(told, <<c.id, state, value>>)
    /\ UNCHANGED <<state, value, registered>>

TellProgress(c, v) ==
    /\ "notified" \in c.for
    /\ \A i \in DOMAIN told :
           (told[i][1] = c.id /\ told[i][2] = "notified") => told[i][3] < v
    /\ told' = Append(told, <<c.id, "notified", v>>)
    /\ UNCHANGED <<state, value, registered>>

Next ==
    \/ \E outcome \in {"resolved", "rejected"}, v \in Values : Settle(outcome, v)
    \/ \E c \in Callbacks : Register(c)
    \/ \E i \in DOMAIN registered :
           \/ TellOutcome(registered[i])
           \/ \E v \in Values : TellProgress(registered[i], v)

Spec == Init /\ [][Next]_vars
=============================================================================
