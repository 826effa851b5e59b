------------------------------ MODULE Deferred ------------------------------
(***************************************************************************)
(* jQuery.Deferred: one deferred, the six callback lists of its tuples and *)
(* the code that uses it, from outside and from inside its callbacks.      *)
(* tuples[i][j]: i = 0 notify, 1 resolve, 2 reject; j = 2 the callbacks    *)
(* (progress, done, fail), 3 the handlers that then() registers.           *)
(***************************************************************************)
EXTENDS Callbacks

CONSTANT
    NoFn,
    MaxCalls    \* calls of the methods by the using code

VARIABLES
    tuples,      \* the lists
    state,       \* pending, resolved, rejected
    stack,       \* the lists whose fire() is on the call stack, innermost first
    running,     \* the user callback that is executing, or NoFn
    timers,      \* window.setTimeout( process ): <<handler, outcome, value>>
    calls,
    value,       \* history: what it settled with
    registered,  \* history: the callbacks in the order they were registered
    told,        \* history: what each was told
    threw        \* history: a callback threw through fire()

vars == <<tuples, state, stack, running, timers, calls, value, registered, told, threw>>
history == <<value, registered, told, threw>>

Ids == (0..2) \X (2..3)

OutcomeOf(i) == CASE i = 0 -> "notified" [] i = 1 -> "resolved" [] i = 2 -> "rejected"

\* Faulty: the other outcome stays open.
FixedOpen(i) ==
    (IF i = 0 THEN <<>>
     ELSE << <<"state", OutcomeOf(i)>>, <<"lock", <<0, 2>> >>, <<"lock", <<0, 3>> >> >>)
    \o << <<"fire", <<i, 3>> >> >>

\* What the constructor puts in front of tuples[i][2]: the state, the other
\* outcome is disabled, progress is locked; then the handlers are fired.
Fixed(i) ==
    (IF i = 0 THEN <<>>
     ELSE << <<"state", OutcomeOf(i)>>,
             <<"disable", <<3 - i, 2>> >>, <<"disable", <<3 - i, 3>> >>,
             <<"lock", <<0, 2>> >>, <<"lock", <<0, 3>> >> >>)
    \o << <<"fire", <<i, 3>> >> >>

Init ==
    /\ tuples = [id \in Ids |->
           LET list == New(IF id[1] = 0 THEN {"memory"} ELSE {"once", "memory"})
           IN  IF id[2] = 2 THEN Add(list, Fixed(id[1])) ELSE list]
    /\ state = "pending" /\ stack = <<>> /\ running = NoFn
    /\ timers = <<>> /\ calls = 0
    /\ value = 0 /\ registered = <<>> /\ told = <<>> /\ threw = FALSE

-----------------------------------------------------------------------------
(* The methods.                                                            *)

UserCode == calls < MaxCalls /\ (running # NoFn \/ stack = <<>>)

\* The lists of `ids' that start to fire when `lists' replaces tuples.
Started(lists, ids) ==
    SelectSeq(ids, LAMBDA id : lists[id].firing /\ ~tuples[id].firing)

\* Methods change the lists of `ids'; the first of them fires first.
Calls(lists, ids) ==
    /\ UserCode
    /\ tuples' = lists
    /\ stack' = Started(lists, ids) \o stack
    /\ calls' = calls + 1
    /\ UNCHANGED <<state, running, timers, value, told, threw>>

\* notify, resolve, reject: the list's fireWith.
FireList(i) ==
    /\ Calls([tuples EXCEPT ![<<i, 2>>] = FireWith(@, calls + 1)], << <<i, 2>> >>)
    /\ UNCHANGED registered

\* progress, done, fail: the list's add; always adds to done and to fail.
AddTo(is) ==
    LET fn == <<"user", calls + 1>>
    IN  /\ Calls([id \in Ids |-> IF id[2] = 2 /\ id[1] \in is
                                 THEN Add(tuples[id], <<fn>>) ELSE tuples[id]],
                 << <<0, 2>>, <<1, 2>>, <<2, 2>> >>)
        /\ registered' = Append(registered,
               [id |-> calls + 1, way |-> "now", for |-> {OutcomeOf(i) : i \in is}])

\* then: a process in each of the handler lists.
Then ==
    LET fn == <<"process", calls + 1>>
    IN  /\ Calls([id \in Ids |-> IF id[2] = 3 THEN Add(tuples[id], <<fn>>) ELSE tuples[id]],
                 << <<0, 3>>, <<1, 3>>, <<2, 3>> >>)
        /\ registered' = Append(registered,
               [id |-> calls + 1, way |-> "later",
                for |-> {"notified", "resolved", "rejected"}])

-----------------------------------------------------------------------------
(* fire() of the innermost list.                                           *)

Top == Head(stack)
Loop == stack # <<>> /\ running = NoFn
Current == tuples[Top]
Arguments == Current.memory

Turns(list) ==
    /\ tuples' = [tuples EXCEPT ![Top] = list]
    /\ UNCHANGED <<state, running, timers, calls, history>>

ShiftStep == Loop /\ CanShift(Current) /\ Turns(Shift(Current)) /\ UNCHANGED stack
ExhaustedStep == Loop /\ IsExhausted(Current) /\ Turns(Exhausted(Current)) /\ UNCHANGED stack
DoneStep == Loop /\ IsDone(Current) /\ Turns(Done(Current)) /\ stack' = Tail(stack)

\* The next callback of the innermost list is of this kind.
Calling(kind) == Loop /\ CanCall(Current) /\ Callee(Current)[1] = kind

\* It applies a method to another list.
CallsOn(id, list) == tuples' = [tuples EXCEPT ![Top] = Call(@), ![id] = list]

SetState ==
    /\ Calling("state")
    /\ tuples' = [tuples EXCEPT ![Top] = Call(@)]
    /\ state' = Callee(Current)[2]
    /\ value' = Arguments
    /\ UNCHANGED <<stack, running, timers, calls, registered, told, threw>>

DisableOther ==
    /\ Calling("disable")
    /\ LET id == Callee(Current)[2] IN CallsOn(id, Disable(tuples[id]))
    /\ UNCHANGED <<state, stack, running, timers, calls, history>>

LockProgress ==
    /\ Calling("lock")
    /\ LET id == Callee(Current)[2] IN CallsOn(id, Lock(tuples[id]))
    /\ UNCHANGED <<state, stack, running, timers, calls, history>>

FireHandlers ==
    /\ Calling("fire")
    /\ LET id == Callee(Current)[2]
           list == FireWith(tuples[id], Arguments)
       IN  /\ CallsOn(id, list)
           /\ stack' = IF list.firing /\ ~tuples[id].firing THEN <<id>> \o stack ELSE stack
    /\ UNCHANGED <<state, running, timers, calls, history>>

\* A handler's process runs later, from a timer of its own.
SetTimeout ==
    /\ Calling("process")
    /\ tuples' = [tuples EXCEPT ![Top] = Call(@)]
    /\ timers' = Append(timers, <<Callee(Current)[2], OutcomeOf(Top[1]), Arguments>>)
    /\ UNCHANGED <<state, stack, running, calls, history>>

CallUser ==
    /\ Calling("user")
    /\ tuples' = [tuples EXCEPT ![Top] = Call(@)]
    /\ running' = Callee(Current)[2]
    /\ told' = Append(told, <<Callee(Current)[2], OutcomeOf(Top[1]), Arguments>>)
    /\ UNCHANGED <<state, stack, timers, calls, value, registered, threw>>

Return ==
    /\ running # NoFn
    /\ running' = NoFn
    /\ UNCHANGED <<tuples, state, stack, timers, calls, history>>

\* A callback of done, fail or progress that throws leaves every fire() on the
\* stack as it stands.  (A process catches what its handler throws.)
Throw ==
    /\ running # NoFn /\ stack # <<>>
    /\ running' = NoFn
    /\ stack' = <<>>
    /\ threw' = TRUE
    /\ UNCHANGED <<tuples, state, timers, calls, value, registered, told>>

\* The event loop runs the next process: its handler is user code.
Timer ==
    /\ stack = <<>> /\ running = NoFn /\ timers # <<>>
    /\ running' = Head(timers)[1]
    /\ told' = Append(told, Head(timers))
    /\ timers' = Tail(timers)
    /\ UNCHANGED <<tuples, state, stack, calls, value, registered, threw>>

Engine ==
    \/ ShiftStep \/ ExhaustedStep \/ DoneStep
    \/ SetState \/ DisableOther \/ LockProgress \/ FireHandlers
    \/ SetTimeout \/ CallUser \/ Timer

Next ==
    \/ \E i \in 0..2 : FireList(i)
    \/ \E is \in {{0}, {1}, {2}, {1, 2}} : AddTo(is)
    \/ Then
    \/ Engine \/ Return \/ Throw

\* fire() and the event loop go on, and user code returns.
Fairness == WF_vars(Engine) /\ WF_vars(Return)

Spec == Init /\ [][Next]_vars /\ Fairness

-----------------------------------------------------------------------------

\* The six lists together settle once and tell each callback what it waits for,
\* once, in order.
Promised == INSTANCE Settlement WITH
    Callbacks <- [id : 1..MaxCalls, way : {"now", "later"},
                  for : SUBSET {"notified", "resolved", "rejected"}],
    Values <- 1..MaxCalls
ImplementsSettlement == Promised!Spec

\* Unless a callback threw, everyone who waits for the outcome is told,
\* registered before it or after it.
WaitsForOutcome(n) == \E i \in DOMAIN registered : registered[i].id = n /\ state \in registered[i].for
HeardOutcome(n) == \E i \in DOMAIN told : told[i][1] = n /\ told[i][2] = state
EveryoneIsTold == []<>(threw \/ \A n \in 1..MaxCalls : WaitsForOutcome(n) => HeardOutcome(n))
=============================================================================
