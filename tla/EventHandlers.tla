--------------------------- MODULE EventHandlers ---------------------------
(***************************************************************************)
(* The click event of a checkbox inside a form: the handlers jQuery.event  *)
(* keeps for the two elements, dispatch and trigger, and the native click  *)
(* that trigger leverages so that the box is checked before anyone hears.  *)
(*                                                                         *)
(* A call is a frame of `stack', the innermost first.  Handlers are user   *)
(* code: they may register, remove and trigger while they are called.      *)
(* Namespaces, other event types and inline handlers are left out.         *)
(***************************************************************************)
EXTENDS Integers, Sequences, FiniteSets

CONSTANTS
    Fns,        \* the user's functions, by guid
    MaxCalls    \* calls by the user

\* jQuery's own handlers have guids that no function of the user has.
ASSUME FnsAssumption == Fns \cap {"leverage", "returnTrue"} = {}

Seqs == INSTANCE SequencesExt

VARIABLES
    handlers,       \* events.click of each element, <<>> when deleted
    delegateCount,  \* of that list
    saved,          \* dataPriv's click of the box
    triggered,      \* jQuery.event.triggered
    checked,        \* the box
    events,         \* the jQuery.Event objects
    stack,
    calls,
    clicks,         \* history: what was asked for, trigger() or a real click
    heard,          \* history: <<click, registration, by one()>>
    repeats         \* history: those heard again

vars == <<handlers, delegateCount, saved, triggered, checked, events, stack,
          calls, clicks, heard, repeats>>
registry == <<handlers, delegateCount>>
history == <<clicks, heard, repeats>>

Elements == {"box", "form"}

\* The path of an event, to the outermost element.
Path(target) == IF target = "box" THEN <<"box", "form">> ELSE <<"form">>

Unset == [is |-> "undefined", event |-> 0]
False == [is |-> "false", event |-> 0]
Args(ev) == [is |-> "args", event |-> ev]
Captured == [is |-> "captured", event |-> 0]

Init ==
    /\ handlers = [e \in Elements |-> <<>>]
    /\ delegateCount = [e \in Elements |-> 0]
    /\ saved = Unset
    /\ triggered = FALSE /\ checked = FALSE
    /\ events = <<>> /\ stack = <<>> /\ calls = 0
    /\ clicks = <<>> /\ heard = {} /\ repeats = {}

-----------------------------------------------------------------------------
(* jQuery.event.add and remove.                                            *)

\* handleObj.  `id' numbers the registrations.
HandleObj(id, guid, selector, once) ==
    [id |-> id, guid |-> guid, selector |-> selector, once |-> once]

Leverage == HandleObj(0, "leverage", FALSE, FALSE)
ReturnTrue == HandleObj(0, "returnTrue", FALSE, FALSE)

\* Delegates in front.
Insert(list, count, handleObj) ==
    IF handleObj.selector THEN Seqs!InsertAt(list, count + 1, handleObj)
    ELSE Append(list, handleObj)

\* The first handler of the box sets up the leverage, in front of it.
SettingUp(e) == e = "box" /\ handlers[e] = <<>>

Add(e, handleObj) ==
    LET start == IF SettingUp(e) THEN <<Leverage>> ELSE handlers[e]
    IN  /\ handlers' = [handlers EXCEPT ![e] = Insert(start, delegateCount[e], handleObj)]
        /\ delegateCount' = [delegateCount EXCEPT ![e] = @ + (IF handleObj.selector THEN 1 ELSE 0)]
        /\ saved' = IF SettingUp(e) THEN False ELSE saved

Handlers(e) == Seqs!ToSet(handlers[e])

\* The list without the handlers in `gone': left[j] is left of the first j.
Without(list, gone) ==
    LET left[j \in 0 .. Len(list)] ==
            IF j = 0 THEN <<>>
            ELSE IF list[j] \in gone THEN left[j - 1] ELSE Append(left[j - 1], list[j])
    IN  left[Len(list)]

\* The handlers in `gone' leave; with the last one goes the list.
Remove(e, gone) ==
    LET list == Without(handlers[e], gone)
        delegates == {i \in DOMAIN handlers[e] : handlers[e][i] \in gone /\ handlers[e][i].selector}
    IN  /\ handlers' = [handlers EXCEPT ![e] = list]
        /\ delegateCount' = [delegateCount EXCEPT
               ![e] = IF list = <<>> THEN 0 ELSE @ - Cardinality(delegates)]

-----------------------------------------------------------------------------
(* Frames.                                                                 *)

Top == Head(stack)
In(frame) == stack # <<>> /\ Top.frame = frame
Below == Tail(stack)
Event(ev) == events[ev]

Idle(frame) == [frame |-> frame, event |-> 0, this |-> "form", elem |-> "form", i |-> 0, queue |-> <<>>]
TriggerFrame(ev) == [Idle("trigger") EXCEPT !.event = ev, !.i = 1]
DispatchFrame(ev, e, queue) ==
    [Idle("dispatch") EXCEPT !.event = ev, !.this = e, !.elem = e, !.queue = queue]
NativeFrame(ev) == [Idle("native") EXCEPT !.event = ev, !.i = 1]
FrameOf(frame, ev) == [Idle(frame) EXCEPT !.event = ev]

NewEvent(click, target, native) ==
    [click |-> click, target |-> target, native |-> native,
     prevented |-> FALSE, stopped |-> FALSE, immediate |-> FALSE]

\* jQuery.event.handlers: the delegates that match below e, then its own.
HandlerQueue(e, target) ==
    LET n == delegateCount[e]
        list == handlers[e]
        With(cur, part) == [i \in DOMAIN part |-> <<cur, part[i]>>]
    IN  (IF target # e THEN With(target, SubSeq(list, 1, n)) ELSE <<>>)
        \o With(e, SubSeq(list, n + 1, Len(list)))

\* elem[ type ]() and the browser's click: the box changes before anyone hears.
NativeClick(click, target) ==
    /\ events' = Append(events, NewEvent(click, target, TRUE))
    /\ checked' = IF target = "box" THEN ~checked ELSE checked
    /\ clicks' = [clicks EXCEPT ![click].done = TRUE]

-----------------------------------------------------------------------------
(* User code: the main program and the handlers.                           *)

User == In("user") \/ stack = <<>>
Calling == User /\ calls < MaxCalls /\ calls' = calls + 1

On ==
    /\ Calling
    /\ \E e \in Elements, fn \in Fns, selector, once \in BOOLEAN :
        /\ selector => e = "form"
        /\ Add(e, HandleObj(calls + 1, fn, selector, once))
    /\ UNCHANGED <<triggered, checked, events, stack, history>>

\* off( "click", fn ) and off( "click" ), which takes the leverage with it.
Off ==
    /\ Calling
    /\ \E e \in Elements :
        /\ handlers[e] # <<>>
        /\ \/ \E fn \in Fns : Remove(e, {h \in Handlers(e) : h.guid = fn})
           \/ Remove(e, Handlers(e))
    /\ UNCHANGED <<saved, triggered, checked, events, stack, history>>

\* The registrations a click of the target should reach.
Due(target) ==
    LET Reached(e, h) == h.selector => target # e
    IN  UNION { {handlers'[e][i].id : i \in {j \in DOMAIN handlers'[e] :
                    handlers'[e][j].id # 0 /\ Reached(e, handlers'[e][j])}} :
                e \in {Path(target)[k] : k \in DOMAIN Path(target)} }

\* The clicks that are being delivered.
Clicking == {Event(stack[i].event).click : i \in DOMAIN stack}

NewClick(target) ==
    clicks' = Append(clicks,
        [target |-> target, due |-> Due(target), done |-> FALSE, stopped |-> FALSE,
         within |-> Clicking,
         leveraged |-> target = "box" /\ saved'.is = "false" /\ handlers'["box"] # <<>>])

\* trigger( "click" ): special.click.trigger forces the setup of the box.
Trigger ==
    /\ Calling
    /\ \E target \in Elements :
        /\ IF target = "box" /\ saved = Unset
           THEN Add("box", ReturnTrue)
           ELSE UNCHANGED <<registry, saved>>
        /\ events' = Append(events, NewEvent(Len(clicks) + 1, target, FALSE))
        /\ stack' = <<TriggerFrame(Len(events) + 1)>> \o stack
        /\ NewClick(target)
    /\ UNCHANGED <<triggered, checked, heard, repeats>>

\* The person in front of the page clicks.
RealClick ==
    /\ stack = <<>> /\ calls < MaxCalls /\ calls' = calls + 1
    /\ UNCHANGED <<registry, saved, triggered, heard, repeats>>
    /\ \E target \in Elements :
        /\ events' = Append(events, NewEvent(Len(clicks) + 1, target, TRUE))
        /\ checked' = IF target = "box" THEN ~checked ELSE checked
        /\ clicks' = Append(clicks, [target |-> target, due |-> Due(target), done |-> TRUE,
                                     stopped |-> FALSE, within |-> {}, leveraged |-> TRUE])
        /\ stack' = <<NativeFrame(Len(events) + 1)>>

\* A handler returns, having stopped the event or not; a false stops it and
\* prevents its default.
Return ==
    /\ In("user")
    /\ \E prevent, stop, immediate \in BOOLEAN :
        /\ immediate => stop
        /\ events' = [events EXCEPT ![Top.event].prevented = @ \/ prevent,
                                    ![Top.event].stopped = @ \/ stop,
                                    ![Top.event].immediate = @ \/ immediate]
        /\ clicks' = [clicks EXCEPT ![Event(Top.event).click].stopped = @ \/ stop]
    /\ stack' = Below
    /\ UNCHANGED <<registry, saved, triggered, checked, calls, heard, repeats>>

-----------------------------------------------------------------------------
(* trigger: the path, then the default action.                             *)

\* The next element of a frame's path, unless the event was stopped.
Walking(frame) ==
    In(frame) /\ ~Event(Top.event).stopped /\ Top.i <= Len(Path(Event(Top.event).target))

Walked(frame) ==
    In(frame) /\ (Event(Top.event).stopped \/ Top.i > Len(Path(Event(Top.event).target)))

\* elemData.handle: discards the second event of a trigger.
Visit(e) ==
    LET ev == Top.event
        next == <<[Top EXCEPT !.i = @ + 1]>> \o Below
    IN  stack' = IF handlers[e] # <<>> /\ ~triggered
                 THEN <<DispatchFrame(ev, e, HandlerQueue(e, Event(ev).target))>> \o next
                 ELSE next

TriggerVisit ==
    /\ Walking("trigger")
    /\ Visit(Path(Event(Top.event).target)[Top.i])
    /\ UNCHANGED <<registry, saved, triggered, checked, events, calls, history>>

\* special.click._default: not inside a leveraged native event.
Default(ev) ==
    /\ ~Event(ev).prevented
    /\ Event(ev).target = "box" => saved.is \in {"undefined", "false"}

TriggerDefault ==
    /\ Walked("trigger") /\ Default(Top.event)
    /\ NativeClick(Event(Top.event).click, Event(Top.event).target)
    /\ triggered' = TRUE
    /\ stack' = <<NativeFrame(Len(events) + 1), FrameOf("default", Top.event)>> \o Below
    /\ UNCHANGED <<registry, saved, calls, heard, repeats>>

TriggerEnd ==
    /\ \/ Walked("trigger") /\ ~Default(Top.event) /\ UNCHANGED triggered
       \/ In("default") /\ triggered' = FALSE
    /\ stack' = Below
    /\ UNCHANGED <<registry, saved, checked, events, calls, history>>

-----------------------------------------------------------------------------
(* A native click.                                                         *)

NativeVisit ==
    /\ Walking("native")
    /\ Visit(Path(Event(Top.event).target)[Top.i])
    /\ UNCHANGED <<registry, saved, triggered, checked, events, calls, history>>

\* A prevented click gives the box back what it was.
NativeEnd ==
    /\ Walked("native")
    /\ checked' = IF Event(Top.event).prevented /\ Event(Top.event).target = "box"
                  THEN ~checked ELSE checked
    /\ stack' = Below
    /\ UNCHANGED <<registry, saved, triggered, events, calls, history>>

-----------------------------------------------------------------------------
(* dispatch.                                                               *)

\* The queue ends where the event is stopped: at once, or at the next element.
Ended ==
    LET ev == Event(Top.event)
    IN  \/ Top.queue = <<>> \/ ev.immediate
        \/ ev.stopped /\ Top.queue # <<>> /\ Top.elem # Head(Top.queue)[1]

Following == [Top EXCEPT !.queue = Tail(@), !.elem = Head(Top.queue)[1]]
Callee == Head(Top.queue)[2]
Calls(guids) == In("dispatch") /\ ~Ended /\ Callee.guid \in guids

\* A handler of one() takes off whatever has its guid before it runs.
CallUser ==
    /\ Calls(Fns)
    /\ LET hears == <<Event(Top.event).click, Callee.id, Callee.once>>
       IN  /\ heard' = heard \cup {hears}
           /\ repeats' = repeats \cup ({hears} \cap heard)
    /\ IF Callee.once
       THEN Remove(Top.this, {h \in Handlers(Top.this) :
                  h.guid = Callee.guid /\ (Callee.selector => h.selector)})
       ELSE UNCHANGED registry
    /\ stack' = <<FrameOf("user", Top.event), Following>> \o Below
    /\ UNCHANGED <<saved, triggered, checked, events, calls, clicks>>

Synthetic == ~Event(Top.event).native

\* The leveraging handler, and returnTrue, let the others have the event: a
\* native one nobody waits for, a synthetic one inside a leveraged native event.
Pass ==
    /\ \/ Calls({"returnTrue"})
       \/ Calls({"leverage"}) /\ (Synthetic <=> saved.is = "args")
    /\ stack' = <<Following>> \o Below
    /\ UNCHANGED <<registry, saved, triggered, checked, events, calls, history>>

\* Faulty: the synthetic event goes on to the others.
InterruptsNobody ==
    /\ Calls({"leverage"}) /\ Synthetic /\ saved.is # "args"
    /\ stack' = <<Following>> \o Below
    /\ UNCHANGED <<registry, saved, triggered, checked, events, calls, history>>

\* It interrupts the synthetic event and fires the native one.
Interrupt ==
    /\ Calls({"leverage"}) /\ Synthetic /\ saved.is # "args"
    /\ saved' = Args(Top.event)
    /\ NativeClick(Event(Top.event).click, "box")
    /\ stack' = <<NativeFrame(Len(events) + 1), FrameOf("interrupt", Top.event), Following>>
                \o Below
    /\ UNCHANGED <<registry, triggered, calls, heard, repeats>>

\* In the native event the synthetic one is triggered again, as new.
Reinvoke ==
    /\ Calls({"leverage"}) /\ ~Synthetic /\ saved.is = "args"
    /\ events' = [events EXCEPT ![saved.event].prevented = FALSE,
                                ![saved.event].stopped = FALSE,
                                ![saved.event].immediate = FALSE]
    /\ stack' = <<TriggerFrame(saved.event), FrameOf("reinvoke", Top.event), Following>> \o Below
    /\ UNCHANGED <<registry, saved, triggered, checked, calls, history>>

StopImmediately(ev, prevent) ==
    events' = [events EXCEPT ![ev].stopped = TRUE, ![ev].immediate = TRUE,
                             ![ev].prevented = @ \/ prevent]

\* Faulty: the native event goes on to the others.
ReinvokedForBoth ==
    /\ In("reinvoke")
    /\ saved' = Captured
    /\ stack' = Below
    /\ UNCHANGED <<registry, triggered, checked, events, calls, history>>

Reinvoked ==
    /\ In("reinvoke")
    /\ saved' = Captured
    /\ StopImmediately(Top.event, FALSE)
    /\ stack' = Below
    /\ UNCHANGED <<registry, triggered, checked, calls, history>>

Interrupted ==
    /\ In("interrupt")
    /\ saved' = False
    /\ IF saved # Args(Top.event) THEN StopImmediately(Top.event, TRUE) ELSE UNCHANGED events
    /\ stack' = Below
    /\ UNCHANGED <<registry, triggered, checked, calls, history>>

DispatchEnd ==
    /\ In("dispatch") /\ Ended
    /\ stack' = Below
    /\ UNCHANGED <<registry, saved, triggered, checked, events, calls, history>>

Next ==
    \/ On \/ Off \/ Trigger \/ RealClick \/ Return
    \/ TriggerVisit \/ TriggerDefault \/ TriggerEnd
    \/ NativeVisit \/ NativeEnd
    \/ CallUser \/ Pass \/ Interrupt \/ Reinvoke \/ Reinvoked \/ Interrupted \/ DispatchEnd

Spec == Init /\ [][Next]_vars

-----------------------------------------------------------------------------

\* However many events a click becomes (the synthetic one, the native one, the
\* synthetic one again), a registration hears it once; and a click that is over
\* and that no handler stopped was heard by every handler that was registered
\* when it began and still is.
Registered ==
    UNION {{handlers[e][i].id : i \in DOMAIN handlers[e]} : e \in Elements}
HeardOnce ==
    /\ repeats = {}
    /\ \A c \in DOMAIN clicks :
           c \notin Clicking /\ ~clicks[c].stopped
           => (clicks[c].due \cap Registered) \subseteq {h[2] : h \in {x \in heard : x[1] = c}}

\* A handler sees the box as the click leaves it, unless the trigger came from
\* inside a leveraged click or after an off that took the leverage away.
StateFirst ==
    In("user") /\ clicks[Event(Top.event).click].leveraged
    => clicks[Event(Top.event).click].done
=============================================================================
