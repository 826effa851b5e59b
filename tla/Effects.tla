------------------------------ MODULE Effects ------------------------------
(***************************************************************************)
(* The effects queue of one element and the animation timers: animate,     *)
(* delay, stop, finish, clearQueue and promise, jQuery.dequeue, and the    *)
(* frames that tick the timers.                                            *)
(*                                                                         *)
(* A call is a frame of `stack', the innermost first.  The callbacks of an *)
(* animation and of a promise are user code and may call every method.  An *)
(* animation takes one or two ticks; what its tweens do is left out, and   *)
(* so are the callbacks before its end and after its complete, fx.off,     *)
(* other queues and callbacks that throw.                                  *)
(***************************************************************************)
EXTENDS Integers, Sequences, FiniteSets
Seqs == INSTANCE SequencesExt

CONSTANT MaxCalls    \* calls by the user; a call is the name of what it makes

VARIABLES
    queue,       \* the element's fx queue
    hooks,       \* its queueHooks
    timers,      \* jQuery.timers: the animations
    anims,       \* of each call: the animation it made
    timeouts,    \* of delay: those that have not fired
    finishing,   \* the element's finishing flag
    inProgress,
    requested,   \* animation frames that will call schedule
    stack,
    calls,
    promised,    \* history: the promises there are, of which the
    resolved,    \* ones here are resolved
    cleared,     \* history: the queue was cleared
    nested,      \* history: a callback called stop or finish, or a callback of
                 \* those called animate, delay or clearQueue
    forced,      \* history: a delay was cut short by finish, or by stop( .., true )
                 \* beside an animation
    hurried      \* history: the complete of an empty animation dequeued while
                 \* something was in progress

vars == <<queue, hooks, timers, anims, timeouts, finishing, inProgress, requested, stack,
          calls, promised, resolved, cleared, nested, forced, hurried>>
data == <<queue, hooks>>
clock == <<inProgress, requested>>
promises == <<promised, resolved>>
history == <<cleared, nested, forced, hurried>>

Ids == 1..MaxCalls
InProgress == [item |-> "inprogress", id |-> 0]
Animation(n) == [item |-> "animation", id |-> n]
Delay(n) == [item |-> "delay", id |-> n]

\* queueHooks: the stop function of a delay, who waits for `empty', and the
\* animations with queue: false, which hold it back.
NoHooks == [there |-> FALSE, stop |-> 0, waiting |-> {}, unqueued |-> {}]
EnsuredHooks == [hooks EXCEPT !.there = TRUE]

Init ==
    /\ queue = <<>> /\ hooks = NoHooks
    /\ timers = <<>> /\ timeouts = {}
    /\ anims = [n \in Ids |-> [state |-> "none", queued |-> FALSE, empty |-> FALSE, left |-> 0,
                               stopped |-> FALSE]]
    /\ finishing = FALSE /\ inProgress = FALSE /\ requested = 0
    /\ stack = <<>> /\ calls = 0 /\ promised = {} /\ resolved = {}
    /\ cleared = FALSE /\ nested = FALSE /\ forced = FALSE /\ hurried = FALSE

-----------------------------------------------------------------------------
(* Frames.                                                                 *)

Frame(frame) == [frame |-> frame, i |-> 0, ran |-> 0, gotoEnd |-> FALSE, dequeue |-> TRUE,
                 old |-> <<>>]
Top == Head(stack)
In(frame) == stack # <<>> /\ Top.frame = frame
Then(frames) == stack' = frames \o Tail(stack)

RemoveTimer(i) == IF i \in DOMAIN timers THEN Seqs!RemoveAt(timers, i) ELSE timers

\* An animation is settled: its elem is deleted, its callbacks are user code,
\* and after them the complete of a queued one dequeues, and one with
\* queue: false gives the hooks back.
Settle(n, outcome, left, stopped) ==
    anims' = [anims EXCEPT ![n].state = outcome, ![n].left = left, ![n].stopped = stopped]
Callbacks(n, outcome) ==
    <<Frame("user")>>
    \o (IF ~anims[n].queued THEN << [Frame("unqueued") EXCEPT !.i = n] >>
        ELSE IF outcome = "resolved" THEN << [Frame("dequeue") EXCEPT !.i = n] >> ELSE <<>>)

\* animation.stop( gotoEnd ) of one that is not settled.
StopAnimation(n, gotoEnd, rest) ==
    LET outcome == IF gotoEnd THEN "resolved" ELSE "rejected"
    IN  /\ Settle(n, outcome, anims[n].left, TRUE)
        /\ Then(Callbacks(n, outcome) \o rest)

-----------------------------------------------------------------------------
(* User code.                                                              *)

Call ==
    /\ In("user") \/ stack = <<>>
    /\ calls < MaxCalls /\ calls' = calls + 1

Stopping == \E i \in DOMAIN stack : stack[i].frame \in {"stop", "finish"}
Nests(inside) == nested' = (nested \/ inside)

New == calls + 1
Pushed(frames) == stack' = frames \o stack

\* Faulty: it dequeues although something is in progress.
EnqueueAtOnce(item) ==
    /\ queue' = Append(queue, item)
    /\ hooks' = EnsuredHooks
    /\ Pushed(<<Frame("dequeue")>>)

\* queue( "fx", item ): dequeues at once unless something is in progress.
Enqueue(item) ==
    /\ queue' = Append(queue, item)
    /\ hooks' = EnsuredHooks
    /\ Pushed(IF queue # <<>> /\ Head(queue) = InProgress THEN <<>> ELSE <<Frame("dequeue")>>)

Make(queued, empty, ticks) ==
    anims' = [anims EXCEPT ![New] = [state |-> "queued", queued |-> queued, empty |-> empty,
                                     left |-> ticks, stopped |-> FALSE]]

Animate ==
    /\ Call /\ Nests(Stopping)
    /\ \E ticks \in 1..2 : Make(TRUE, FALSE, ticks)
    /\ Enqueue(Animation(New))
    /\ UNCHANGED <<timers, timeouts, finishing, clock, promises, cleared, forced, hurried>>

\* With queue: false, or nothing to animate, it starts now, whatever is in the
\* queue.  One of the fx queue dequeues at its end all the same.
AnimateNow ==
    /\ Call /\ Nests(Stopping)
    /\ \/ \E ticks \in 1..2 : Make(FALSE, FALSE, ticks)
       \/ \E queued \in BOOLEAN : Make(queued, TRUE, 1)
    /\ Pushed(<< [Frame("start") EXCEPT !.i = New] >>)
    /\ UNCHANGED <<data, timers, timeouts, finishing, clock, promises, cleared, forced, hurried>>

DelayCall ==
    /\ Call /\ Nests(Stopping)
    /\ Enqueue(Delay(New))
    /\ UNCHANGED <<timers, anims, timeouts, finishing, clock, promises, cleared, forced, hurried>>

Clear == queue' = <<>> /\ hooks' = EnsuredHooks /\ cleared' = TRUE

ClearQueue ==
    /\ Call /\ Clear /\ Nests(Stopping)
    /\ Pushed(<<Frame("dequeue")>>)
    /\ UNCHANGED <<timers, anims, timeouts, finishing, clock, promises, forced, hurried>>

StopCall ==
    /\ Call /\ Nests(In("user"))
    /\ \E gotoEnd \in BOOLEAN :
        LET stop == <<[Frame("stop") EXCEPT !.i = -1, !.gotoEnd = gotoEnd]>>
        IN  \/ Clear /\ Pushed(<<Frame("dequeue")>> \o stop)
            \/ Pushed(stop) /\ UNCHANGED <<data, cleared>>
    /\ UNCHANGED <<timers, anims, timeouts, finishing, clock, promises, forced, hurried>>

\* Empties the queue, and stops a delay, but leaves hooks.stop.
FinishCall ==
    /\ Call /\ Nests(In("user"))
    /\ finishing' = TRUE
    /\ queue' = <<>> /\ cleared' = TRUE
    /\ timeouts' = timeouts \ {hooks.stop}
    /\ forced' = (forced \/ hooks.stop # 0)
    /\ Pushed(<< [Frame("finish") EXCEPT !.i = Len(timers), !.old = queue] >>)
    /\ UNCHANGED <<hooks, timers, anims, clock, promises, hurried>>

PromiseCall ==
    /\ Call
    /\ promised' = promised \cup {New}
    /\ IF hooks.there THEN hooks' = [hooks EXCEPT !.waiting = @ \cup {New}] /\ UNCHANGED resolved
                      ELSE resolved' = resolved \cup {New} /\ UNCHANGED hooks
    /\ UNCHANGED <<queue, timers, anims, timeouts, finishing, clock, stack, history>>

Return ==
    /\ In("user") /\ Then(<<>>)
    /\ UNCHANGED <<data, timers, anims, timeouts, finishing, clock, calls, promises, history>>

-----------------------------------------------------------------------------
(* jQuery.dequeue.                                                         *)

\* The queue without the progress sentinel.
Waiting == IF queue # <<>> /\ Head(queue) = InProgress THEN Tail(queue) ELSE queue

\* The frame of the complete of an animation names it.
Hurries ==
    hurried' = (hurried \/ (/\ Top.i # 0 /\ anims[Top.i].empty
                            /\ queue # <<>> /\ Head(queue) = InProgress))

DequeueAnimation ==
    /\ In("dequeue") /\ Waiting # <<>> /\ Head(Waiting).item = "animation"
    /\ Hurries
    /\ queue' = <<InProgress>> \o Tail(Waiting)
    /\ hooks' = [EnsuredHooks EXCEPT !.stop = 0]
    /\ Then(<< [Frame("start") EXCEPT !.i = Head(Waiting).id] >>)
    /\ UNCHANGED <<timers, anims, timeouts, finishing, clock, calls, promises, cleared, nested,
                   forced>>

DequeueDelay ==
    /\ In("dequeue") /\ Waiting # <<>> /\ Head(Waiting).item = "delay"
    /\ Hurries
    /\ queue' = <<InProgress>> \o Tail(Waiting)
    /\ hooks' = [EnsuredHooks EXCEPT !.stop = Head(Waiting).id]
    /\ timeouts' = timeouts \cup {Head(Waiting).id}
    /\ Then(<<>>)
    /\ UNCHANGED <<timers, anims, finishing, clock, calls, promises, cleared, nested, forced>>

\* hooks.empty fires: the data go, the promises are told and call back.
FireEmpty ==
    /\ hooks' = NoHooks
    /\ resolved' = resolved \cup hooks.waiting
    /\ Then(IF hooks.waiting = {} THEN <<>> ELSE <<Frame("user")>>)

\* An animation with queue: false keeps hooks.empty from firing.
DequeueEmpty ==
    /\ In("dequeue") /\ Waiting = <<>>
    /\ Hurries
    /\ queue' = <<>>
    /\ IF hooks.unqueued = {} THEN FireEmpty
       ELSE hooks' = EnsuredHooks /\ Then(<<>>) /\ UNCHANGED resolved
    /\ UNCHANGED <<timers, anims, timeouts, finishing, clock, calls, promised, cleared, nested,
                   forced>>

\* The last thing after the callbacks of such an animation.
Unqueue ==
    /\ In("unqueued")
    /\ LET others == hooks.unqueued \ {Top.i}
       IN  IF queue = <<>> /\ others = {} THEN FireEmpty
           ELSE /\ hooks' = [hooks EXCEPT !.unqueued = others]
                /\ Then(<<>>) /\ UNCHANGED resolved
    /\ UNCHANGED <<queue, timers, anims, timeouts, finishing, clock, calls, promised, history>>

-----------------------------------------------------------------------------
(* Animation( ... ) and the frames.                                        *)

\* The prefilter: one with queue: false takes hold of the hooks.  fx.timer: the
\* first one starts the frames and ticks at once.
Start ==
    /\ In("start")
    /\ hooks' = IF anims[Top.i].queued THEN hooks
                ELSE [EnsuredHooks EXCEPT !.unqueued = @ \cup {Top.i}]
    /\ anims' = [anims EXCEPT ![Top.i].state = "pending"]
    /\ timers' = Append(timers, Top.i)
    /\ inProgress' = TRUE
    /\ requested' = IF inProgress THEN requested ELSE requested + 1
    /\ Then((IF inProgress THEN <<>> ELSE << [Frame("tick") EXCEPT !.i = 1] >>)
            \o << [Frame("started") EXCEPT !.i = Top.i] >>)
    /\ UNCHANGED <<queue, timeouts, finishing, calls, promises, history>>

\* doAnimation: an empty one, or while finishing, goes to its end.
Started ==
    /\ In("started")
    /\ IF (anims[Top.i].empty \/ finishing) /\ anims[Top.i].state = "pending"
       THEN StopAnimation(Top.i, TRUE, <<>>)
       ELSE Then(<<>>) /\ UNCHANGED anims
    /\ UNCHANGED <<data, timers, timeouts, finishing, clock, calls, promises, history>>

\* schedule, from an animation frame.
Schedule ==
    /\ stack = <<>> /\ requested > 0
    /\ requested' = IF inProgress THEN requested ELSE requested - 1
    /\ stack' = IF inProgress THEN << [Frame("tick") EXCEPT !.i = 1] >> ELSE <<>>
    /\ UNCHANGED <<data, timers, anims, timeouts, finishing, inProgress, calls, promises, history>>

Ticking == In("tick") /\ Top.ran = 0 /\ Top.i \in DOMAIN timers

\* A timer runs: there is more to do, it resolves, or it had ended before.
TickOn ==
    /\ Ticking
    /\ LET n == timers[Top.i]
       IN  /\ ~anims[n].stopped /\ anims[n].left > 1
           /\ anims' = [anims EXCEPT ![n].left = @ - 1]
    /\ Then(<< [Top EXCEPT !.i = @ + 1] >>)
    /\ UNCHANGED <<data, timers, timeouts, finishing, clock, calls, promises, history>>

TickResolve ==
    /\ Ticking
    /\ LET n == timers[Top.i]
       IN  /\ anims[n].state = "pending" /\ anims[n].left = 1
           /\ Settle(n, "resolved", 0, FALSE)
           /\ Then(Callbacks(n, "resolved") \o << [Top EXCEPT !.ran = n] >>)
    /\ UNCHANGED <<data, timers, timeouts, finishing, clock, calls, promises, history>>

TickEnded ==
    /\ Ticking
    /\ anims[timers[Top.i]].state # "pending"
    /\ Then(<< [Top EXCEPT !.ran = timers[Top.i]] >>)
    /\ UNCHANGED <<data, timers, anims, timeouts, finishing, clock, calls, promises, history>>

\* It is removed if it is still where it was.
TickRemove ==
    /\ In("tick") /\ Top.ran # 0
    /\ IF Top.i \in DOMAIN timers /\ timers[Top.i] = Top.ran
       THEN timers' = RemoveTimer(Top.i) /\ Then(<< [Top EXCEPT !.ran = 0] >>)
       ELSE Then(<< [Top EXCEPT !.ran = 0, !.i = @ + 1] >>) /\ UNCHANGED timers
    /\ UNCHANGED <<data, anims, timeouts, finishing, clock, calls, promises, history>>

TickEnd ==
    /\ In("tick") /\ Top.ran = 0 /\ Top.i \notin DOMAIN timers
    /\ inProgress' = (timers # <<>>)
    /\ Then(<<>>)
    /\ UNCHANGED <<data, timers, anims, timeouts, finishing, requested, calls, promises, history>>

\* A delay is over.
Timeout ==
    /\ stack = <<>>
    /\ \E n \in timeouts : timeouts' = timeouts \ {n}
    /\ stack' = <<Frame("dequeue")>>
    /\ UNCHANGED <<data, timers, anims, finishing, clock, calls, promises, history>>

-----------------------------------------------------------------------------
(* stop and finish.                                                        *)

StopHooks ==
    /\ In("stop") /\ Top.i = -1
    /\ timeouts' = timeouts \ {hooks.stop}
    /\ hooks' = [hooks EXCEPT !.stop = 0]
    /\ forced' = (forced \/ (Top.gotoEnd /\ hooks.stop # 0
                             /\ \E i \in DOMAIN timers : anims[timers[i]].state = "pending"))
    /\ Then(<< [Top EXCEPT !.i = Len(timers)] >>)
    /\ UNCHANGED <<queue, timers, anims, finishing, clock, calls, promises, cleared, nested, hurried>>

\* The timer at Top.i is one to stop: it is of the element until it settles.
Matches(frame) ==
    /\ In(frame) /\ Top.ran = 0 /\ Top.i \in DOMAIN timers
    /\ anims[timers[Top.i]].state = "pending"
    /\ frame = "finish" => anims[timers[Top.i]].queued

StopTimer ==
    /\ \/ Matches("stop") /\ StopAnimation(timers[Top.i], Top.gotoEnd,
                                 << [Top EXCEPT !.ran = 1, !.dequeue = FALSE] >>)
       \/ Matches("finish") /\ StopAnimation(timers[Top.i], TRUE, << [Top EXCEPT !.ran = 1] >>)
    /\ UNCHANGED <<data, timers, timeouts, finishing, clock, calls, promises, history>>

StopSplice ==
    /\ (In("stop") \/ In("finish")) /\ Top.ran = 1
    /\ timers' = RemoveTimer(Top.i)
    /\ Then(<< [Top EXCEPT !.ran = 0, !.i = @ - 1] >>)
    /\ UNCHANGED <<data, anims, timeouts, finishing, clock, calls, promises, history>>

StopSkip ==
    /\ In("stop") \/ In("finish")
    /\ Top.ran = 0 /\ Top.i \in DOMAIN timers
    /\ ~Matches(Top.frame)
    /\ Then(<< [Top EXCEPT !.i = @ - 1] >>)
    /\ UNCHANGED <<data, timers, anims, timeouts, finishing, clock, calls, promises, history>>

\* Callbacks removed more timers: timers[ index ] is undefined, and the
\* TypeError leaves every call.
StopThrows ==
    /\ In("stop") \/ In("finish")
    /\ Top.ran = 0 /\ Top.i > Len(timers)
    /\ stack' = <<>>
    /\ UNCHANGED <<data, timers, anims, timeouts, finishing, clock, calls, promises, history>>

\* Faulty: what comes next in the queue is not started.
StopsForGood ==
    /\ In("stop") /\ Top.ran = 0 /\ Top.i = 0
    /\ Then(<<>>)
    /\ UNCHANGED <<data, timers, anims, timeouts, finishing, clock, calls, promises, history>>

StopEnd ==
    /\ In("stop") /\ Top.ran = 0 /\ Top.i = 0
    /\ Then(IF Top.dequeue \/ ~Top.gotoEnd THEN <<Frame("dequeue")>> ELSE <<>>)
    /\ UNCHANGED <<data, timers, anims, timeouts, finishing, clock, calls, promises, history>>

\* The animations of the old queue run to their end; delays have no finish.
FinishQueued ==
    /\ In("finish") /\ Top.ran = 0 /\ Top.i = 0 /\ Top.old # <<>>
    /\ LET item == Head(Top.old)
           rest == << [Top EXCEPT !.old = Tail(@)] >>
       IN  Then(IF item.item = "animation"
                THEN << [Frame("start") EXCEPT !.i = item.id] >> \o rest ELSE rest)
    /\ UNCHANGED <<data, timers, anims, timeouts, finishing, clock, calls, promises, history>>

FinishEnd ==
    /\ In("finish") /\ Top.ran = 0 /\ Top.i = 0 /\ Top.old = <<>>
    /\ finishing' = FALSE
    /\ Then(<<>>)
    /\ UNCHANGED <<data, timers, anims, timeouts, clock, calls, promises, history>>

-----------------------------------------------------------------------------

Methods ==
    \/ Animate \/ AnimateNow \/ DelayCall \/ ClearQueue
    \/ StopCall \/ FinishCall \/ PromiseCall

Running ==
    \/ Return
    \/ DequeueAnimation \/ DequeueDelay \/ DequeueEmpty \/ Unqueue
    \/ Start \/ Started
    \/ TickOn \/ TickResolve \/ TickEnded \/ TickRemove \/ TickEnd
    \/ StopHooks \/ StopTimer \/ StopSplice \/ StopSkip \/ StopThrows \/ StopEnd
    \/ FinishQueued \/ FinishEnd

Next == Methods \/ Running \/ Schedule \/ Timeout

\* Calls return, frames come, timeouts fire.
Fairness == WF_vars(Running) /\ WF_vars(Schedule) /\ WF_vars(Timeout)

Spec == Init /\ [][Next]_vars /\ Fairness

-----------------------------------------------------------------------------

Pending(n) == anims[n].state = "pending"

\* Unless the queue was cleared, what is in it runs one after the other.  There
\* is one exception: an animation of nothing does not wait in the queue, and its
\* complete dequeues what comes next beside what is in progress.
OneAtATime ==
    cleared \/ nested \/ hurried
    \/ Cardinality({n \in Ids : Pending(n) /\ anims[n].queued /\ ~anims[n].empty})
       + Cardinality(timeouts) <= 1

\* Every promise() is resolved, and so the queue empties, whatever is stopped,
\* finished, cleared and put into the queue meanwhile.
EveryPromiseResolved == []<>(promised \subseteq resolved \/ nested \/ forced)

\* As the comment on promise() has it: resolved when the queue is emptied.
ResolvedWhenEmptied ==
    \A n \in Ids : (n \in promised /\ queue = <<>>) ~> (n \in resolved)
=============================================================================
