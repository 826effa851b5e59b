---------------------------- MODULE Subscribers ----------------------------
(***************************************************************************)
(* What a callback list promises the code that fires it: executions one    *)
(* after the other in the order they were asked for, each heard by every   *)
(* member, in the order of the list, and by nobody twice; who joins during *)
(* an execution hears it, who leaves does not, who joins after the last    *)
(* one hears that one alone (if the list remembers).  There are no indexes.*)
(***************************************************************************)
EXTENDS Integers, Sequences

CONSTANTS NoFn, Fns, Values

VARIABLES
    members,   \* the list
    ahead,     \* who is still to hear the execution in course
    late,      \* who joined after the last execution, and is to hear it
    hearing,   \* number of the last execution, 0 when there was none
    running,   \* the callback that is hearing it, or NoFn
    emptied    \* the list was emptied during this execution

vars == <<members, ahead, late, hearing, running, emptied>>

Init ==
    /\ members = <<>> /\ ahead = <<>> /\ late = <<>>
    /\ hearing = 0 /\ running = NoFn /\ emptied = FALSE

Begins(v) ==
    /\ ahead = <<>> /\ running = NoFn
    /\ \/ v > hearing /\ ahead' = members
       \/ v = hearing /\ ahead' = late
    /\ hearing' = v
    /\ late' = <<>>
    /\ emptied' = FALSE
    /\ UNCHANGED <<members, running>>

Hears ==
    /\ ahead # <<>> /\ running = NoFn
    /\ running' = Head(ahead)
    /\ ahead' = Tail(ahead)
    /\ UNCHANGED <<members, late, hearing, emptied>>

\* A callback may stop the execution (false, or an exception).
Ends ==
    /\ running # NoFn
    /\ running' = NoFn
    /\ ahead' \in {ahead, <<>>}
    /\ UNCHANGED <<members, late, hearing, emptied>>

\* Outside an execution a member joins silently, or to hear the last one.
\* After an emptying, whether it hears this one is not promised.
Joins(fn) ==
    /\ members' = Append(members, fn)
    /\ \/ running = NoFn /\ UNCHANGED ahead
             /\ late' \in {<<>>, <<fn>>}
       \/ running # NoFn /\ ahead' = Append(ahead, fn) /\ UNCHANGED late
       \/ emptied /\ UNCHANGED <<ahead, late>>
    /\ UNCHANGED <<hearing, running, emptied>>

\* The list without fn: left[j] is what is left of the first j.
Without(list, fn) ==
    LET left[j \in 0 .. Len(list)] ==
            IF j = 0 THEN <<>>
            ELSE IF list[j] = fn THEN left[j - 1] ELSE Append(left[j - 1], list[j])
    IN  left[Len(list)]

Leaves(fn) ==
    /\ members' = Without(members, fn)
    /\ ahead' = Without(ahead, fn)
    /\ UNCHANGED <<late, hearing, running, emptied>>

\* Emptied, disabled, or spent after its only execution.
Empties ==
    /\ members' = <<>> /\ ahead' = <<>> /\ late' = <<>>
    /\ emptied' = TRUE
    /\ UNCHANGED <<hearing, running>>

Next ==
    \/ \E v \in Values : Begins(v)
    \/ Hears \/ Ends \/ Empties
    \/ \E fn \in Fns : Joins(fn) \/ Leaves(fn)

Spec == Init /\ [][Next]_vars
=============================================================================
