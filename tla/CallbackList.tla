--------------------------- MODULE CallbackList ---------------------------
(***************************************************************************)
(* One list made by jQuery.Callbacks, with any of its options, and the     *)
(* code that uses it: while nothing runs, and from inside its callbacks,   *)
(* which may call every method of the list that is calling them.           *)
(***************************************************************************)
EXTENDS Callbacks

CONSTANTS
    OptionSets,    \* the options tried
    Fns, NoFn,     \* callbacks
    MaxCalls       \* calls of the methods

ASSUME OptionsAssumption ==
    OptionSets \subseteq SUBSET {"once", "memory", "unique", "stopOnFalse"}
ASSUME CallsAssumption == MaxCalls \in Nat

VARIABLES
    self,      \* the closure of the list
    inFire,    \* fire() is on the stack
    running,   \* the callback it is calling
    calls,     \* how many methods were called
    hearing,   \* history: the value of the last execution
    emptied    \* history: the list was emptied during the execution

vars == <<self, inFire, running, calls, hearing, emptied>>

Init ==
    /\ \E options \in OptionSets : self = New(options)
    /\ inFire = FALSE /\ running = NoFn /\ calls = 0
    /\ hearing = 0 /\ emptied = FALSE

-----------------------------------------------------------------------------
(* The using code.  fire() starts when firing becomes true.                *)

UserCode == calls < MaxCalls /\ (running # NoFn \/ ~inFire)

Calls(list) ==
    /\ UserCode
    /\ self' = list
    /\ inFire' = (inFire \/ (list.firing /\ ~self.firing))
    /\ calls' = calls + 1
    /\ UNCHANGED <<running, hearing>>

AddCall == \E fn \in Fns : Calls(Add(self, <<fn>>)) /\ UNCHANGED emptied
RemoveCall == \E fn \in Fns : Calls(Remove(self, fn)) /\ UNCHANGED emptied
EmptyCall == Calls(Empty(self)) /\ emptied' = TRUE
DisableCall == Calls(Disable(self)) /\ emptied' = TRUE
LockCall == Calls(Lock(self)) /\ emptied' = (emptied \/ self.memory = NoValue)
FireCall == Calls(FireWith(self, calls + 1)) /\ UNCHANGED emptied

-----------------------------------------------------------------------------
(* fire(), between the callbacks.                                          *)

Loop == inFire /\ running = NoFn

ShiftStep ==
    /\ Loop /\ CanShift(self)
    /\ self' = Shift(self)
    /\ hearing' = Head(self.queue)
    /\ emptied' = FALSE
    /\ UNCHANGED <<inFire, running, calls>>

CallStep ==
    /\ Loop /\ CanCall(self)
    /\ self' = Call(self)
    /\ running' = Callee(self)
    /\ UNCHANGED <<inFire, calls, hearing, emptied>>

ExhaustedStep ==
    /\ Loop /\ IsExhausted(self)
    /\ self' = Exhausted(self)
    /\ UNCHANGED <<inFire, running, calls, hearing, emptied>>

DoneStep ==
    /\ Loop /\ IsDone(self)
    /\ self' = Done(self)
    /\ inFire' = FALSE
    /\ emptied' = (emptied \/ self.locked)
    /\ UNCHANGED <<running, calls, hearing>>

\* The callback returns, false or not.
Return ==
    /\ running # NoFn
    /\ self' \in {self, ReturnFalse(self)}
    /\ running' = NoFn
    /\ UNCHANGED <<inFire, calls, hearing, emptied>>

\* The callback throws: fire() is left as it stands, `firing' stays true.
Throw ==
    /\ running # NoFn
    /\ running' = NoFn
    /\ inFire' = FALSE
    /\ UNCHANGED <<self, calls, hearing, emptied>>

Next ==
    \/ AddCall \/ RemoveCall \/ EmptyCall \/ DisableCall \/ LockCall \/ FireCall
    \/ ShiftStep \/ CallStep \/ ExhaustedStep \/ DoneStep
    \/ Return \/ Throw

Spec == Init /\ [][Next]_vars

-----------------------------------------------------------------------------

\* The behind and the ahead of firingIndex.
Rest == SubSeq(self.list, self.firingIndex + 2, Len(self.list))

\* The list with its indexes keeps what Subscribers promises: nobody is skipped,
\* called twice or called out of turn, whatever the callbacks do to the list
\* that is calling them.
Promised == INSTANCE Subscribers WITH
    members <- self.list,
    ahead   <- IF inFire /\ self.within THEN Rest ELSE <<>>,
    late    <- IF inFire /\ ~self.within /\ self.queue # <<>> /\ Head(self.queue) = hearing
               THEN Rest ELSE <<>>,
    Values  <- 1..MaxCalls
ImplementsSubscribers == Promised!Spec
=============================================================================
