----------------------------- MODULE Callbacks -----------------------------
(***************************************************************************)
(* jQuery.Callbacks: the callback list on which Deferred, the effects      *)
(* queue and ajax are built, as operators on the variables of its closure. *)
(*                                                                         *)
(* list = "" (no add any more) is `spent'.  fire() is a pair of loops that *)
(* callbacks interrupt: `within' is true in the inner one.  A loop turns   *)
(* through Shift, Call (firingIndex), Exhausted and Done; who runs the     *)
(* callbacks in between is the business of the modules that use the list.  *)
(***************************************************************************)
EXTENDS Integers, Sequences, FiniteSets

CONSTANT NoValue    \* false: nothing remembered

ASSUME NoValueAssumption == NoValue \notin Nat

New(options) ==
    [options |-> options, list |-> <<>>, spent |-> FALSE, memory |-> NoValue,
     firing |-> FALSE, locked |-> FALSE, queue |-> <<>>,
     firingIndex |-> -1, within |-> FALSE]

Has(self, fn) == \E i \in DOMAIN self.list : self.list[i] = fn

-----------------------------------------------------------------------------
(* fire(): the two loops.                                                  *)

\* Entering fire(): a "once" list enforces single-firing.
Begin(self) ==
    [self EXCEPT !.locked = @ \/ "once" \in self.options, !.firing = TRUE]

CanShift(self) == ~self.within /\ self.queue # <<>>

\* The outer loop takes the next pending execution; firingIndex is kept, an
\* add that fires again has set it.
Shift(self) ==
    [self EXCEPT !.memory = Head(self.queue), !.queue = Tail(@), !.within = TRUE]

CanCall(self) == self.within /\ self.firingIndex + 1 < Len(self.list)

\* The inner loop steps to the next callback, Callee.
Call(self) == [self EXCEPT !.firingIndex = @ + 1]

Callee(self) == self.list[self.firingIndex + 2]

\* A callback returned false: jump to the end and forget the value.
ReturnFalse(self) ==
    IF "stopOnFalse" \in self.options
    THEN [self EXCEPT !.firingIndex = Len(self.list), !.memory = NoValue]
    ELSE self

IsExhausted(self) == self.within /\ self.firingIndex + 1 >= Len(self.list)

Exhausted(self) == [self EXCEPT !.firingIndex = -1, !.within = FALSE]

IsDone(self) == ~self.within /\ self.queue = <<>>

\* Faulty: a locked list is spent, whatever it remembers.
DoneSpent(self) ==
    LET remembered == IF "memory" \in self.options THEN self.memory ELSE NoValue
    IN  [self EXCEPT !.memory = remembered, !.firing = FALSE,
                     !.list = IF self.locked THEN <<>> ELSE @,
                     !.spent = @ \/ self.locked]

\* Leaving fire(): without "memory" the value is forgotten; a locked list
\* keeps no callbacks, and is spent unless a later add has a value to hear.
Done(self) ==
    LET remembered == IF "memory" \in self.options THEN self.memory ELSE NoValue
    IN  [self EXCEPT !.memory = remembered,
                     !.firing = FALSE,
                     !.list = IF self.locked THEN <<>> ELSE @,
                     !.spent = @ \/ (self.locked /\ remembered = NoValue)]

-----------------------------------------------------------------------------
(* The methods.                                                            *)

Push(self, fn) ==
    IF "unique" \in self.options /\ Has(self, fn)
    THEN self
    ELSE [self EXCEPT !.list = Append(@, fn)]

\* add takes several: pushed[j] is the list with the first j.
PushAll(self, fns) ==
    LET pushed[j \in 0 .. Len(fns)] == IF j = 0 THEN self ELSE Push(pushed[j - 1], fns[j])
    IN  pushed[Len(fns)]

\* With a value from a past run the list fires after adding, to the new ones.
Add(self, fns) ==
    LET fires == self.memory # NoValue /\ ~self.firing
        ready == IF fires
                 THEN [self EXCEPT !.firingIndex = Len(self.list) - 1,
                                   !.queue = Append(@, self.memory)]
                 ELSE self
        added == PushAll(ready, fns)
    IN  CASE self.spent -> self
          [] ~self.spent /\ fires -> Begin(added)
          [] OTHER -> added

\* The list without fn: left[j] is what is left of the first j.
Without(list, fn) ==
    LET left[j \in 0 .. Len(list)] ==
            IF j = 0 THEN <<>>
            ELSE IF list[j] = fn THEN left[j - 1] ELSE Append(left[j - 1], list[j])
    IN  left[Len(list)]

\* Faulty: firingIndex stays where it is.
RemoveOnly(self, fn) == [self EXCEPT !.list = Without(@, fn)]

\* Every occurrence goes; firingIndex steps back for each one at or before it.
Remove(self, fn) ==
    [self EXCEPT
        !.list = Without(@, fn),
        !.firingIndex = @ - Cardinality(
            {i \in DOMAIN self.list : self.list[i] = fn /\ i <= @ + 1})]

\* firingIndex stays where it is.
Empty(self) == [self EXCEPT !.list = <<>>]

Disable(self) ==
    [self EXCEPT !.locked = TRUE, !.queue = <<>>, !.list = <<>>,
                 !.spent = TRUE, !.memory = NoValue]

\* A list that has a value or is firing keeps its callbacks.
Lock(self) ==
    LET keeps == self.memory # NoValue \/ self.firing
    IN  [self EXCEPT !.locked = TRUE, !.queue = <<>>,
                     !.list = IF keeps THEN @ ELSE <<>>,
                     !.spent = @ \/ ~keeps]

FireWith(self, value) ==
    LET queued == [self EXCEPT !.queue = Append(@, value)]
    IN  CASE self.locked -> self
          [] ~self.locked /\ self.firing -> queued
          [] OTHER -> Begin(queued)
=============================================================================
