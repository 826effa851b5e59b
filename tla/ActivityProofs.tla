----------------------------- MODULE ActivityProofs ---------------------------
(***************************************************************************)
(* Theorems about what goes on in a page, for any number of functions,     *)
(* holds, messages, calls and requests, in three parts.                    *)
(*                                                                         *)
(* No function of the page runs twice, before the document is parsed or    *)
(* while somebody holds the ready event back.                              *)
(*                                                                         *)
(* The animations and delays in the queue of an element run one after the  *)
(* other.  This rests on counting what makes the queue go on: an animation *)
(* that moves, a delay, and a call that will begin with what is next.      *)
(* There is one of the three at most, and the queue holds the sentinel     *)
(* meanwhile; a stop hands the turn on only when all it found is stopped.  *)
(* What is not queued, and what a call hurries, takes no turn.             *)
(*                                                                         *)
(* Each request is told its outcome once, jQuery.active counts those that  *)
(* wait, and what a jsonp request succeeds with is the answer to it, or to *)
(* one that had its name before if its own script did not call.  What the  *)
(* three rest on is what the call still has to do: a "complete" or a       *)
(* "release" that is pending is the only one of its request, and a request *)
(* that has begun has a job that sends or ends it.                         *)
(***************************************************************************)
EXTENDS MCActivity, FiniteSetTheorems, SequenceTheorems, TLAPS


-----------------------------------------------------------------------------
(* The page becomes ready.                                                 *)

\* What the counter counts: the holds, and the document until it is ready.
Types ==
    /\ readyWait \in Int /\ holds \in Nat /\ timers \in Nat
    /\ isReady \in BOOLEAN /\ resolved \in BOOLEAN
    /\ ran \in Seq(Fns)

HoldCount == readyWait = holds + (IF isReady THEN 0 ELSE 1)

\* Nothing calls jQuery.ready() while the document is loading.
ParsedFirst == isReady \/ timers > 0 => document # "loading"

\* A function is added, scheduled and run, in this order.
Stages ==
    /\ scheduled \subseteq added
    /\ scheduled # {} \/ ran # <<>> => resolved
    /\ \A i \in DOMAIN ran : ran[i] \in added \ scheduled

ReadyInv == Types /\ HoldCount /\ ParsedFirst /\ Stages /\ ReadyOnce

LEMMA InitReady == Init => ReadyInv
  <1> SUFFICES ASSUME Init PROVE ReadyInv
    OBVIOUS
  <1>1. ran = <<>> /\ ran \in Seq(Fns) /\ DOMAIN ran = {}
    BY EmptySeq DEF Init
  <1>2. timers \in Nat /\ (timers > 0 => document # "loading")
    BY DEF Init
  <1>3. /\ readyWait = 1 /\ holds = 0 /\ isReady = FALSE /\ resolved = FALSE
        /\ early = FALSE /\ added = {} /\ scheduled = {}
    BY DEF Init
  <1>6. Types
    <2>1. readyWait \in Int /\ holds \in Nat
      BY <1>3
    <2>2. isReady \in BOOLEAN /\ resolved \in BOOLEAN
      BY <1>3, Zenon
    <2> QED BY <2>1, <2>2, <1>1, <1>2 DEF Types
  <1>4. HoldCount /\ ParsedFirst
    BY <1>2, <1>3 DEF HoldCount, ParsedFirst
  <1>5. Stages /\ ReadyOnce
    BY <1>1, <1>3 DEF Stages, ReadyOnce
  <1> QED BY <1>4, <1>5, <1>6 DEF ReadyInv

-----------------------------------------------------------------------------
(* The ways in which readyList comes to be resolved.                       *)

\* Resolving readyList is never too early once the document is ready and
\* nobody holds it.  The functions added so far become scheduled, and no
\* function has run before.
LEMMA ResolveKeeps ==
  ASSUME ReadyInv, ResolveReadyList, document # "loading", holds' = 0,
         UNCHANGED <<added, ran>>
  PROVE  Stages' /\ ReadyOnce' /\ resolved' \in BOOLEAN
  <1> USE DEF ReadyInv, ResolveReadyList
  <1>1. resolved' = TRUE /\ ~early'
    BY DEF ReadyOnce
  <1>2. CASE resolved
    <2>1. scheduled' = scheduled
      BY <1>2
    <2> QED BY <2>1, <1>1 DEF Stages, ReadyOnce
  <1>3. CASE ~resolved
    <2>1. scheduled' = added /\ ran = <<>> /\ DOMAIN ran = {}
      BY <1>3, EmptySeq DEF Stages
    <2> QED BY <2>1, <1>1 DEF Stages, ReadyOnce
  <1> QED BY <1>2, <1>3, <1>1 DEF Types

\* jQuery.ready(): the document's own share of the counter goes, once.
LEMMA DomReadyKeeps ==
  ASSUME ReadyInv, DomReady, document # "loading", timers' \in Nat,
         UNCHANGED <<document, holds, added, ran>>
  PROVE  ReadyInv'
  <1> USE DEF ReadyInv
  <1>1. CASE isReady
    <2>1. UNCHANGED <<readyWait, isReady, resolved, scheduled, early>>
      BY <1>1 DEF DomReady
    <2>2. Types' /\ HoldCount' /\ ParsedFirst'
      BY <2>1 DEF Types, HoldCount, ParsedFirst
    <2>3. Stages' /\ ReadyOnce'
      BY <2>1 DEF Stages, ReadyOnce
    <2> QED BY <2>2, <2>3
  <1>2. CASE ~isReady
    <2>1. isReady' = TRUE /\ readyWait' = readyWait - 1 /\ readyWait' = holds
      BY <1>2 DEF DomReady, HoldCount, Types
    <2>2. HoldCount' /\ ParsedFirst'
      BY <2>1, <1>2 DEF HoldCount, ParsedFirst, Types
    <2>3. Stages' /\ ReadyOnce' /\ resolved' \in BOOLEAN
      <3>1. CASE readyWait' > 0
        <4>1. UNCHANGED <<resolved, scheduled, early>>
          BY <1>2, <3>1 DEF DomReady
        <4> QED BY <4>1 DEF Stages, ReadyOnce, Types
      <3>2. CASE ~(readyWait' > 0)
        <4>1. ResolveReadyList
          BY <1>2, <3>2 DEF DomReady
        <4>2. holds' = 0
          BY <2>1, <3>2 DEF Types
        <4> QED BY <4>1, <4>2, ResolveKeeps
      <3> QED BY <3>1, <3>2
    <2>4. Types'
      BY <2>1, <2>3 DEF Types
    <2> QED BY <2>2, <2>3, <2>4
  <1> QED BY <1>1, <1>2

\* holdReady( false ): the counter comes to zero only when the document is
\* ready and the last hold is released.
LEMMA ReleaseKeeps == ReadyInv /\ ReleaseReady => ReadyInv'
  <1> SUFFICES ASSUME ReadyInv, ReleaseReady PROVE ReadyInv'
    OBVIOUS
  <1> USE DEF ReadyInv
  <1>1. /\ holds > 0 /\ holds' = holds - 1 /\ readyWait' = readyWait - 1
        /\ UNCHANGED <<document, timers, added, ran>>
    BY DEF ReleaseReady, Release
  <1>2. holds' \in Nat /\ readyWait' \in Int
    BY <1>1 DEF Types
  <1>3. CASE readyWait' # 0
    <2>1. UNCHANGED <<isReady, resolved, scheduled, early>>
      BY <1>3 DEF ReleaseReady, Release
    <2>2. Types' /\ HoldCount' /\ ParsedFirst'
      BY <1>1, <1>2, <2>1 DEF Types, HoldCount, ParsedFirst
    <2>3. Stages' /\ ReadyOnce'
      BY <1>1, <2>1 DEF Stages, ReadyOnce
    <2> QED BY <2>2, <2>3
  <1>4. CASE readyWait' = 0
    <2>1. isReady /\ holds' = 0
      BY <1>1, <1>4 DEF HoldCount, Types
    <2>2. isReady' = TRUE /\ ResolveReadyList
      BY <1>4 DEF ReleaseReady, Release
    <2>3. document # "loading"
      BY <2>1 DEF ParsedFirst
    <2>4. Stages' /\ ReadyOnce' /\ resolved' \in BOOLEAN
      BY <1>1, <2>1, <2>2, <2>3, ResolveKeeps
    <2>5. Types' /\ HoldCount' /\ ParsedFirst'
      BY <1>1, <1>2, <1>4, <2>1, <2>2, <2>3, <2>4 DEF Types, HoldCount, ParsedFirst
    <2> QED BY <2>4, <2>5
  <1> QED BY <1>3, <1>4

-----------------------------------------------------------------------------
(* The functions.                                                          *)

\* jQuery( fn ): a new function is scheduled at once if readyList is resolved.
LEMMA ReadyKeeps ==
  ASSUME ReadyInv, NEW fn \in Fns, Ready(fn)
  PROVE  ReadyInv'
  <1> USE DEF ReadyInv
  <1>1. /\ fn \notin added /\ added' = added \union {fn}
        /\ scheduled' = IF resolved THEN scheduled \union {fn} ELSE scheduled
        /\ UNCHANGED <<document, timers, readyWait, isReady, resolved, holds, early, ran>>
    BY DEF Ready
  <1>2. Types' /\ HoldCount' /\ ParsedFirst'
    BY <1>1 DEF Types, HoldCount, ParsedFirst
  <1>3. ReadyOnce'
    BY <1>1 DEF ReadyOnce
  <1>4. Stages'
    BY <1>1 DEF Stages
  <1> QED BY <1>2, <1>3, <1>4

\* A function that runs leaves the scheduled ones, among which it was once.
LEMMA RunKeeps ==
  ASSUME ReadyInv, NEW fn \in Fns, Run(fn)
  PROVE  ReadyInv'
  <1> USE DEF ReadyInv
  <1>1. /\ fn \in scheduled /\ scheduled' = scheduled \ {fn}
        /\ ran' = Append(ran, fn)
        /\ UNCHANGED <<document, timers, readyWait, isReady, resolved, added, holds, early>>
    BY DEF Run
  <1>2. /\ ran' \in Seq(Fns) /\ Len(ran) \in Nat
        /\ DOMAIN ran = 1 .. Len(ran) /\ DOMAIN ran' = 1 .. Len(ran) + 1
        /\ \A i \in 1 .. Len(ran) : ran'[i] = ran[i]
        /\ ran'[Len(ran) + 1] = fn
    BY <1>1, AppendProperties, LenProperties DEF Types
  <1>3. Types' /\ HoldCount' /\ ParsedFirst'
    BY <1>1, <1>2 DEF Types, HoldCount, ParsedFirst
  <1>4. resolved'
    BY <1>1 DEF Stages
  <1>5. \A i \in 1 .. Len(ran) : ran[i] \in added \ scheduled
    BY <1>2 DEF Stages
  <1>6. Stages'
    <2>1. ASSUME NEW i \in 1 .. Len(ran) + 1 PROVE ran'[i] \in added' \ scheduled'
      <3>1. CASE i \in 1 .. Len(ran)
        BY <3>1, <1>1, <1>2, <1>5
      <3>2. CASE i = Len(ran) + 1
        BY <3>2, <1>1, <1>2 DEF Stages
      <3> QED BY <3>1, <3>2, <1>2
    <2> QED BY <2>1, <1>1, <1>2, <1>4 DEF Stages
  <1>7. ReadyOnce'
    <2>1. ASSUME NEW i \in 1 .. Len(ran) + 1, NEW j \in 1 .. Len(ran) + 1, ran'[i] = ran'[j]
          PROVE  i = j
      <3>1. CASE i \in 1 .. Len(ran) /\ j \in 1 .. Len(ran)
        BY <3>1, <2>1, <1>2 DEF ReadyOnce
      <3>2. CASE i = Len(ran) + 1 /\ j \in 1 .. Len(ran)
        BY <3>2, <2>1, <1>1, <1>2, <1>5
      <3>3. CASE i \in 1 .. Len(ran) /\ j = Len(ran) + 1
        BY <3>3, <2>1, <1>1, <1>2, <1>5
      <3> QED BY <3>1, <3>2, <3>3, <1>2
    <2> QED BY <2>1, <1>1, <1>2, <1>4 DEF ReadyOnce
  <1> QED BY <1>3, <1>6, <1>7

-----------------------------------------------------------------------------

\* The steps that touch none of it.
LEMMA ElsewhereKeeps ==
  ASSUME ReadyInv, UNCHANGED <<readiness, ran>>, document' = "loading" => document = "loading"
  PROVE  ReadyInv'
  <1> USE DEF ReadyInv, readiness
  <1>1. Types' /\ HoldCount' /\ ParsedFirst'
    BY DEF Types, HoldCount, ParsedFirst
  <1>2. Stages' /\ ReadyOnce'
    BY DEF Stages, ReadyOnce
  <1> QED BY <1>1, <1>2

LEMMA NextReady == ReadyInv /\ [Next]_vars => ReadyInv'
  <1> SUFFICES ASSUME ReadyInv, [Next]_vars PROVE ReadyInv'
    OBVIOUS
  <1>1. CASE HoldReady
    <2>1. /\ holds' = holds + 1 /\ readyWait' = readyWait + 1
          /\ UNCHANGED <<document, timers, isReady, resolved, added, scheduled, early, ran>>
      BY <1>1 DEF HoldReady
    <2>2. Types' /\ HoldCount' /\ ParsedFirst'
      BY <2>1 DEF ReadyInv, Types, HoldCount, ParsedFirst
    <2>3. Stages' /\ ReadyOnce'
      BY <2>1 DEF ReadyInv, Stages, ReadyOnce
    <2> QED BY <2>2, <2>3 DEF ReadyInv
  <1>2. CASE ReleaseReady
    BY <1>2, ReleaseKeeps
  <1>3. CASE \E fn \in Fns : Ready(fn)
    BY <1>3, ReadyKeeps
  <1>4. CASE \E fn \in Fns : Run(fn)
    BY <1>4, RunKeeps
  <1>5. ASSUME NEW event \in {"DOMContentLoaded", "load"}, Fire(event)
        PROVE  ReadyInv'
    <2>1. document # "loading" /\ UNCHANGED <<document, timers, added, ran>>
      BY <1>5 DEF Fire
    <2>2. CASE event \in listening
      <3>1. DomReady /\ holds' = holds
        BY <1>5, <2>2 DEF Fire
      <3> QED BY <3>1, <2>1, DomReadyKeeps DEF ReadyInv, Types
    <2>3. CASE event \notin listening
      <3>1. UNCHANGED <<readyWait, isReady, resolved, scheduled, holds, early>>
        BY <1>5, <2>3 DEF Fire
      <3>2. Types' /\ HoldCount' /\ ParsedFirst'
        BY <2>1, <3>1 DEF ReadyInv, Types, HoldCount, ParsedFirst
      <3>3. Stages' /\ ReadyOnce'
        BY <2>1, <3>1 DEF ReadyInv, Stages, ReadyOnce
      <3> QED BY <3>2, <3>3 DEF ReadyInv
    <2> QED BY <2>2, <2>3
  <1>6. CASE ReadyTimer
    <2>1. /\ timers > 0 /\ timers' = timers - 1 /\ DomReady
          /\ UNCHANGED <<document, holds, added, ran>>
      BY <1>6 DEF ReadyTimer
    <2>2. document # "loading" /\ timers' \in Nat
      BY <2>1 DEF ReadyInv, ParsedFirst, Types
    <2> QED BY <2>1, <2>2, DomReadyKeeps
  <1>7. CASE Parsed \/ Loaded
    BY <1>7, ElsewhereKeeps DEF Parsed, Loaded
  <1>8. CASE OnOpen \/ OnMessage \/ OnClose \/ Click
    BY <1>8, ElsewhereKeeps DEF OnOpen, OnMessage, OnClose, Click
  <1>9. CASE UNCHANGED vars
    BY <1>9, ElsewhereKeeps DEF vars
  <1> QED BY <1>1, <1>2, <1>3, <1>4, <1>5, <1>6, <1>7, <1>8, <1>9 DEF Next, Browser

\* No function runs twice, before the document is parsed, or while somebody
\* holds the ready event back, however many functions and holds there are.
THEOREM ReadyOnceHolds == Spec => []ReadyOnce
  <1>1. Init => ReadyInv
    BY InitReady
  <1>2. ReadyInv /\ [Next]_vars => ReadyInv'
    BY NextReady
  <1>3. ReadyInv => ReadyOnce
    BY DEF ReadyInv
  <1> QED BY <1>1, <1>2, <1>3, PTL DEF Spec

\* The counter behind it: jQuery.readyWait is what holdReady left to release
\* and the document itself, and nothing calls jQuery.ready() while the document
\* is loading.
THEOREM ReadyInvariance == Spec => []ReadyInv
  <1>1. Init => ReadyInv
    BY InitReady
  <1>2. ReadyInv /\ [Next]_vars => ReadyInv'
    BY NextReady
  <1> QED BY <1>1, <1>2, PTL DEF Spec

-----------------------------------------------------------------------------
(* The effects queue.                                                      *)

FrameNames == {"user", "dequeue", "unqueued", "start", "started", "tick", "stop"}
Frames == [frame : FrameNames, i : Int, ran : Nat, gotoEnd : BOOLEAN, dequeue : BOOLEAN,
           old : {<<>>}]
Items == {Fx!InProgress} \cup [item : {"animation", "delay"}, id : Fx!Ids]
States == {"none", "queued", "pending", "resolved", "rejected"}
Anims == [state : States, queued : BOOLEAN, empty : BOOLEAN, left : Nat, stopped : BOOLEAN]
HookSet == [there : BOOLEAN, stop : Nat, waiting : SUBSET Fx!Ids, unqueued : SUBSET Fx!Ids]

\* The calls from the outermost to the innermost.
Up(s, d) == s[Len(s) + 1 - d]
Depths == 1 .. Len(stack)

\* What makes the queue go on: an animation that runs, a delay, and a call that
\* begins with what is next.  The dequeue of an animation of nothing is none of them.
Turns(n) == anims[n].queued /\ ~anims[n].empty
Moving == {n \in Fx!Ids : anims[n].state = "pending" /\ Turns(n)}
Opens(f) == \/ f.frame = "dequeue" /\ (f.i = 0 \/ Turns(f.i))
            \/ f.frame = "start" /\ Turns(f.i)
Opening == {d \in Depths : Opens(Up(stack, d))}
Begins(f) == f.frame \in {"dequeue", "start", "started"}
Beginning == {d \in Depths : Begins(Up(stack, d))}
Held == queue # <<>> /\ Head(queue) = Fx!InProgress
Settled(n) == n \in Fx!Ids /\ anims[n].state \in {"resolved", "rejected"}
InQueue(n) == \E k \in 1 .. Len(queue) : queue[k] = Fx!Animation(n)

FxTypes ==
    /\ queue \in Seq(Items)
    /\ hooks \in HookSet
    /\ animations \in Seq(Fx!Ids) /\ timeouts \subseteq Fx!Ids
    /\ anims \in [Fx!Ids -> Anims]
    /\ stack \in Seq(Frames) /\ calls \in 0 .. MaxCalls
    /\ finishing = FALSE
    /\ \A n \in Fx!Ids : n > calls => anims[n].state = "none"

\* There is one of them at most.
Single ==
    /\ \A m, n \in Moving : m = n
    /\ \A m, n \in timeouts : m = n
    /\ \A d, e \in Opening : d = e
    /\ Moving = {} \/ timeouts = {}
    /\ Moving = {} \/ Opening = {}
    /\ timeouts = {} \/ Opening = {}

\* The queue knows, but for a dequeue that is the innermost call.
HeldInv ==
    ~Held => /\ Moving = {} /\ timeouts = {}
             /\ \A d \in Opening : d = Len(stack) /\ Up(stack, d).frame = "dequeue"

QueueInv ==
    /\ timeouts \subseteq {hooks.stop}
    /\ \A n \in Fx!Ids : InQueue(n) => anims[n].state = "queued"
    /\ \A j, k \in 1 .. Len(queue) : queue[j] = queue[k] /\ queue[j].item = "animation" => j = k

TimersInv ==
    /\ animations # <<>> => inProgress
    /\ \A n \in Moving : \E j \in 1 .. Len(animations) : animations[j] = n
    /\ \A j \in 1 .. Len(animations) : anims[animations[j]].state \notin {"none", "queued"}

FrameOK(f, d) ==
    /\ f.frame = "start" => d = Len(stack) /\ f.i \in Fx!Ids
                            /\ anims[f.i].state = "queued" /\ ~InQueue(f.i)
    /\ f.frame = "started" => f.i \in Fx!Ids
    /\ f.frame = "dequeue" => f.i = 0 \/ (Settled(f.i) /\ anims[f.i].queued)
    /\ f.frame = "stop" => d = 1
    /\ f.frame = "tick" => /\ f.ran # 0 => Settled(f.ran)
                           /\ Up(stack, 1).frame # "stop"
FramesInv == \A d \in Depths : FrameOK(Up(stack, d), d)

\* A stop that will dequeue finds nothing else that makes the queue go on but
\* the animations it is still to stop.
Stops == stack # <<>> /\ Up(stack, 1).frame = "stop"
StopOK(f) ==
    /\ f.i >= -1
    /\ f.i = -1 => f.ran = 0 /\ f.dequeue
    /\ f.ran = 0 => Len(stack) = 1
    /\ f.ran # 0 => f.i \in 1 .. Len(animations) /\ Settled(animations[f.i])
    /\ f.i # -1 /\ (~f.gotoEnd \/ f.dequeue)
       => /\ timeouts = {} /\ Beginning = {}
          /\ \A n \in Moving : \E j \in 1 .. Len(animations) :
                animations[j] = n /\ j <= f.i /\ (f.ran # 0 => j # f.i)
StopInv == Stops => StopOK(Up(stack, 1))

InTurnInv == FxTypes /\ Single /\ HeldInv /\ QueueInv /\ TimersInv /\ FramesInv /\ StopInv
EffectsInv == cleared \/ nested \/ hurried \/ InTurnInv

-----------------------------------------------------------------------------
(* The stack.                                                              *)

\* The innermost call is the head of the stack, and the one at the depth of the stack.
LEMMA TopUp ==
    ASSUME FxTypes
    PROVE  /\ Len(stack) \in Nat
           /\ stack = <<>> <=> Len(stack) = 0
           /\ stack # <<>> => /\ Head(stack) = Up(stack, Len(stack)) /\ Head(stack) \in Frames
                              /\ Len(stack) \in Depths
                              /\ Tail(stack) \in Seq(Frames) /\ Len(Tail(stack)) = Len(stack) - 1
                              /\ \A d \in 1 .. Len(stack) - 1 : Up(Tail(stack), d) = Up(stack, d)
           /\ \A d \in Depths : Up(stack, d) \in Frames
<1>1. stack \in Seq(Frames) /\ Len(stack) \in Nat
  BY LenProperties DEF FxTypes
<1>2. stack = <<>> <=> Len(stack) = 0
  BY <1>1, EmptySeq
<1>3. ASSUME stack # <<>>
      PROVE  /\ Head(stack) = stack[1] /\ Tail(stack) \in Seq(Frames)
             /\ Len(Tail(stack)) = Len(stack) - 1
             /\ \A i \in 1 .. Len(stack) - 1 : Tail(stack)[i] = stack[i + 1]
  BY <1>1, <1>3, HeadTailProperties
<1>4. ASSUME stack # <<>>, NEW d \in 1 .. Len(stack) - 1 PROVE Up(Tail(stack), d) = Up(stack, d)
  <2>1. Len(stack) - d \in 1 .. Len(stack) - 1 /\ Len(stack) - d + 1 = Len(stack) + 1 - d
    BY <1>1, <1>2
  <2>2. Len(Tail(stack)) + 1 - d = Len(stack) - d
    BY <1>1, <1>3, <1>4
  <2> QED BY <1>3, <1>4, <2>1, <2>2 DEF Up
<1>5. ASSUME NEW d \in Depths PROVE Up(stack, d) \in Frames
  <2>1. Len(stack) + 1 - d \in 1 .. Len(stack)
    BY <1>1 DEF Depths
  <2> QED BY <1>1, <2>1, ElementOfSeq DEF Up
<1>6. ASSUME stack # <<>> PROVE Head(stack) = Up(stack, Len(stack)) /\ Len(stack) \in Depths
  <2>1. Len(stack) + 1 - Len(stack) = 1 /\ Len(stack) \in 1 .. Len(stack)
    BY <1>1, <1>2, <1>6
  <2> QED BY <1>3, <1>6, <2>1 DEF Up, Depths
<1> QED BY <1>1, <1>2, <1>3, <1>4, <1>5, <1>6

\* The outermost b calls stay, and `more' is inside of them.
Grows(more, b) ==
    /\ b \in 0 .. Len(stack) /\ Len(more) \in Nat
    /\ stack' \in Seq(Frames) /\ Len(stack') = b + Len(more)
    /\ \A d \in 1 .. b : Up(stack', d) = Up(stack, d)
    /\ \A d \in b + 1 .. b + Len(more) : Up(stack', d) = more[b + Len(more) + 1 - d]

\* Calls put in front of others leave the depths of these as they are.
LEMMA UpConcat ==
    ASSUME NEW rest \in Seq(Frames), NEW more \in Seq(Frames)
    PROVE  /\ more \o rest \in Seq(Frames) /\ Len(more \o rest) = Len(rest) + Len(more)
           /\ Len(more) \in Nat /\ Len(rest) \in Nat
           /\ \A d \in 1 .. Len(rest) : Up(more \o rest, d) = Up(rest, d)
           /\ \A d \in Len(rest) + 1 .. Len(rest) + Len(more) :
                 Up(more \o rest, d) = more[Len(rest) + Len(more) + 1 - d]
<1> DEFINE new == more \o rest
<1>1. /\ new \in Seq(Frames) /\ Len(new) = Len(more) + Len(rest)
      /\ Len(more) \in Nat /\ Len(rest) \in Nat
      /\ \A i \in 1 .. Len(more) + Len(rest) :
            new[i] = IF i <= Len(more) THEN more[i] ELSE rest[i - Len(more)]
  BY ConcatProperties, LenProperties
<1> HIDE DEF new
<1>2. ASSUME NEW d \in 1 .. Len(rest) PROVE Up(new, d) = Up(rest, d)
  <2>1. /\ Len(new) + 1 - d \in 1 .. Len(more) + Len(rest) /\ ~(Len(new) + 1 - d <= Len(more))
        /\ Len(new) + 1 - d - Len(more) = Len(rest) + 1 - d
    BY <1>1
  <2> QED BY <1>1, <2>1 DEF Up
<1>3. ASSUME NEW d \in Len(rest) + 1 .. Len(rest) + Len(more)
      PROVE  Up(new, d) = more[Len(rest) + Len(more) + 1 - d]
  <2>1. /\ Len(new) + 1 - d \in 1 .. Len(more) + Len(rest) /\ Len(new) + 1 - d <= Len(more)
        /\ Len(new) + 1 - d = Len(rest) + Len(more) + 1 - d
    BY <1>1
  <2> QED BY <1>1, <2>1 DEF Up
<1>4. Len(new) = Len(rest) + Len(more)
  BY <1>1
<1> QED BY <1>1, <1>2, <1>3, <1>4 DEF new

\* What Fx!Then puts in the place of the innermost call, and what Fx!Pushed puts in
\* front of it.
LEMMA ThenGrows ==
    ASSUME FxTypes, stack # <<>>, NEW more \in Seq(Frames), stack' = more \o Tail(stack)
    PROVE  Grows(more, Len(stack) - 1)
<1>1. PICK t \in Seq(Frames) : /\ t = Tail(stack) /\ Len(t) = Len(stack) - 1
                               /\ \A d \in 1 .. Len(stack) - 1 : Up(t, d) = Up(stack, d)
  BY TopUp
<1>2. Len(stack) \in Nat \ {0}
  BY TopUp
<1>3. /\ stack' \in Seq(Frames) /\ Len(stack') = Len(t) + Len(more)
      /\ Len(more) \in Nat
      /\ \A d \in 1 .. Len(t) : Up(stack', d) = Up(t, d)
      /\ \A d \in Len(t) + 1 .. Len(t) + Len(more) :
            Up(stack', d) = more[Len(t) + Len(more) + 1 - d]
  BY <1>1, UpConcat
<1>4. Len(stack) - 1 \in 0 .. Len(stack)
  BY <1>2
<1> QED BY <1>1, <1>3, <1>4 DEF Grows

LEMMA PushedGrows ==
    ASSUME FxTypes, NEW more \in Seq(Frames), stack' = more \o stack
    PROVE  Grows(more, Len(stack))
<1>1. stack \in Seq(Frames)
  BY DEF FxTypes
<1>2. Len(stack) \in 0 .. Len(stack)
  BY TopUp
<1> QED BY <1>1, <1>2, UpConcat DEF Grows

-----------------------------------------------------------------------------
(* What a step needs.                                                      *)

\* The calls that stay do not begin an animation, which only the innermost does.
Stay(b) == b = Len(stack) /\ stack # <<>> => Head(stack).frame # "start"

\* A settled animation stays settled, and is of the queue or of nothing as it was.
SettledStay ==
    \A n \in Fx!Ids : Settled(n) => /\ Settled(n)'
                                    /\ anims'[n].queued = anims[n].queued
                                    /\ anims'[n].empty = anims[n].empty

\* The calls that stay are at their depths, open what they opened, and none of them
\* begins an animation.
LEMMA StayUp ==
    ASSUME InTurnInv, NEW more, NEW b, Grows(more, b), Stay(b), SettledStay
    PROVE  /\ \A d \in 1 .. b : /\ d \in Depths /\ Up(stack', d) = Up(stack, d)
                                /\ Up(stack, d).frame # "start"
           /\ \A d \in 1 .. b : d \in Opening' <=> d \in Opening
           /\ \A d \in Depths' : d \in 1 .. b \/ d \in b + 1 .. b + Len(more)
           /\ b \in Nat /\ Len(more) \in Nat /\ Len(stack') = b + Len(more)
<1>0. FxTypes /\ FramesInv
  BY DEF InTurnInv
<1>1. Len(stack) \in Nat /\ b \in 0 .. Len(stack) /\ b \in Nat /\ Len(more) \in Nat
      /\ Len(stack') = b + Len(more)
  BY <1>0, TopUp DEF Grows
<1>2. ASSUME NEW d \in 1 .. b
      PROVE  d \in Depths /\ d \in Depths' /\ Up(stack', d) = Up(stack, d)
             /\ Up(stack, d).frame # "start"
  <2>1. d \in Depths /\ d \in Depths' /\ (d = Len(stack) => b = Len(stack))
    BY <1>1 DEF Depths
  <2>2. Up(stack', d) = Up(stack, d)
    BY DEF Grows
  <2>3. CASE d = Len(stack)
    <3>1. stack # <<>> /\ Head(stack) = Up(stack, Len(stack))
      BY <1>0, <1>1, <2>3, TopUp
    <3> QED BY <2>1, <2>2, <2>3, <3>1 DEF Stay
  <2>4. CASE d # Len(stack)
    BY <1>0, <2>1, <2>2, <2>4 DEF FramesInv, FrameOK
  <2> QED BY <2>3, <2>4
<1>3. ASSUME NEW d \in 1 .. b PROVE d \in Opening' <=> d \in Opening
  <2>1. PICK f : f = Up(stack, d)
    OBVIOUS
  <2>2. d \in Depths /\ d \in Depths' /\ Up(stack, d) = f /\ Up(stack', d) = f /\ f.frame # "start"
    BY <1>2, <2>1
  <2>3. FrameOK(f, d)
    BY <1>0, <2>2 DEF FramesInv
  <2>4. f.frame = "dequeue" => (f.i = 0 \/ (Turns(f.i) <=> Turns(f.i)'))
    BY <2>3 DEF FrameOK, SettledStay, Settled, Turns
  <2>5. Opens(f)' <=> Opens(f)
    BY <2>2, <2>4 DEF Opens
  <2> QED BY <2>2, <2>5 DEF Opening, Opens
<1>4. ASSUME NEW d \in Depths' PROVE d \in 1 .. b \/ d \in b + 1 .. b + Len(more)
  BY <1>1 DEF Depths
<1> QED BY <1>1, <1>2, <1>3, <1>4

\* The frame at depth d of those that come.
New(more, b, d) == more[b + Len(more) + 1 - d]
NewOK(more, b) ==
    \A d \in b + 1 .. b + Len(more) :
        New(more, b, d).frame # "stop" /\ FrameOK(New(more, b, d), d)'

\* The timers that a stop still has to look at are where they were, and when it
\* will dequeue nobody else does.
StopUndisturbed ==
    Stops => /\ \A j \in 1 .. Len(animations) :
                   j \in 1 .. Len(animations') /\ animations'[j] = animations[j]
             /\ timeouts = {} /\ Beginning = {}
                => timeouts' = {} /\ Beginning' = {} /\ Moving' \subseteq Moving

\* What a step leaves to be shown: that the frames that come are right, and that a stop
\* further out is not disturbed.
LEMMA Step ==
    ASSUME InTurnInv, NEW more, NEW b, Grows(more, b), Stay(b),
           stack # <<>> => Head(stack).frame # "stop",
           NewOK(more, b), StopUndisturbed,
           SettledStay,
           FxTypes', Single', HeldInv', QueueInv', TimersInv'
    PROVE  InTurnInv'
<1>0. FxTypes /\ FramesInv /\ StopInv
  BY DEF InTurnInv
<1>1. /\ \A d \in 1 .. b : d \in Depths /\ Up(stack', d) = Up(stack, d)
                           /\ Up(stack, d).frame # "start"
      /\ \A d \in Depths' : d \in 1 .. b \/ d \in b + 1 .. b + Len(more)
      /\ b \in Nat /\ Len(more) \in Nat
  BY StayUp
<1>2. \A d \in b + 1 .. b + Len(more) : Up(stack', d) = New(more, b, d)
  BY DEF Grows, New
<1>3. ASSUME NEW d \in Depths', NEW f, f = Up(stack', d) PROVE FrameOK(f, d)'
  <2>1. CASE d \in 1 .. b
    <3>1. 1 \in 1 .. b
      BY <1>1, <2>1
    <3>2. Up(stack', 1) = Up(stack, 1) /\ Up(stack', d) = Up(stack, d) /\ d \in Depths
          /\ Up(stack, d).frame # "start"
      BY <1>1, <2>1, <3>1
    <3>3. f = Up(stack, d) /\ f.frame # "start"
      BY <1>3, <3>2
    <3>4. FrameOK(f, d)
      BY <1>0, <3>2, <3>3 DEF FramesInv
    <3>5. /\ f.ran # 0 /\ f.frame = "tick" => Settled(f.ran)'
          /\ f.frame = "dequeue" => f.i = 0 \/ (Settled(f.i)' /\ anims'[f.i].queued)
      BY <3>4 DEF FrameOK, Settled, SettledStay
    <3> QED BY <3>2, <3>3, <3>4, <3>5 DEF FrameOK
  <2>2. CASE d \in b + 1 .. b + Len(more)
    BY <1>2, <1>3, <2>2 DEF NewOK
  <2> QED BY <1>1, <2>1, <2>2
<1>4. FramesInv'
  <2> SUFFICES ASSUME NEW d \in Depths' PROVE FrameOK(Up(stack, d), d)'
    BY DEF FramesInv
  <2> QED BY <1>3 DEF FrameOK
<1>5. StopInv'
  <2> SUFFICES ASSUME Stops' PROVE StopOK(Up(stack, 1))'
    BY DEF StopInv
  <2>0. PICK f : f = Up(stack, 1)
    OBVIOUS
  <2>1. 1 \in Depths'
    BY TopUp DEF Depths, Stops, Grows
  <2>2. 1 \in 1 .. b
    BY <1>1, <1>2, <2>1 DEF NewOK, Stops
  <2>3. Up(stack', 1) = f /\ 1 \in Depths /\ Stops
    <3>1. Up(stack', 1) = f /\ 1 \in Depths
      BY <1>1, <2>0, <2>2
    <3>2. stack # <<>>
      BY <1>0, <3>1, TopUp DEF Depths
    <3> QED BY <2>0, <3>1, <3>2 DEF Stops
  <2>4. StopOK(f) /\ f \in Frames
    BY <1>0, <2>0, <2>3, TopUp DEF StopInv
  <2>5. f.ran # 0
    <3>1. Len(stack) # 1
      BY <1>0, <2>0, <2>3, TopUp DEF Stops
    <3> QED BY <2>4, <3>1 DEF StopOK
  <2>6. f.i \in 1 .. Len(animations) /\ Settled(animations[f.i]) /\ f.i >= -1 /\ f.i # -1
    BY <2>4, <2>5 DEF StopOK, Frames
  <2>7. /\ f.i \in 1 .. Len(animations')
        /\ animations'[f.i] \in Fx!Ids /\ anims'[animations'[f.i]].state \in {"resolved", "rejected"}
    <3>1. f.i \in 1 .. Len(animations') /\ animations'[f.i] = animations[f.i]
      BY <2>3, <2>6 DEF StopUndisturbed
    <3> QED BY <2>6, <3>1 DEF Settled, SettledStay
  <2>8. ASSUME ~f.gotoEnd \/ f.dequeue
        PROVE  /\ timeouts' = {} /\ Beginning' = {}
               /\ \A n \in Moving' : \E j \in 1 .. Len(animations') :
                     animations'[j] = n /\ j <= f.i /\ (f.ran # 0 => j # f.i)
    BY <2>3, <2>4, <2>6, <2>8 DEF StopUndisturbed, StopOK
  <2> QED BY <2>3, <2>5, <2>6, <2>7, <2>8 DEF StopOK, Settled
<1> QED BY <1>4, <1>5 DEF InTurnInv

\* Nothing more makes the queue go on.
LEMMA Fewer ==
    ASSUME InTurnInv, Moving' \subseteq Moving, timeouts' \subseteq timeouts,
           Opening' \subseteq Opening, UNCHANGED queue, Held \/ Opening' = {}
    PROVE  Single' /\ HeldInv'
<1>1. Single'
  BY DEF InTurnInv, Single
<1>2. HeldInv'
  BY DEF InTurnInv, HeldInv, Held
<1> QED BY <1>1, <1>2

\* The animations but for their ticks.
SameAnims ==
    \A n \in Fx!Ids : /\ anims'[n].state = anims[n].state /\ anims'[n].queued = anims[n].queued
                      /\ anims'[n].empty = anims[n].empty

\* The steps that leave what makes the queue go on as it is.
LEMMA QuietStep ==
    ASSUME InTurnInv, NEW more, NEW b, Grows(more, b), Stay(b),
           stack # <<>> => Head(stack).frame \notin {"stop", "dequeue"},
           NewOK(more, b),
           \A d \in b + 1 .. b + Len(more) : ~Begins(New(more, b, d)),
           UNCHANGED <<queue, animations, timeouts>>, hooks'.stop = hooks.stop \/ timeouts = {},
           SameAnims,
           FxTypes', animations # <<>> => inProgress'
    PROVE  InTurnInv'
<1>0. FxTypes /\ HeldInv /\ QueueInv /\ TimersInv /\ FramesInv
  BY DEF InTurnInv
<1>1. Moving' = Moving /\ SettledStay
  BY DEF Moving, Turns, SameAnims, SettledStay, Settled
<1>2. Opening' \subseteq Opening
  <2> SUFFICES ASSUME NEW d \in Opening' PROVE d \in Opening
    OBVIOUS
  <2>1. d \in Depths' /\ Opens(Up(stack, d))'
    BY DEF Opening
  <2>2. CASE d \in 1 .. b
    BY <1>1, <2>2, StayUp
  <2>3. CASE d \in b + 1 .. b + Len(more)
    <3>1. Up(stack', d) = New(more, b, d)
      BY <2>3 DEF Grows, New
    <3> QED BY <2>1, <2>3, <3>1 DEF Opens, Begins
  <2> QED BY <1>1, <2>1, <2>2, <2>3, StayUp
<1>3. Held \/ Opening' = {}
  <2> SUFFICES ASSUME ~Held, NEW d \in Opening PROVE FALSE
    BY <1>2
  <2>1. d = Len(stack) /\ Up(stack, d).frame = "dequeue" /\ d \in Depths
    BY <1>0 DEF HeldInv, Opening
  <2>2. stack # <<>> /\ Head(stack) = Up(stack, d)
    BY <1>0, <2>1, TopUp DEF Depths
  <2> QED BY <2>1, <2>2
<1>4. Single' /\ HeldInv'
  BY <1>1, <1>2, <1>3, Fewer
<1>5. QueueInv'
  BY <1>0 DEF QueueInv, InQueue, SameAnims
<1>6. TimersInv'
  <2>1. \A j \in 1 .. Len(animations) : animations[j] \in Fx!Ids
    BY <1>0 DEF FxTypes
  <2> QED BY <1>0, <1>1, <2>1 DEF TimersInv, SameAnims
<1>7. Beginning' \subseteq Beginning
  <2> SUFFICES ASSUME NEW d \in Beginning' PROVE d \in Beginning
    OBVIOUS
  <2>1. d \in Depths' /\ Begins(Up(stack', d))
    BY DEF Beginning, Begins
  <2>2. CASE d \in 1 .. b
    BY <1>1, <2>1, <2>2, StayUp DEF Beginning
  <2>3. CASE d \in b + 1 .. b + Len(more)
    <3>1. Up(stack', d) = New(more, b, d)
      BY <2>3 DEF Grows, New
    <3> QED BY <2>1, <2>3, <3>1
  <2> QED BY <1>1, <2>1, <2>2, <2>3, StayUp
<1>8. StopUndisturbed
  BY <1>1, <1>7 DEF StopUndisturbed
<1> QED BY <1>1, <1>4, <1>5, <1>6, <1>8, Step

\* The innermost call returns, or has another in its place.
LEMMA NothingGrows ==
    ASSUME FxTypes, stack # <<>>, stack' = <<>> \o Tail(stack),
           NEW b, b = Len(stack) - 1, NEW more, more = <<>>
    PROVE  b \in Nat /\ b \in 0 .. Len(stack) /\ Grows(more, b) /\ Stay(b) /\ Len(more) = 0
<1>1. more \in Seq(Frames) /\ Len(more) = 0
  BY EmptySeq
<1>2. Len(stack) \in Nat /\ Len(stack) # 0
  BY TopUp
<1>3. b \in Nat /\ b \in 0 .. Len(stack) /\ b # Len(stack)
  BY <1>2
<1>4. Grows(more, b)
  BY <1>1, ThenGrows
<1> QED BY <1>1, <1>3, <1>4 DEF Stay

\* The innermost call gives way to one frame.
LEMMA OneGrows ==
    ASSUME FxTypes, stack # <<>>, NEW x \in Frames, stack' = <<x>> \o Tail(stack),
           NEW b, b = Len(stack) - 1, NEW more, more = <<x>>
    PROVE  /\ b \in Nat /\ b \in 0 .. Len(stack) /\ Grows(more, b) /\ Stay(b)
           /\ Len(more) = 1
           /\ \A d \in b + 1 .. b + Len(more) : d = b + 1 /\ New(more, b, d) = x
<1>1. more \in Seq(Frames) /\ Len(more) = 1 /\ more[1] = x
  OBVIOUS
<1>2. Len(stack) \in Nat /\ Len(stack) # 0
  BY TopUp
<1>3. b \in Nat /\ b \in 0 .. Len(stack) /\ b # Len(stack)
  BY <1>2
<1>4. Grows(more, b)
  BY <1>1, ThenGrows
<1>5. \A d \in b + 1 .. b + 1 : d = b + 1 /\ b + 1 + 1 - d = 1
  BY <1>3
<1>6. \A d \in b + 1 .. b + Len(more) : d = b + 1 /\ New(more, b, d) = x
  BY <1>1, <1>5 DEF New
<1> QED BY <1>1, <1>3, <1>4, <1>6 DEF Stay

\* Below a tick there is no stop.
LEMMA TickTop ==
    ASSUME InTurnInv, Fx!In("tick"), NEW b \in Nat, b = Len(stack) - 1, NEW more, Grows(more, b),
           \A d \in b + 1 .. b + Len(more) : New(more, b, d).frame # "stop"
    PROVE  \A d \in b + 1 .. b + Len(more) : Up(stack', 1).frame # "stop"
<1>0. FxTypes /\ FramesInv
  BY DEF InTurnInv
<1>1. /\ stack # <<>> /\ Head(stack) = Up(stack, Len(stack)) /\ Len(stack) \in Depths
      /\ Head(stack).frame = "tick"
  BY <1>0, TopUp DEF Fx!In, Fx!Top
<1>2. Up(stack, 1).frame # "stop"
  BY <1>0, <1>1 DEF FramesInv, FrameOK
<1> SUFFICES ASSUME NEW d \in b + 1 .. b + Len(more) PROVE Up(stack', 1).frame # "stop"
  OBVIOUS
<1>3. Len(more) \in Nat
  BY DEF Grows
<1>6. d \in Nat /\ b + 1 <= d /\ d <= b + Len(more)
  BY <1>3
<1>4. CASE b = 0
  <2>1. 1 \in b + 1 .. b + Len(more)
    <3>1. 1 <= Len(more) /\ b + 1 = 1 /\ b + Len(more) = Len(more)
      BY ONLY <1>3, <1>4, <1>6
    <3> QED BY ONLY <1>3, <3>1
  <2> QED BY <2>1 DEF Grows, New
<1>5. CASE b # 0
  <2>1. 1 \in 1 .. b
    BY <1>5
  <2> QED BY <1>2, <2>1 DEF Grows
<1> QED BY <1>4, <1>5

\* The steps of user code and of a tick that settle nothing.
LEMMA ReturnKeeps == ASSUME InTurnInv, Fx!Return PROVE InTurnInv'
<1>0. FxTypes /\ TimersInv
  BY DEF InTurnInv
<1>1. /\ stack # <<>> /\ Head(stack).frame = "user" /\ stack' = <<>> \o Tail(stack)
      /\ UNCHANGED <<queue, hooks, animations, timeouts, anims, inProgress, calls, finishing>>
  BY DEF Fx!Return, Fx!In, Fx!Top, Fx!Then, Fx!data, Fx!clock
<1>b. PICK b : b = Len(stack) - 1
  OBVIOUS
<1>m. PICK more : more = <<>>
  OBVIOUS
<1>2. b \in Nat /\ Grows(more, b) /\ Stay(b) /\ Len(more) = 0
  BY <1>0, <1>1, <1>b, <1>m, NothingGrows
<1>3. \A d \in b + 1 .. b + Len(more) : FALSE
  BY <1>2
<1>4. FxTypes'
  BY <1>0, <1>1, <1>2 DEF FxTypes, Grows
<1> QED BY <1>0, <1>1, <1>2, <1>3, <1>4, QuietStep DEF NewOK, TimersInv, SameAnims

\* The steps of a tick that put the tick back.
LEMMA TickAgain ==
    ASSUME InTurnInv, Fx!In("tick"), NEW x \in Frames, stack' = <<x>> \o Tail(stack),
           x.frame = "tick", x.ran # 0 => Settled(x.ran),
           UNCHANGED <<queue, hooks, animations, timeouts, inProgress, calls, finishing>>,
           SameAnims,
           anims' \in [Fx!Ids -> Anims]
    PROVE  InTurnInv'
<1>0. FxTypes /\ TimersInv
  BY DEF InTurnInv
<1>1. stack # <<>> /\ Head(stack).frame = "tick"
  BY DEF Fx!In, Fx!Top
<1>2. PICK b : b = Len(stack) - 1
  OBVIOUS
<1>3. PICK more : more = <<x>>
  OBVIOUS
<1>4. /\ b \in Nat /\ Grows(more, b) /\ Stay(b)
      /\ \A d \in b + 1 .. b + Len(more) : New(more, b, d) = x /\ ~Begins(x)
  BY ZenonT(40), <1>0, <1>1, <1>2, <1>3, OneGrows DEF Begins
<1>5. \A d \in b + 1 .. b + Len(more) : Up(stack', 1).frame # "stop"
  BY <1>2, <1>4, TickTop
<1>6. NewOK(more, b)
  <2>1. x.ran # 0 => Settled(x.ran)'
    BY DEF SameAnims, Settled
  <2> QED BY <1>4, <1>5, <2>1 DEF NewOK, FrameOK
<1>7. FxTypes'
  <2>1. stack' \in Seq(Frames)
    BY <1>4 DEF Grows
  <2> QED BY <1>0, <2>1 DEF FxTypes, SameAnims
<1>8. \A d \in b + 1 .. b + Len(more) : ~Begins(New(more, b, d))
  BY <1>4
<1>9. (animations # <<>> => inProgress') /\ hooks'.stop = hooks.stop
  BY <1>0 DEF TimersInv
<1> QED BY <1>1, <1>4, <1>6, <1>7, <1>8, <1>9, QuietStep

LEMMA TickOnKeeps == ASSUME InTurnInv, Fx!TickOn PROVE InTurnInv'
<1>0. FxTypes
  BY DEF InTurnInv
<1>1. Fx!In("tick") /\ stack # <<>> /\ Head(stack) \in Frames /\ Head(stack).frame = "tick"
  BY <1>0, TopUp DEF Fx!TickOn, Fx!Ticking, Fx!In, Fx!Top
<1>2. /\ Head(stack).ran = 0 /\ Head(stack).i \in 1 .. Len(animations)
      /\ UNCHANGED <<queue, hooks, animations, timeouts, inProgress, calls, finishing>>
  BY <1>0 DEF Fx!TickOn, Fx!Ticking, Fx!Top, Fx!data, Fx!clock, FxTypes
<1>n. PICK n \in Fx!Ids : n = animations[Head(stack).i]
  BY <1>0, <1>2 DEF FxTypes
<1>3. anims[n].left > 1 /\ anims' = [anims EXCEPT ![n].left = @ - 1]
  BY <1>n DEF Fx!TickOn, Fx!Top
<1>4. PICK x : x = [Head(stack) EXCEPT !.i = @ + 1]
  OBVIOUS
<1>5. x \in Frames /\ x.frame = "tick" /\ x.ran = 0 /\ stack' = <<x>> \o Tail(stack)
  BY <1>1, <1>2, <1>4 DEF Frames, Fx!TickOn, Fx!Then, Fx!Top
<1>6. anims \in [Fx!Ids -> Anims]
  BY <1>0 DEF FxTypes
<1>7. /\ anims' \in [Fx!Ids -> Anims]
      /\ SameAnims
  BY <1>3, <1>6 DEF Anims, SameAnims
<1> QED BY <1>1, <1>2, <1>5, <1>7, TickAgain

LEMMA TickEndedKeeps == ASSUME InTurnInv, Fx!TickEnded PROVE InTurnInv'
<1>0. FxTypes /\ TimersInv
  BY DEF InTurnInv
<1>1. Fx!In("tick") /\ stack # <<>> /\ Head(stack) \in Frames /\ Head(stack).frame = "tick"
  BY <1>0, TopUp DEF Fx!TickEnded, Fx!Ticking, Fx!In, Fx!Top
<1>2. /\ Head(stack).ran = 0 /\ Head(stack).i \in 1 .. Len(animations)
      /\ UNCHANGED <<queue, hooks, animations, timeouts, inProgress, calls, finishing, anims>>
  BY <1>0 DEF Fx!TickEnded, Fx!Ticking, Fx!Top, Fx!data, Fx!clock, FxTypes
<1>3. PICK n \in Fx!Ids : n = animations[Head(stack).i] /\ anims[n].state # "pending"
  BY <1>0, <1>2 DEF Fx!TickEnded, Fx!Top, FxTypes
<1>4. Settled(n) /\ n \in Nat
  <2>1. anims[n].state \notin {"none", "queued"} /\ anims[n].state \in States
    BY <1>0, <1>2, <1>3 DEF TimersInv, FxTypes, Anims
  <2> QED BY <1>3, <2>1 DEF Settled, States, Fx!Ids
<1>5. PICK x : x = [Head(stack) EXCEPT !.ran = n]
  OBVIOUS
<1>6. x \in Frames /\ x.frame = "tick" /\ x.ran = n /\ stack' = <<x>> \o Tail(stack)
  BY <1>1, <1>2, <1>3, <1>4, <1>5 DEF Frames, Fx!TickEnded, Fx!Then, Fx!Top
<1>7. anims' \in [Fx!Ids -> Anims] /\ SameAnims
  BY <1>0, <1>2 DEF FxTypes, SameAnims
<1> QED BY <1>1, <1>2, <1>4, <1>6, <1>7, TickAgain

-----------------------------------------------------------------------------
(* What several steps need.                                                *)

\* A frame that is the innermost one, by name.
LEMMA InTop ==
    ASSUME InTurnInv, NEW frame, Fx!In(frame)
    PROVE  /\ stack # <<>> /\ Head(stack) \in Frames /\ Head(stack).frame = frame
           /\ Fx!Top = Head(stack) /\ Head(stack) = Up(stack, Len(stack))
           /\ Len(stack) \in Depths /\ Len(stack) \in Nat
<1> FxTypes
  BY DEF InTurnInv
<1> QED BY TopUp DEF Fx!In, Fx!Top

\* A dequeue that is not the innermost call finds something in progress.
LEMMA HeldUnless ==
    ASSUME InTurnInv, stack # <<>> => Head(stack).frame # "dequeue"
    PROVE  Held \/ Opening = {}
<1> SUFFICES ASSUME ~Held, NEW d \in Opening PROVE FALSE
  OBVIOUS
<1>1. FxTypes /\ HeldInv
  BY DEF InTurnInv
<1>2. d = Len(stack) /\ Up(stack, d).frame = "dequeue" /\ d \in Depths
  BY <1>1 DEF HeldInv, Opening
<1>3. stack # <<>> /\ Head(stack) = Up(stack, d)
  BY <1>1, <1>2, TopUp DEF Depths
<1> QED BY <1>2, <1>3

\* The timers without one of them.
LEMMA Removed ==
    ASSUME FxTypes, NEW i \in 1 .. Len(animations), animations' = Fx!RemoveTimer(i)
    PROVE  /\ animations' \in Seq(Fx!Ids) /\ Len(animations) \in Nat
           /\ Len(animations') = Len(animations) - 1
           /\ \A j \in 1 .. i - 1 : animations'[j] = animations[j]
           /\ \A j \in i .. Len(animations) - 1 : animations'[j] = animations[j + 1]
<1>1. animations \in Seq(Fx!Ids) /\ Len(animations) \in Nat /\ DOMAIN animations = 1 .. Len(animations)
  BY LenProperties DEF FxTypes
<1>2. animations' = SubSeq(animations, 1, i - 1) \o SubSeq(animations, i + 1, Len(animations))
  BY <1>1 DEF Fx!RemoveTimer, Fx!Seqs!RemoveAt
<1> DEFINE front == SubSeq(animations, 1, i - 1)
           back == SubSeq(animations, i + 1, Len(animations))
<1>3. /\ front \in Seq(Fx!Ids) /\ Len(front) = i - 1
      /\ \A j \in 1 .. i - 1 : front[j] = animations[j]
  BY <1>1, SubSeqProperties
<1>4. /\ back \in Seq(Fx!Ids) /\ Len(back) = Len(animations) - i
      /\ \A j \in 1 .. Len(animations) - i : back[j] = animations[i + j]
  <2> DEFINE m == i + 1
             n == Len(animations)
  <2>1. m \in Int /\ n \in Int /\ \A j \in m .. n : animations[j] \in Fx!Ids
    BY <1>1
  <2>2. /\ SubSeq(animations, m, n) \in Seq(Fx!Ids)
        /\ Len(SubSeq(animations, m, n)) = IF m <= n THEN n - m + 1 ELSE 0
        /\ \A j \in 1 .. n - m + 1 : SubSeq(animations, m, n)[j] = animations[m + j - 1]
    <3> HIDE DEF m, n
    <3> QED BY <2>1, SubSeqProperties
  <2>3. (IF m <= n THEN n - m + 1 ELSE 0) = n - i /\ n - m + 1 = n - i
        /\ \A j \in 1 .. n - i : m + j - 1 = i + j
    <3>1. n \in Nat /\ m \in Int /\ i \in Int /\ m = i + 1 /\ i <= n
      BY <1>1
    <3> HIDE DEF m, n
    <3>2. n - m + 1 = n - i
      BY ONLY <3>1
    <3>3. (IF m <= n THEN n - m + 1 ELSE 0) = n - i
      BY ONLY <3>1
    <3>4. \A j \in 1 .. n - i : m + j - 1 = i + j
      BY ONLY <3>1
    <3> QED BY <3>2, <3>3, <3>4
  <2> QED BY <2>2, <2>3
<1> HIDE DEF front, back
<1>5. /\ front \o back \in Seq(Fx!Ids)
      /\ Len(front \o back) = Len(front) + Len(back)
      /\ \A j \in 1 .. Len(front) + Len(back) :
            (front \o back)[j] = IF j <= Len(front) THEN front[j] ELSE back[j - Len(front)]
  BY <1>3, <1>4, ConcatProperties
<1>6. animations' = front \o back
  BY <1>2 DEF front, back
<1>7. ASSUME NEW j \in i .. Len(animations) - 1 PROVE animations'[j] = animations[j + 1]
  <2>1. /\ j \in 1 .. Len(front) + Len(back) /\ ~(j <= Len(front))
        /\ j - Len(front) \in 1 .. Len(animations) - i /\ i + (j - Len(front)) = j + 1
    BY <1>1, <1>3, <1>4
  <2> QED BY <1>4, <1>5, <1>6, <2>1
<1>8. ASSUME NEW j \in 1 .. i - 1 PROVE animations'[j] = animations[j]
  <2>1. j \in 1 .. Len(front) + Len(back) /\ j <= Len(front)
    BY <1>1, <1>3, <1>4
  <2> QED BY <1>3, <1>5, <1>6, <2>1
<1>9. Len(front) + Len(back) = Len(animations) - 1
  BY <1>1, <1>3, <1>4
<1> QED BY <1>1, <1>5, <1>6, <1>7, <1>8, <1>9

\* A timer whose animation has ended may go.
LEMMA RemovedTimers ==
    ASSUME InTurnInv, NEW i \in 1 .. Len(animations), animations' = Fx!RemoveTimer(i),
           Settled(animations[i]), UNCHANGED <<anims, inProgress>>
    PROVE  TimersInv' /\ Moving' = Moving
<1>0. FxTypes /\ TimersInv
  BY DEF InTurnInv
<1>1. /\ Len(animations) \in Nat /\ Len(animations') = Len(animations) - 1
      /\ \A j \in 1 .. i - 1 : animations'[j] = animations[j]
      /\ \A j \in i .. Len(animations) - 1 : animations'[j] = animations[j + 1]
  BY <1>0, Removed
<1>2. Moving' = Moving
  BY DEF Moving, Turns
<1>3. animations' # <<>> => inProgress'
  <2>1. animations # <<>>
    BY <1>1
  <2> QED BY <1>0, <2>1 DEF TimersInv
<1>4. ASSUME NEW n \in Moving' PROVE \E j \in 1 .. Len(animations') : animations'[j] = n
  <2>1. PICK j \in 1 .. Len(animations) : animations[j] = n
    BY <1>0, <1>2, <1>4 DEF TimersInv
  <2>2. j # i
    BY <1>2, <1>4, <2>1 DEF Moving, Settled
  <2>3. CASE j < i
    <3>1. j \in 1 .. i - 1 /\ j \in 1 .. Len(animations')
      BY <1>1, <2>3
    <3> QED BY <1>1, <2>1, <3>1
  <2>4. CASE j > i
    <3>1. j - 1 \in i .. Len(animations) - 1 /\ j - 1 \in 1 .. Len(animations') /\ j - 1 + 1 = j
      BY <1>1, <2>4
    <3> QED BY <1>1, <2>1, <3>1
  <2> QED BY <2>2, <2>3, <2>4
<1>5. ASSUME NEW j \in 1 .. Len(animations')
      PROVE  anims'[animations'[j]].state \notin {"none", "queued"}
  <2>1. CASE j < i
    <3>1. j \in 1 .. i - 1 /\ j \in 1 .. Len(animations)
      BY <1>1, <2>1
    <3> QED BY <1>0, <1>1, <3>1 DEF TimersInv
  <2>2. CASE j >= i
    <3>1. j \in i .. Len(animations) - 1 /\ j + 1 \in 1 .. Len(animations)
      BY <1>1, <2>2
    <3> QED BY <1>0, <1>1, <3>1 DEF TimersInv
  <2>3. j < i \/ j >= i
    BY <1>1
  <2> QED BY <2>1, <2>2, <2>3
<1> QED BY <1>2, <1>3, <1>4, <1>5 DEF TimersInv

\* Frames like another.
Like(x, f, i, r) ==
    /\ x \in Frames /\ x.frame = f.frame /\ x.i = i /\ x.ran = r
    /\ x.gotoEnd = f.gotoEnd

\* The frames that steps put back differ from what they were in one or two fields.
LEMMA Updated ==
    ASSUME NEW f \in Frames
    PROVE  /\ Like([f EXCEPT !.i = @ + 1], f, f.i + 1, f.ran)
           /\ Like([f EXCEPT !.i = @ - 1], f, f.i - 1, f.ran)
           /\ [f EXCEPT !.i = @ - 1].dequeue = f.dequeue
           /\ Like([f EXCEPT !.ran = 0], f, f.i, 0)
           /\ Like([f EXCEPT !.ran = 0, !.i = @ + 1], f, f.i + 1, 0)
           /\ Like([f EXCEPT !.ran = 0, !.i = @ - 1], f, f.i - 1, 0)
           /\ [f EXCEPT !.ran = 0, !.i = @ - 1].dequeue = f.dequeue
           /\ Like([f EXCEPT !.ran = 1], f, f.i, 1)
           /\ Like([f EXCEPT !.ran = 1, !.dequeue = FALSE], f, f.i, 1)
           /\ [f EXCEPT !.ran = 1, !.dequeue = FALSE].dequeue = FALSE
           /\ f.i \in Int /\ f.ran \in Nat
<1>0. f.i \in Int /\ f.i + 1 \in Int /\ f.i - 1 \in Int /\ f.ran \in Nat
  BY DEF Frames
<1>1. /\ Like([f EXCEPT !.i = @ + 1], f, f.i + 1, f.ran)
      /\ Like([f EXCEPT !.i = @ - 1], f, f.i - 1, f.ran)
      /\ [f EXCEPT !.i = @ - 1].dequeue = f.dequeue
  BY <1>0 DEF Frames, Like
<1>2. Like([f EXCEPT !.ran = 0], f, f.i, 0) /\ Like([f EXCEPT !.ran = 1], f, f.i, 1)
  BY DEF Frames, Like
<1>3. /\ Like([f EXCEPT !.ran = 0, !.i = @ + 1], f, f.i + 1, 0)
      /\ Like([f EXCEPT !.ran = 0, !.i = @ - 1], f, f.i - 1, 0)
      /\ [f EXCEPT !.ran = 0, !.i = @ - 1].dequeue = f.dequeue
  BY <1>0 DEF Frames, Like
<1>4. /\ Like([f EXCEPT !.ran = 1, !.dequeue = FALSE], f, f.i, 1)
      /\ [f EXCEPT !.ran = 1, !.dequeue = FALSE].dequeue = FALSE
  BY DEF Frames, Like
<1> QED BY <1>0, <1>1, <1>2, <1>3, <1>4

\* A new frame.
LEMMA FrameTyped ==
    ASSUME NEW what \in FrameNames, NEW i \in Int, NEW x,
           \/ x = Fx!Frame(what) /\ i = 0
           \/ x = [Fx!Frame(what) EXCEPT !.i = i]
    PROVE  x \in Frames /\ x.frame = what /\ x.ran = 0 /\ x.i = i
<1>1. PICK f \in Frames : f = Fx!Frame(what) /\ f.frame = what /\ f.ran = 0 /\ f.i = 0
  <2>1. Fx!Frame(what) \in Frames /\ Fx!Frame(what).frame = what
    BY DEF Frames, Fx!Frame
  <2> QED BY <2>1 DEF Fx!Frame
<1>2. CASE x = [f EXCEPT !.i = i]
  BY <1>1, <1>2 DEF Frames
<1> QED BY <1>1, <1>2

\* What the innermost calls that come do not open was open before.
LEMMA GrowsOpening ==
    ASSUME InTurnInv, NEW more, NEW b, Grows(more, b), Stay(b), SettledStay
    PROVE  \A d \in Opening' : (d \in 1 .. b /\ d \in Opening)
                              \/ (d \in b + 1 .. b + Len(more) /\ Opens(New(more, b, d))')
<1> SUFFICES ASSUME NEW d \in Opening'
             PROVE  (d \in 1 .. b /\ d \in Opening)
                              \/ (d \in b + 1 .. b + Len(more) /\ Opens(New(more, b, d))')
  OBVIOUS
<1>1. d \in Depths' /\ Opens(Up(stack, d))'
  BY DEF Opening
<1>2. CASE d \in 1 .. b
  BY <1>2, StayUp
<1>3. CASE d \in b + 1 .. b + Len(more)
  <2>1. Up(stack', d) = New(more, b, d)
    BY <1>3 DEF Grows, New
  <2> QED BY <1>1, <1>3, <2>1 DEF Opens
<1> QED BY <1>1, <1>2, <1>3, StayUp

-----------------------------------------------------------------------------
(* The frames.                                                             *)

\* A tick takes away the timer it ran, which has ended, or goes on: no timer of
\* an animation that moves is lost.
LEMMA TickRemoveKeeps == ASSUME InTurnInv, Fx!TickRemove PROVE InTurnInv'
<1>0. FxTypes /\ TimersInv /\ FramesInv /\ QueueInv
  BY DEF InTurnInv
<1>1. /\ Fx!In("tick") /\ stack # <<>> /\ Head(stack) \in Frames /\ Head(stack).frame = "tick"
      /\ Fx!Top = Head(stack) /\ Head(stack) = Up(stack, Len(stack)) /\ Len(stack) \in Depths
  BY InTop DEF Fx!TickRemove
<1>2. /\ Head(stack).ran # 0
      /\ UNCHANGED <<queue, hooks, timeouts, inProgress, calls, finishing, anims>>
  BY <1>1 DEF Fx!TickRemove, Fx!data, Fx!clock
<1>3. Settled(Head(stack).ran)
  BY <1>0, <1>1, <1>2 DEF FramesInv, FrameOK
<1>4. CASE ~(Head(stack).i \in DOMAIN animations /\ animations[Head(stack).i] = Head(stack).ran)
  <2>1. PICK x : x = [Head(stack) EXCEPT !.ran = 0, !.i = @ + 1]
    OBVIOUS
  <2>2. x \in Frames /\ x.frame = "tick" /\ x.ran = 0
    BY <1>1, <2>1, Updated DEF Like
  <2>3. stack' = <<x>> \o Tail(stack) /\ UNCHANGED animations
    BY <1>1, <1>4, <2>1 DEF Fx!TickRemove, Fx!Then
  <2>4. anims' \in [Fx!Ids -> Anims] /\ SameAnims
    BY <1>0, <1>2 DEF FxTypes, SameAnims
  <2> QED BY <1>1, <1>2, <2>2, <2>3, <2>4, TickAgain
<1>5. CASE Head(stack).i \in DOMAIN animations /\ animations[Head(stack).i] = Head(stack).ran
  <2>1. PICK x : x = [Head(stack) EXCEPT !.ran = 0]
    OBVIOUS
  <2>2. x \in Frames /\ x.frame = "tick" /\ x.ran = 0
    BY <1>1, <2>1, Updated DEF Like
  <2>3. stack' = <<x>> \o Tail(stack) /\ animations' = Fx!RemoveTimer(Head(stack).i)
    BY <1>1, <1>5, <2>1 DEF Fx!TickRemove, Fx!Then
  <2>4. PICK i : i = Head(stack).i
    OBVIOUS
  <2>5. i \in 1 .. Len(animations) /\ Settled(animations[i]) /\ animations' = Fx!RemoveTimer(i)
    BY <1>0, <1>3, <1>5, <2>3, <2>4 DEF FxTypes
  <2>6. TimersInv' /\ Moving' = Moving /\ animations' \in Seq(Fx!Ids)
    BY <1>0, <1>2, <2>5, RemovedTimers, Removed
  <2>b. PICK b : b = Len(stack) - 1
    OBVIOUS
  <2>m. PICK more : more = <<x>>
    OBVIOUS
  <2>7. /\ b \in Nat /\ Grows(more, b) /\ Stay(b)
        /\ \A d \in b + 1 .. b + Len(more) : d = b + 1 /\ New(more, b, d) = x
    <3>1. FxTypes /\ stack # <<>> /\ x \in Frames /\ stack' = <<x>> \o Tail(stack)
      BY <1>0, <1>1, <2>2, <2>3
    <3> QED BY ZenonT(40), <3>1, <2>b, <2>m, OneGrows
  <2>8. \A d \in b + 1 .. b + Len(more) : Up(stack', 1).frame # "stop"
    BY <1>1, <2>2, <2>7, <2>b, TickTop
  <2>9. NewOK(more, b)
    BY <2>2, <2>7, <2>8 DEF NewOK, FrameOK, Settled
  <2>10. FxTypes'
    BY <1>0, <1>2, <2>6, <2>7 DEF FxTypes, Grows
  <2>11. ~Stops
    BY <1>0, <1>1 DEF FramesInv, FrameOK, Stops
  <2>12. SettledStay /\ Opening' \subseteq Opening
    <3>1. SettledStay
      BY <1>2 DEF Settled, SettledStay
    <3> QED BY <2>2, <2>7, <3>1, GrowsOpening DEF Opens
  <2>13. Single' /\ HeldInv'
    BY <1>1, <1>2, <2>6, <2>12, Fewer, HeldUnless
  <2>14. QueueInv'
    BY <1>0, <1>2 DEF QueueInv, InQueue
  <2> QED BY <1>1, <2>6, <2>7, <2>9, <2>10, <2>11, <2>12, <2>13, <2>14, Step DEF StopUndisturbed
<1> QED BY <1>4, <1>5

\* The frames stop with the last timer.
LEMMA TickEndKeeps == ASSUME InTurnInv, Fx!TickEnd PROVE InTurnInv'
<1>0. FxTypes
  BY DEF InTurnInv
<1>1. stack # <<>> /\ Head(stack).frame = "tick" /\ stack' = <<>> \o Tail(stack)
  BY DEF Fx!TickEnd, Fx!In, Fx!Top, Fx!Then
<1>2. /\ UNCHANGED <<queue, hooks, animations, timeouts, anims, calls, finishing>>
      /\ animations # <<>> => inProgress'
  BY DEF Fx!TickEnd, Fx!data
<1>b. PICK b : b = Len(stack) - 1
  OBVIOUS
<1>m. PICK more : more = <<>>
  OBVIOUS
<1>3. b \in Nat /\ Grows(more, b) /\ Stay(b) /\ Len(more) = 0
  BY <1>0, <1>1, <1>b, <1>m, NothingGrows
<1>4. \A d \in b + 1 .. b + Len(more) : FALSE
  BY <1>3
<1>5. FxTypes'
  BY <1>0, <1>2, <1>3 DEF FxTypes, Grows
<1> QED BY <1>1, <1>2, <1>3, <1>4, <1>5, QuietStep DEF NewOK, SameAnims

\* A tick from an animation frame is the outermost call.
LEMMA ScheduleKeeps == ASSUME InTurnInv, Fx!Schedule PROVE InTurnInv'
<1>0. FxTypes /\ TimersInv
  BY DEF InTurnInv
<1>1. /\ stack = <<>>
      /\ UNCHANGED <<queue, hooks, animations, timeouts, anims, inProgress, calls, finishing>>
  BY DEF Fx!Schedule, Fx!data
<1>2. PICK x : x = [Fx!Frame("tick") EXCEPT !.i = 1]
  OBVIOUS
<1>3. x \in Frames /\ x.frame = "tick" /\ x.ran = 0
  BY <1>2, FrameTyped DEF FrameNames
<1>4. PICK more : more = IF inProgress THEN <<x>> ELSE <<>>
  OBVIOUS
<1>a. /\ more \in Seq(Frames) /\ stack' = more /\ Len(more) \in {0, 1}
      /\ Len(more) = 1 => more = <<x>>
  <2>1. CASE inProgress
    BY <1>2, <1>3, <1>4, <2>1 DEF Fx!Schedule
  <2>2. CASE ~inProgress
    <3>1. more = <<>> /\ stack' = <<>>
      BY <1>4, <2>2 DEF Fx!Schedule
    <3> QED BY <3>1, EmptySeq
  <2> QED BY <2>1, <2>2
<1>5. more \o stack = more
  BY <1>1, <1>a, ConcatEmptySeq
<1>b. PICK b : b = Len(stack)
  OBVIOUS
<1>6. b = 0 /\ Grows(more, b) /\ Stay(b)
  BY <1>0, <1>1, <1>a, <1>5, <1>b, PushedGrows, TopUp DEF Stay
<1>c. ~Begins(x)
  BY <1>3 DEF Begins
<1>7. \A d \in b + 1 .. b + Len(more) : New(more, b, d) = x /\ Up(stack', 1) = x
  <2> SUFFICES ASSUME NEW d \in b + 1 .. b + Len(more)
               PROVE  New(more, b, d) = x /\ Up(stack', 1) = x
    OBVIOUS
  <2>1. Len(more) = 1 /\ d = 1
    <3>1. b = 0 /\ (Len(more) = 0 \/ Len(more) = 1) /\ d \in b + 1 .. b + Len(more)
      BY <1>a, <1>6
    <3>2. CASE Len(more) = 0
      BY <3>1, <3>2
    <3>3. CASE Len(more) = 1
      BY <3>1, <3>3
    <3> QED BY <3>1, <3>2, <3>3
  <2>2. more = <<x>>
    BY <1>a, <2>1
  <2>3. more[1] = x /\ b + Len(more) + 1 - d = 1 /\ Len(stack') + 1 - 1 = 1
    BY <1>a, <1>6, <2>1, <2>2
  <2> QED BY <1>a, <2>3 DEF New, Up
<1>8. NewOK(more, b)
  BY <1>3, <1>7 DEF NewOK, FrameOK
<1>9. FxTypes'
  BY <1>0, <1>1, <1>6 DEF FxTypes, Grows
<1> QED BY <1>0, <1>1, <1>3, <1>6, <1>7, <1>8, <1>c, <1>9, QuietStep DEF TimersInv, SameAnims

\* A frame with nothing but its name.
LEMMA Plain ==
    ASSUME NEW what \in FrameNames
    PROVE  /\ Fx!Frame(what) \in Frames /\ Fx!Frame(what).frame = what
           /\ Fx!Frame(what).ran = 0 /\ Fx!Frame(what).i = 0
<1>1. Fx!Frame(what) \in Frames
  BY DEF Frames, Fx!Frame
<1> QED BY <1>1 DEF Fx!Frame

\* One frame after others.
LEMMA FrameAfter ==
    ASSUME NEW s \in Seq(Frames), NEW x \in Frames, NEW r, r = s \o <<x>>,
           NEW m, m = Len(s) + 1
    PROVE  /\ r \in Seq(Frames) /\ Len(r) = m /\ r[m] = x
           /\ \A i \in 1 .. Len(s) : r[i] = s[i]
<1>1. <<x>> \in Seq(Frames) /\ Len(<<x>>) = 1 /\ <<x>>[1] = x /\ Len(s) \in Nat
  BY LenProperties
<1>2. PICK t \in Seq(Frames) : t = <<x>> /\ Len(t) = 1 /\ t[1] = x
  BY <1>1
<1>3. /\ s \o t \in Seq(Frames) /\ Len(s \o t) = Len(s) + Len(t)
      /\ \A i \in 1 .. Len(s) + Len(t) :
            (s \o t)[i] = IF i <= Len(s) THEN s[i] ELSE t[i - Len(s)]
  BY ConcatProperties
<1>4. (s \o t)[Len(s) + 1] = x
  <2>1. /\ Len(s) + 1 \in 1 .. Len(s) + Len(t) /\ ~(Len(s) + 1 <= Len(s))
        /\ Len(s) + 1 - Len(s) = 1
    BY <1>1, <1>2
  <2> QED BY <1>2, <1>3, <2>1
<1>5. ASSUME NEW i \in 1 .. Len(s) PROVE (s \o t)[i] = s[i]
  <2>1. i \in 1 .. Len(s) + Len(t) /\ i <= Len(s)
    BY <1>1, <1>2
  <2> QED BY <1>3, <2>1
<1> QED BY <1>1, <1>2, <1>3, <1>4, <1>5

\* The callbacks of an animation are user code, and what its complete or the end of
\* one with queue: false does.
CallbackOf(f, n, outcome) ==
    \/ f.frame \in {"user", "unqueued"}
    \/ f.frame = "dequeue" /\ f.i = n /\ anims[n].queued /\ outcome = "resolved"

LEMMA CallbacksTyped ==
    ASSUME FxTypes, NEW n \in Fx!Ids, NEW outcome, NEW cb, cb = Fx!Callbacks(n, outcome)
    PROVE  /\ cb \in Seq(Frames) /\ Len(cb) \in 1 .. 2
           /\ \A k \in 1 .. Len(cb) : /\ CallbackOf(cb[k], n, outcome)
                                      /\ cb[k].frame = "dequeue" => k = 2
<1>0. n \in Int
  BY DEF Fx!Ids
<1>1. PICK u \in Frames : u = Fx!Frame("user") /\ u.frame = "user"
  BY Plain DEF FrameNames
<1>2. PICK q : q = [Fx!Frame("dequeue") EXCEPT !.i = n]
  OBVIOUS
<1>3. PICK w : w = [Fx!Frame("unqueued") EXCEPT !.i = n]
  OBVIOUS
<1>4. q \in Frames /\ q.frame = "dequeue" /\ q.i = n /\ w \in Frames /\ w.frame = "unqueued"
  <2>1. "dequeue" \in FrameNames /\ "unqueued" \in FrameNames
    BY DEF FrameNames
  <2>2. q \in Frames /\ q.frame = "dequeue" /\ q.i = n
    BY <1>0, <1>2, <2>1, FrameTyped
  <2>3. w \in Frames /\ w.frame = "unqueued"
    BY <1>0, <1>3, <2>1, FrameTyped
  <2> QED BY <2>2, <2>3
<1>o. PICK one : one = <<u>>
  OBVIOUS
<1>5. one \in Seq(Frames) /\ one = <<u>> /\ Len(one) = 1 /\ one[1] = u
  BY <1>o
<1>6. ASSUME NEW x \in Frames, cb = one \o <<x>>
      PROVE  cb \in Seq(Frames) /\ Len(cb) = 2 /\ cb[1] = u /\ cb[2] = x
  <2>1. 2 = Len(one) + 1 /\ 1 \in 1 .. Len(one)
    BY <1>5
  <2> QED BY <1>5, <1>6, <2>1, FrameAfter
<1>7. \A k \in 1 .. 2 : k = 1 \/ k = 2
  OBVIOUS
<1>8. CASE ~anims[n].queued
  <2>1. cb = one \o <<w>>
    BY <1>1, <1>3, <1>5, <1>8 DEF Fx!Callbacks
  <2>2. cb \in Seq(Frames) /\ Len(cb) = 2 /\ cb[1] = u /\ cb[2] = w
    BY <1>4, <1>6, <2>1
  <2> QED BY <1>1, <1>4, <1>7, <2>2 DEF CallbackOf
<1>9. CASE anims[n].queued /\ outcome = "resolved"
  <2>1. cb = one \o <<q>>
    BY <1>1, <1>2, <1>5, <1>9 DEF Fx!Callbacks
  <2>2. cb \in Seq(Frames) /\ Len(cb) = 2 /\ cb[1] = u /\ cb[2] = q
    BY <1>4, <1>6, <2>1
  <2> QED BY <1>1, <1>4, <1>7, <1>9, <2>2 DEF CallbackOf
<1>10. CASE anims[n].queued /\ outcome # "resolved"
  <2>1. one \o <<>> = one
    BY <1>5, ConcatEmptySeq
  <2>2. cb = one
    BY <1>1, <1>5, <1>10, <2>1 DEF Fx!Callbacks
  <2>3. \A k \in 1 .. 1 : k = 1
    OBVIOUS
  <2> QED BY <1>1, <1>5, <2>2, <2>3 DEF CallbackOf
<1> QED BY <1>8, <1>9, <1>10

\* An animation settles: its callbacks are called, and what the innermost call has
\* still to do comes after them.
Settling(n, outcome, rest, x, b, more) ==
    /\ stack # <<>> /\ (rest = <<>> \/ (rest = <<x>> /\ x \in Frames))
    /\ b = Len(stack) - 1
    /\ more = Fx!Callbacks(n, outcome) \o rest /\ stack' = more \o Tail(stack)

\* Only the outcome "resolved" of a queued animation brings a dequeue with it.
CallsBack(n, outcome, rest, x, b, more) ==
    /\ b \in Nat /\ Grows(more, b) /\ Stay(b) /\ Len(more) \in Nat
    /\ rest # <<>> => New(more, b, b + 1) = x /\ Len(more) >= 2
    /\ \A d \in b + 1 .. b + Len(more) :
          \/ d = b + 1 /\ rest # <<>>
          \/ /\ CallbackOf(New(more, b, d), n, outcome)
             /\ New(more, b, d).frame = "dequeue" => d = b + Len(more) - 1

LEMMA CallbacksGrow ==
    ASSUME FxTypes, NEW n \in Fx!Ids, NEW outcome, NEW rest, NEW x, NEW b, NEW more,
           Settling(n, outcome, rest, x, b, more)
    PROVE  CallsBack(n, outcome, rest, x, b, more)
<1>0. /\ stack # <<>> /\ (rest = <<>> \/ (rest = <<x>> /\ x \in Frames))
      /\ b = Len(stack) - 1
      /\ more = Fx!Callbacks(n, outcome) \o rest /\ stack' = more \o Tail(stack)
  BY DEF Settling
<1>1. PICK cb : cb = Fx!Callbacks(n, outcome)
  OBVIOUS
<1>2. /\ cb \in Seq(Frames) /\ Len(cb) \in 1 .. 2
      /\ \A k \in 1 .. Len(cb) : /\ CallbackOf(cb[k], n, outcome)
                                 /\ cb[k].frame = "dequeue" => k = 2
  BY <1>1, CallbacksTyped
<1>3. Len(stack) \in Nat /\ Len(stack) # 0
  BY <1>0, TopUp
<1>4. b \in Nat /\ Stay(b)
  BY <1>0, <1>3 DEF Stay
<1>5. CASE rest = <<>>
  <2>1. more = cb
    BY <1>0, <1>1, <1>2, <1>5, ConcatEmptySeq
  <2>2. Grows(more, b)
    BY <1>0, <1>2, <2>1, ThenGrows
  <2>3. ASSUME NEW d \in b + 1 .. b + Len(more)
        PROVE  /\ CallbackOf(New(more, b, d), n, outcome)
               /\ New(more, b, d).frame = "dequeue" => d = b + Len(more) - 1
    <3>1. PICK k : k = b + Len(more) + 1 - d
      OBVIOUS
    <3>2. k \in 1 .. Len(cb) /\ (k = 2 => d = b + Len(more) - 1)
      BY <1>2, <1>4, <2>1, <3>1
    <3> QED BY <1>2, <2>1, <3>1, <3>2 DEF New
  <2> QED BY <1>2, <1>4, <1>5, <2>1, <2>2, <2>3 DEF CallsBack
<1>6. CASE rest # <<>>
  <2>1. more = cb \o <<x>> /\ x \in Frames
    BY <1>0, <1>1, <1>6
  <2>m. PICK m : m = Len(cb) + 1
    OBVIOUS
  <2>2. /\ more \in Seq(Frames) /\ Len(more) = m /\ more[m] = x
        /\ \A k \in 1 .. Len(cb) : more[k] = cb[k]
    BY <1>2, <2>1, <2>m, FrameAfter
  <2>3. Grows(more, b)
    BY <1>0, <2>2, ThenGrows
  <2>4. ASSUME NEW d \in b + 1 .. b + Len(more), d # b + 1
        PROVE  /\ CallbackOf(New(more, b, d), n, outcome)
               /\ New(more, b, d).frame = "dequeue" => d = b + Len(more) - 1
    <3>1. PICK k : k = b + Len(more) + 1 - d
      OBVIOUS
    <3>2. k \in 1 .. Len(cb) /\ (k = 2 => d = b + Len(more) - 1)
      BY <1>2, <1>4, <2>2, <2>4, <2>m, <3>1
    <3> QED BY <1>2, <2>2, <3>1, <3>2 DEF New
  <2>5. New(more, b, b + 1) = x
    <3>1. b + Len(more) + 1 - (b + 1) = m
      BY <1>2, <1>4, <2>2, <2>m
    <3> QED BY <2>2, <3>1 DEF New
  <2>6. Len(more) \in Nat /\ Len(more) >= 2
    BY <1>2, <2>2, <2>m
  <2> QED BY <1>4, <1>6, <2>3, <2>4, <2>5, <2>6 DEF CallsBack
<1> QED BY <1>5, <1>6

\* What makes the queue go on when an animation that ran is settled, by a tick, by a stop
\* or because there is nothing to animate, and its dequeue is to come.
LEMMA SettledMoves ==
    ASSUME InTurnInv, NEW n \in Fx!Ids, anims[n].state = "pending",
           NEW outcome \in {"resolved", "rejected"}, NEW rest, NEW x, NEW b, NEW more,
           Settling(n, outcome, rest, x, b, more),
           rest # <<>> => x.frame \in {"tick", "stop"},
           Head(stack).frame \in {"tick", "stop", "started"},
           \E left \in Nat, stopped \in BOOLEAN : Fx!Settle(n, outcome, left, stopped),
           UNCHANGED <<queue, hooks, animations, timeouts, calls, finishing, inProgress>>
    PROVE  /\ Grows(more, b) /\ FxTypes' /\ Single' /\ HeldInv' /\ QueueInv' /\ TimersInv'
           /\ Moving' = Moving \ {n}
           /\ SettledStay /\ Settled(n)'
           /\ \A d \in b + 1 .. b + Len(more) :
                 \/ d = b + 1 /\ rest # <<>> /\ New(more, b, d) = x
                 \/ /\ New(more, b, d).frame \in {"user", "unqueued", "dequeue"}
                    /\ FrameOK(New(more, b, d), d)'
                    /\ outcome = "rejected" => ~Begins(New(more, b, d))
<1>0. FxTypes /\ Single /\ HeldInv /\ QueueInv /\ TimersInv
  BY DEF InTurnInv
<1>1. CallsBack(n, outcome, rest, x, b, more)
  BY <1>0, CallbacksGrow
<1>a. /\ b \in Nat /\ Grows(more, b) /\ Stay(b) /\ Len(more) \in Nat
      /\ rest # <<>> => New(more, b, b + 1) = x
      /\ \A d \in b + 1 .. b + Len(more) :
            \/ d = b + 1 /\ rest # <<>>
            \/ /\ CallbackOf(New(more, b, d), n, outcome)
               /\ New(more, b, d).frame = "dequeue" => d = b + Len(more) - 1
  BY <1>1 DEF CallsBack
<1>2. /\ anims' \in [Fx!Ids -> Anims]
      /\ \A m \in Fx!Ids \ {n} : anims'[m] = anims[m]
      /\ anims'[n].state = outcome
      /\ anims'[n].queued = anims[n].queued /\ anims'[n].empty = anims[n].empty
  <2>1. PICK left \in Nat, stopped \in BOOLEAN :
            anims' = [anims EXCEPT ![n].state = outcome, ![n].left = left,
                                   ![n].stopped = stopped]
    BY DEF Fx!Settle
  <2>2. anims \in [Fx!Ids -> Anims]
    BY <1>0 DEF FxTypes
  <2>3. \A m \in Fx!Ids \ {n} : anims'[m] = anims[m]
    BY <2>1, <2>2
  <2>4. anims'[n] = [anims[n] EXCEPT !.state = outcome, !.left = left, !.stopped = stopped]
    BY <2>1, <2>2
  <2>5. anims[n] \in Anims
    BY <2>2
  <2>6. /\ anims'[n] \in Anims /\ anims'[n].state = outcome
        /\ anims'[n].queued = anims[n].queued /\ anims'[n].empty = anims[n].empty
    BY <2>4, <2>5 DEF Anims, States
  <2> QED BY <2>1, <2>2, <2>3, <2>6
<1>3. Moving' = Moving \ {n} /\ (Turns(n)' <=> Turns(n))
  BY <1>2 DEF Moving, Turns
<1>4. Settled(n)' /\ SettledStay
  BY <1>2 DEF Settled, SettledStay
<1>5. ASSUME NEW d \in b + 1 .. b + Len(more)
      PROVE  \/ d = b + 1 /\ rest # <<>> /\ New(more, b, d) = x
             \/ /\ New(more, b, d).frame \in {"user", "unqueued", "dequeue"}
                /\ FrameOK(New(more, b, d), d)'
                /\ outcome = "rejected" => ~Begins(New(more, b, d))
                /\ Opens(New(more, b, d))' => Turns(n) /\ d = b + Len(more) - 1
  <2>1. CASE d = b + 1 /\ rest # <<>>
    BY <1>a, <2>1
  <2>2. CASE ~(d = b + 1 /\ rest # <<>>)
    <3>1. PICK f : f = New(more, b, d)
      OBVIOUS
    <3>2. CallbackOf(f, n, outcome) /\ (f.frame = "dequeue" => d = b + Len(more) - 1)
      BY <1>a, <2>2, <3>1
    <3>3. f.frame \in {"user", "unqueued", "dequeue"}
          /\ (outcome = "rejected" => ~Begins(f))
      BY <3>2 DEF CallbackOf, Begins
    <3>4. f.frame = "dequeue" => f.i = n /\ anims'[n].queued
      BY <1>2, <3>2 DEF CallbackOf
    <3>5. FrameOK(f, d)'
      BY <1>4, <3>3, <3>4 DEF FrameOK
    <3>6. Opens(f)' => Turns(n)
      <4>1. n # 0
        BY DEF Fx!Ids
      <4> QED BY <1>3, <3>3, <3>4, <4>1 DEF Opens
    <3>7. Opens(f)' => f.frame = "dequeue"
      BY <3>3 DEF Opens
    <3> QED BY <3>1, <3>2, <3>3, <3>5, <3>6, <3>7
  <2> QED BY <2>1, <2>2
<1>6. \A d \in Opening' : d \in Opening \/ (d = b + Len(more) - 1 /\ Turns(n))
  <2> SUFFICES ASSUME NEW d \in Opening', d \notin Opening PROVE d = b + Len(more) - 1 /\ Turns(n)
    OBVIOUS
  <2>1. d \in b + 1 .. b + Len(more) /\ Opens(New(more, b, d))'
    BY <1>4, <1>a, GrowsOpening
  <2>2. ~(d = b + 1 /\ rest # <<>> /\ New(more, b, d) = x)
    BY <2>1 DEF Opens
  <2> QED BY <1>5, <2>1, <2>2
<1>7. FxTypes'
  <2>1. \A m \in Fx!Ids : m > calls => anims'[m].state = "none"
    BY <1>0, <1>2 DEF FxTypes
  <2> QED BY <1>0, <1>2, <1>a, <2>1 DEF FxTypes, Grows
<1>8. Single' /\ HeldInv'
  <2>1. CASE Turns(n)
    <3>1. n \in Moving
      BY <2>1 DEF Moving
    <3>2. Moving' = {} /\ timeouts' = {} /\ Opening = {} /\ Held
      BY <1>0, <1>3, <3>1 DEF Single, HeldInv
    <3>3. \A d, e \in Opening' : d = e
      BY <1>6, <3>2
    <3> QED BY <3>2, <3>3 DEF Single, HeldInv, Held
  <2>2. CASE ~Turns(n)
    <3>1. Opening' \subseteq Opening /\ Moving' \subseteq Moving
      BY <1>3, <1>6, <2>2
    <3>2. Held \/ Opening = {}
      BY HeldUnless
    <3> QED BY <3>1, <3>2, Fewer
  <2> QED BY <2>1, <2>2
<1>9. QueueInv'
  <2>1. ASSUME NEW m \in Fx!Ids, InQueue(m)' PROVE anims'[m].state = "queued"
    <3>1. anims[m].state = "queued"
      BY <1>0, <2>1 DEF QueueInv, InQueue
    <3> QED BY <1>2, <3>1
  <2> QED BY <1>0, <2>1 DEF QueueInv
<1>10. TimersInv'
  <2>1. \A j \in 1 .. Len(animations) : animations[j] \in Fx!Ids
    BY <1>0 DEF FxTypes
  <2>2. \A j \in 1 .. Len(animations) : anims'[animations[j]].state \notin {"none", "queued"}
    BY <1>0, <1>2, <2>1 DEF TimersInv
  <2> QED BY <1>0, <1>3, <2>2 DEF TimersInv
<1> QED BY <1>3, <1>4, <1>5, <1>7, <1>8, <1>9, <1>10, <1>a

\* An animation that comes to its end in a tick.
LEMMA TickResolveKeeps == ASSUME InTurnInv, Fx!TickResolve PROVE InTurnInv'
<1>0. FxTypes /\ FramesInv
  BY DEF InTurnInv
<1>1. /\ Fx!In("tick") /\ stack # <<>> /\ Head(stack) \in Frames /\ Head(stack).frame = "tick"
      /\ Fx!Top = Head(stack) /\ Head(stack) = Up(stack, Len(stack)) /\ Len(stack) \in Depths
  BY InTop DEF Fx!TickResolve, Fx!Ticking
<1>2. /\ Head(stack).i \in 1 .. Len(animations)
      /\ UNCHANGED <<queue, hooks, animations, timeouts, inProgress, calls, finishing>>
  BY <1>0, <1>1 DEF Fx!TickResolve, Fx!Ticking, Fx!data, Fx!clock, FxTypes
<1>3. PICK n \in Fx!Ids : n = animations[Head(stack).i]
  BY <1>0, <1>2 DEF FxTypes
<1>4. PICK x : x = [Head(stack) EXCEPT !.ran = n]
  OBVIOUS
<1>5. x \in Frames /\ x.frame = "tick" /\ x.ran = n
  <2>1. n \in Nat
    BY DEF Fx!Ids
  <2> QED BY <1>1, <1>4, <2>1 DEF Frames
<1>r. PICK rest : rest = <<x>> /\ rest # <<>>
  BY EmptySeq
<1>6. PICK more : more = Fx!Callbacks(n, "resolved") \o rest
  OBVIOUS
<1>7. /\ anims[n].state = "pending" /\ Fx!Settle(n, "resolved", 0, FALSE)
      /\ stack' = more \o Tail(stack)
  BY <1>1, <1>3, <1>4, <1>6, <1>r DEF Fx!TickResolve, Fx!Then
<1>b. PICK b : b = Len(stack) - 1
  OBVIOUS
<1>a. Settling(n, "resolved", rest, x, b, more)
  BY <1>1, <1>5, <1>6, <1>7, <1>b, <1>r DEF Settling
<1>8. \E left \in Nat, stopped \in BOOLEAN : Fx!Settle(n, "resolved", left, stopped)
  BY <1>7
<1>9. /\ FxTypes' /\ Single' /\ HeldInv' /\ QueueInv' /\ TimersInv'
      /\ SettledStay /\ Settled(n)'
      /\ \A d \in b + 1 .. b + Len(more) :
            \/ d = b + 1 /\ New(more, b, d) = x
            \/ /\ New(more, b, d).frame \in {"user", "unqueued", "dequeue"}
               /\ FrameOK(New(more, b, d), d)'
  BY <1>1, <1>2, <1>5, <1>7, <1>8, <1>a, SettledMoves
<1>10. b \in Nat /\ Grows(more, b) /\ Stay(b)
  BY <1>0, <1>a, CallbacksGrow DEF CallsBack
<1>11. \A d \in b + 1 .. b + Len(more) : New(more, b, d).frame # "stop"
  BY <1>5, <1>9
<1>12. \A d \in b + 1 .. b + Len(more) : Up(stack', 1).frame # "stop"
  BY <1>1, <1>10, <1>11, <1>b, TickTop
<1>13. NewOK(more, b)
  <2> SUFFICES ASSUME NEW d \in b + 1 .. b + Len(more)
               PROVE  New(more, b, d).frame # "stop" /\ FrameOK(New(more, b, d), d)'
    BY DEF NewOK
  <2>1. CASE New(more, b, d) = x
    BY <1>5, <1>9, <1>12, <2>1 DEF FrameOK, Settled
  <2>2. CASE New(more, b, d) # x
    BY <1>9, <1>11, <2>2
  <2> QED BY <2>1, <2>2
<1>14. ~Stops
  BY <1>0, <1>1 DEF FramesInv, FrameOK, Stops
<1> QED BY <1>1, <1>9, <1>10, <1>13, <1>14, Step DEF StopUndisturbed

\* Nothing is finishing, so an animation that was started is left to its ticks, but one of
\* nothing comes to its end.
LEMMA StartedKeeps == ASSUME InTurnInv, Fx!Started PROVE InTurnInv'
<1>0. FxTypes /\ TimersInv /\ FramesInv
  BY DEF InTurnInv
<1>1. /\ stack # <<>> /\ Head(stack).frame = "started" /\ Fx!Top = Head(stack)
      /\ Head(stack) = Up(stack, Len(stack)) /\ Len(stack) \in Depths
      /\ UNCHANGED <<queue, hooks, animations, timeouts, inProgress, calls, finishing>>
  BY <1>0, InTop DEF Fx!Started, Fx!data, Fx!clock
<1>b. PICK b : b = Len(stack) - 1
  OBVIOUS
<1>n. PICK n \in Fx!Ids : n = Head(stack).i
  BY <1>0, <1>1 DEF FramesInv, FrameOK
<1>2. CASE anims[n].empty /\ anims[n].state = "pending"
  <2>r. PICK rest : rest = <<>>
    OBVIOUS
  <2>x. PICK x : x = 0
    OBVIOUS
  <2>m. PICK more : more = Fx!Callbacks(n, "resolved") \o rest
    OBVIOUS
  <2>1. Fx!StopAnimation(n, TRUE, <<>>)
    BY <1>1, <1>2, <1>n DEF Fx!Started
  <2>2. Fx!Settle(n, "resolved", anims[n].left, TRUE) /\ stack' = more \o Tail(stack)
    BY <2>1, <2>m, <2>r DEF Fx!StopAnimation, Fx!Then
  <2>3. Settling(n, "resolved", rest, x, b, more)
    BY <1>1, <1>b, <2>2, <2>m, <2>r DEF Settling
  <2>4. \E left \in Nat, stopped \in BOOLEAN : Fx!Settle(n, "resolved", left, stopped)
    <3>1. anims[n].left \in Nat
      BY <1>0 DEF FxTypes, Anims
    <3> QED BY <2>2, <3>1
  <2>5. /\ FxTypes' /\ Single' /\ HeldInv' /\ QueueInv' /\ TimersInv' /\ SettledStay
        /\ \A d \in b + 1 .. b + Len(more) :
              /\ New(more, b, d).frame \in {"user", "unqueued", "dequeue"}
              /\ FrameOK(New(more, b, d), d)'
    BY <1>1, <1>2, <2>3, <2>4, <2>r, SettledMoves
  <2>6. b \in Nat /\ Grows(more, b) /\ Stay(b)
    BY <1>0, <2>3, CallbacksGrow DEF CallsBack
  <2>7. NewOK(more, b)
    BY <2>5 DEF NewOK
  <2>8. StopUndisturbed
    <3>1. Beginning # {}
      BY <1>1 DEF Beginning, Begins
    <3> QED BY <1>1, <3>1 DEF StopUndisturbed
  <2> QED BY <1>1, <2>5, <2>6, <2>7, <2>8, Step
<1>3. CASE ~(anims[n].empty /\ anims[n].state = "pending")
  <2>1. stack' = <<>> \o Tail(stack) /\ UNCHANGED anims
    BY <1>0, <1>1, <1>3, <1>n DEF Fx!Started, Fx!Then, FxTypes
  <2>m. PICK more : more = <<>>
    OBVIOUS
  <2>2. b \in Nat /\ Grows(more, b) /\ Stay(b) /\ Len(more) = 0
    BY <1>0, <1>1, <1>b, <2>1, <2>m, NothingGrows
  <2>3. \A d \in b + 1 .. b + Len(more) : FALSE
    BY <2>2
  <2>4. FxTypes'
    BY <1>0, <1>1, <2>1, <2>2 DEF FxTypes, Grows
  <2> QED BY <1>0, <1>1, <2>1, <2>2, <2>3, <2>4, QuietStep DEF NewOK, TimersInv, SameAnims
<1> QED BY <1>2, <1>3

-----------------------------------------------------------------------------
(* What the user calls.                                                    *)

\* The frames of a call come in front of those that are there.
LEMMA CallTop ==
    ASSUME InTurnInv, Fx!Call
    PROVE  /\ stack # <<>> => Head(stack).frame = "user"
           /\ Stay(Len(stack)) /\ Len(stack) \in Nat
           /\ calls' = calls + 1 /\ calls' \in 0 .. MaxCalls /\ Fx!New \in Fx!Ids
           /\ Fx!New = calls + 1 /\ anims[Fx!New].state = "none"
           /\ Held \/ Opening = {}
<1>0. FxTypes
  BY DEF InTurnInv
<1>1. stack # <<>> => Head(stack).frame = "user"
  BY DEF Fx!Call, Fx!In, Fx!Top
<1>2. Stay(Len(stack)) /\ Len(stack) \in Nat
  BY <1>0, <1>1, TopUp DEF Stay
<1>3. /\ calls' = calls + 1 /\ calls' \in 0 .. MaxCalls /\ Fx!New = calls + 1
      /\ Fx!New \in Fx!Ids /\ Fx!New > calls
  BY <1>0, MaxCallsAssumption DEF Fx!Call, Fx!New, FxTypes, Fx!Ids
<1>4. anims[Fx!New].state = "none"
  BY <1>0, <1>3 DEF FxTypes
<1> QED BY <1>1, <1>2, <1>3, <1>4, HeldUnless

\* promise() moves nothing.
LEMMA PromiseCallKeeps == ASSUME InTurnInv, Fx!PromiseCall PROVE InTurnInv'
<1>0. FxTypes /\ TimersInv
  BY DEF InTurnInv
<1>1. /\ Fx!Call
      /\ UNCHANGED <<queue, animations, timeouts, anims, inProgress, finishing, stack>>
  BY DEF Fx!PromiseCall, Fx!clock
<1>2. /\ stack # <<>> => Head(stack).frame = "user"
      /\ Stay(Len(stack)) /\ calls' = calls + 1 /\ calls' \in 0 .. MaxCalls /\ Fx!New \in Fx!Ids
  BY <1>1, CallTop
<1>3. hooks' \in HookSet /\ hooks'.stop = hooks.stop
  <2>1. hooks \in HookSet
    BY <1>0 DEF FxTypes
  <2>2. CASE hooks' = [hooks EXCEPT !.waiting = @ \cup {Fx!New}]
    BY <1>2, <2>1, <2>2 DEF HookSet
  <2>3. CASE UNCHANGED hooks
    BY <2>1, <2>3
  <2> QED BY <2>2, <2>3 DEF Fx!PromiseCall
<1>b. PICK b : b = Len(stack)
  OBVIOUS
<1>m. PICK more : more = <<>>
  OBVIOUS
<1>4. more \in Seq(Frames) /\ Len(more) = 0 /\ more \o stack = stack
  BY <1>0, <1>m, ConcatEmptySeq DEF FxTypes
<1>5. Grows(more, b) /\ Stay(b) /\ b \in Nat
  BY <1>0, <1>1, <1>2, <1>4, <1>b, PushedGrows, TopUp
<1>6. \A d \in b + 1 .. b + Len(more) : FALSE
  BY <1>4, <1>5
<1>7. FxTypes'
  <2>1. \A n \in Fx!Ids : n > calls' => n > calls
    BY <1>0, <1>2 DEF FxTypes, Fx!Ids
  <2> QED BY <1>0, <1>1, <1>2, <1>3, <2>1 DEF FxTypes
<1> QED BY <1>0, <1>1, <1>2, <1>3, <1>5, <1>6, <1>7, QuietStep DEF NewOK, TimersInv, SameAnims

\* The queue with one item more.
LEMMA Appended ==
    ASSUME FxTypes, NEW item \in Items, queue' = Append(queue, item)
    PROVE  /\ queue' \in Seq(Items) /\ Len(queue) \in Nat /\ Len(queue') = Len(queue) + 1
           /\ \A k \in 1 .. Len(queue) : queue'[k] = queue[k]
           /\ queue'[Len(queue) + 1] = item
           /\ item # Fx!InProgress => (Held' <=> Held)
<1>1. queue \in Seq(Items) /\ Len(queue) \in Nat
  BY LenProperties DEF FxTypes
<1>2. /\ queue' \in Seq(Items) /\ Len(queue') = Len(queue) + 1
      /\ \A k \in 1 .. Len(queue) : queue'[k] = queue[k]
      /\ queue'[Len(queue) + 1] = item
  BY <1>1, AppendProperties
<1>3. queue' # <<>> /\ Head(queue') = queue'[1]
  BY <1>1, <1>2, HeadTailProperties, EmptySeq
<1>4. CASE queue = <<>>
  BY <1>2, <1>3, <1>4, EmptySeq DEF Held
<1>5. CASE queue # <<>>
  <2>1. Head(queue) = queue[1] /\ 1 \in 1 .. Len(queue)
    BY <1>1, <1>5, HeadTailProperties, EmptySeq
  <2> QED BY <1>2, <1>3, <1>5, <2>1 DEF Held
<1> QED BY <1>1, <1>2, <1>4, <1>5

\* The animations when one has been created.
LEMMA Created ==
    ASSUME FxTypes, NEW n \in Fx!Ids, NEW ticks \in 1 .. 2, NEW queued \in BOOLEAN,
           NEW empty \in BOOLEAN,
           anims[n].state = "none",
           anims' = [anims EXCEPT ![n] = [state |-> "queued", queued |-> queued, empty |-> empty,
                                          left |-> ticks, stopped |-> FALSE]]
    PROVE  /\ anims' \in [Fx!Ids -> Anims]
           /\ anims'[n].state = "queued"
           /\ anims'[n].queued = queued /\ anims'[n].empty = empty
           /\ \A m \in Fx!Ids \ {n} : anims'[m] = anims[m]
           /\ Moving' = Moving /\ SettledStay
<1>1. anims \in [Fx!Ids -> Anims] /\ ticks \in Nat
  BY DEF FxTypes
<1>2. [state |-> "queued", queued |-> queued, empty |-> empty, left |-> ticks,
        stopped |-> FALSE] \in Anims
  BY <1>1 DEF Anims, States
<1>3. /\ anims' \in [Fx!Ids -> Anims] /\ anims'[n].state = "queued"
      /\ anims'[n].queued = queued /\ anims'[n].empty = empty
      /\ \A m \in Fx!Ids \ {n} : anims'[m] = anims[m]
  BY <1>1, <1>2
<1>4. Moving' = Moving
  BY <1>3 DEF Moving, Turns
<1>5. SettledStay
  BY <1>3 DEF Settled, SettledStay
<1> QED BY <1>3, <1>4, <1>5

\* Unless a callback of stop makes the call, there is no stop further out.
LEMMA NotStopping ==
    ASSUME FxTypes, ~Fx!Stopping
    PROVE  ~Stops
<1>1. stack \in Seq(Frames) /\ Len(stack) \in Nat /\ (stack = <<>> <=> Len(stack) = 0)
  BY TopUp DEF FxTypes
<1>2. stack # <<>> => Len(stack) \in DOMAIN stack
  BY <1>1
<1>3. Len(stack) + 1 - 1 = Len(stack)
  BY <1>1
<1> QED BY <1>2, <1>3 DEF Stops, Up, Fx!Stopping

\* One frame in front of those that are there.
Pushes(x, b, more) ==
    x \in Frames /\ stack' = <<x>> \o stack /\ b = Len(stack) /\ more = <<x>>

\* A call that brings one frame.
LEMMA OnePushed ==
    ASSUME FxTypes, NEW x, NEW b, NEW more, Pushes(x, b, more)
    PROVE  /\ b \in Nat /\ Grows(more, b) /\ Len(more) = 1
           /\ \A d \in b + 1 .. b + Len(more) : d = b + 1 /\ New(more, b, d) = x
           /\ Len(stack') = b + 1 /\ Up(stack', b + 1) = x
<1>0. x \in Frames /\ stack' = <<x>> \o stack /\ b = Len(stack) /\ more = <<x>>
  BY DEF Pushes
<1>1. more \in Seq(Frames) /\ Len(more) = 1 /\ more[1] = x
  BY <1>0
<1>2. b \in Nat
  BY <1>0, TopUp
<1>3. Grows(more, b)
  BY <1>0, <1>1, PushedGrows
<1>4. \A d \in b + 1 .. b + 1 : d = b + 1 /\ b + 1 + 1 - d = 1
  BY <1>2
<1>5. \A d \in b + 1 .. b + Len(more) : d = b + 1 /\ New(more, b, d) = x
  BY <1>1, <1>4 DEF New
<1>6. Len(stack') = b + 1 /\ b + 1 \in b + 1 .. b + Len(more)
  BY <1>1, <1>2, <1>3 DEF Grows
<1>7. Up(stack', b + 1) = x
  BY <1>3, <1>5, <1>6 DEF Grows, New
<1> QED BY <1>1, <1>2, <1>3, <1>5, <1>6, <1>7

\* An item put into the queue, with what it stands for already made.
LEMMA EnqueueKeeps ==
    ASSUME InTurnInv, Fx!Call, ~Fx!Stopping, NEW item \in Items, item # Fx!InProgress,
           Fx!Enqueue(item), UNCHANGED <<animations, timeouts, inProgress, finishing>>,
           anims' \in [Fx!Ids -> Anims], \A m \in Fx!Ids \ {Fx!New} : anims'[m] = anims[m],
           Moving' = Moving, SettledStay,
           item.item = "animation"
           => item = Fx!Animation(Fx!New) /\ anims'[Fx!New].state = "queued"
    PROVE  InTurnInv'
<1>0. FxTypes /\ Single /\ HeldInv /\ QueueInv /\ TimersInv
  BY DEF InTurnInv
<1>1. /\ stack # <<>> => Head(stack).frame = "user"
      /\ Stay(Len(stack)) /\ Len(stack) \in Nat
      /\ calls' = calls + 1 /\ calls' \in 0 .. MaxCalls /\ Fx!New \in Fx!Ids
      /\ Fx!New = calls + 1 /\ anims[Fx!New].state = "none"
      /\ Held \/ Opening = {}
  BY CallTop
<1>2. /\ queue' \in Seq(Items) /\ Len(queue) \in Nat /\ Len(queue') = Len(queue) + 1
      /\ \A k \in 1 .. Len(queue) : queue'[k] = queue[k]
      /\ queue'[Len(queue) + 1] = item
      /\ Held' <=> Held
  BY <1>0, Appended DEF Fx!Enqueue
<1>3. ~Stops
  BY <1>0, NotStopping
<1>4. hooks' \in HookSet /\ hooks'.stop = hooks.stop
  <2>1. hooks \in HookSet
    BY <1>0 DEF FxTypes
  <2> QED BY <2>1 DEF Fx!Enqueue, Fx!EnsuredHooks, HookSet
<1>5. \A n \in Fx!Ids : n > calls' => anims'[n].state = "none"
  <2>1. \A n \in Fx!Ids : n > calls' => n > calls /\ n # Fx!New
    BY <1>0, <1>1 DEF FxTypes, Fx!Ids
  <2> QED BY <1>0, <2>1 DEF FxTypes
<1>b. PICK b : b = Len(stack)
  OBVIOUS
<1>x. PICK x \in Frames : x = Fx!Frame("dequeue") /\ x.frame = "dequeue" /\ x.i = 0
  BY Plain DEF FrameNames
<1>m. PICK more : more = IF Held THEN <<>> ELSE <<x>>
  OBVIOUS
<1>6. /\ Grows(more, b) /\ b \in Nat /\ Len(more) \in Nat
      /\ \A d \in b + 1 .. b + Len(more) :
            /\ New(more, b, d).frame = "dequeue" /\ New(more, b, d).i = 0
            /\ d = Len(stack') /\ ~Held
  <2>0. FxTypes
    BY <1>0
  <2>1. CASE Held
    <3>1. more \in Seq(Frames) /\ Len(more) = 0 /\ stack' = more \o stack
      BY <1>m, <2>1, EmptySeq DEF Fx!Enqueue, Fx!Pushed, Held
    <3>2. Grows(more, b) /\ b \in Nat
      BY <1>1, <1>b, <2>0, <3>1, PushedGrows
    <3>3. \A d \in b + 1 .. b + Len(more) : FALSE
      BY <3>1, <3>2
    <3> QED BY <3>1, <3>2, <3>3
  <2>2. CASE ~Held
    <3>1. stack' = <<x>> \o stack
      BY <1>x, <2>2 DEF Fx!Enqueue, Fx!Pushed, Held
    <3>2. more = <<x>>
      BY <1>m, <2>2
    <3>3. /\ b \in Nat /\ Grows(more, b) /\ Len(more) = 1 /\ Len(stack') = b + 1
          /\ \A d \in b + 1 .. b + Len(more) : d = b + 1 /\ New(more, b, d) = x
      <4>1. Pushes(x, b, more)
        BY <1>b, <3>1, <3>2 DEF Pushes
      <4> QED BY <2>0, <4>1, OnePushed
    <3> QED BY <1>x, <2>2, <3>3
  <2> QED BY <2>1, <2>2
<1>7. Stay(b)
  BY <1>1, <1>b
<1>8. FxTypes'
  BY <1>0, <1>1, <1>2, <1>4, <1>5, <1>6 DEF FxTypes, Grows
<1>9. \A d \in Opening' : d \in Opening \/ (d = Len(stack') /\ ~Held /\ Up(stack', d).frame = "dequeue")
  <2>1. \A d \in b + 1 .. b + Len(more) : Up(stack', d) = New(more, b, d)
    BY <1>6 DEF Grows, New
  <2> QED BY <1>6, <1>7, <2>1, GrowsOpening
<1>10. Single'
  <2>1. CASE Held
    BY <1>0, <1>9, <2>1 DEF Single
  <2>2. CASE ~Held
    <3>1. Moving = {} /\ timeouts = {} /\ Opening = {}
      BY <1>0, <1>1, <2>2 DEF HeldInv
    <3> QED BY <1>9, <3>1 DEF Single
  <2> QED BY <2>1, <2>2
<1>11. HeldInv'
  <2> SUFFICES ASSUME ~Held
               PROVE  /\ Moving' = {} /\ timeouts' = {}
                      /\ \A d \in Opening' : d = Len(stack') /\ Up(stack', d).frame = "dequeue"
    BY <1>2 DEF HeldInv
  <2>1. Moving = {} /\ timeouts = {} /\ Opening = {}
    BY <1>0, <1>1 DEF HeldInv
  <2> QED BY <1>9, <2>1
<1>12. ASSUME NEW k \in 1 .. Len(queue')
       PROVE  (k \in 1 .. Len(queue) /\ queue'[k] = queue[k]) \/ (k = Len(queue) + 1 /\ queue'[k] = item)
  <2>1. k \in 1 .. Len(queue) \/ k = Len(queue) + 1
    BY <1>2
  <2> QED BY <1>2, <2>1
<1>13. ASSUME NEW k \in 1 .. Len(queue) PROVE queue[k] # Fx!Animation(Fx!New)
  <2>1. InQueue(Fx!New) => anims[Fx!New].state = "queued"
    BY <1>0, <1>1 DEF QueueInv
  <2> QED BY <1>1, <2>1 DEF InQueue
<1>14. QueueInv'
  <2>1. timeouts' \subseteq {hooks'.stop}
    BY <1>0, <1>4 DEF QueueInv
  <2>2. ASSUME NEW n \in Fx!Ids, InQueue(n)' PROVE anims'[n].state = "queued"
    <3>1. PICK k \in 1 .. Len(queue') : queue'[k] = Fx!Animation(n)
      BY <2>2 DEF InQueue
    <3>2. CASE k \in 1 .. Len(queue) /\ queue'[k] = queue[k]
      <4>1. anims[n].state = "queued"
        BY <1>0, <3>1, <3>2 DEF QueueInv, InQueue
      <4>2. n # Fx!New
        BY <1>1, <4>1
      <4> QED BY <4>1, <4>2
    <3>3. CASE queue'[k] = item
      <4>1. item.item = "animation" /\ item.id = n
        BY <3>1, <3>3 DEF Fx!Animation
      <4>2. n = Fx!New
        BY <4>1 DEF Fx!Animation
      <4> QED BY <4>1, <4>2
    <3> QED BY <1>12, <3>2, <3>3
  <2>3. ASSUME NEW j \in 1 .. Len(queue'), NEW k \in 1 .. Len(queue'),
               queue'[j] = queue'[k], queue'[j].item = "animation"
        PROVE  j = k
    <3>1. CASE j \in 1 .. Len(queue) /\ queue'[j] = queue[j] /\ k \in 1 .. Len(queue) /\ queue'[k] = queue[k]
      BY <1>0, <2>3, <3>1 DEF QueueInv
    <3>2. CASE j = Len(queue) + 1 /\ k = Len(queue) + 1
      BY <3>2
    <3>3. CASE j \in 1 .. Len(queue) /\ queue'[j] = queue[j] /\ queue'[k] = item
      BY <1>13, <2>3, <3>3
    <3>4. CASE queue'[j] = item /\ k \in 1 .. Len(queue) /\ queue'[k] = queue[k]
      BY <1>13, <2>3, <3>4
    <3> QED BY <1>12, <3>1, <3>2, <3>3, <3>4
  <2> QED BY <2>1, <2>2, <2>3 DEF QueueInv
<1>15. TimersInv'
  <2>1. \A j \in 1 .. Len(animations) : animations[j] \in Fx!Ids
    BY <1>0 DEF FxTypes
  <2>2. \A j \in 1 .. Len(animations) : anims'[animations[j]].state \notin {"none", "queued"}
    BY <1>0, <1>1, <2>1 DEF TimersInv
  <2> QED BY <1>0, <2>2 DEF TimersInv
<1>16. NewOK(more, b)
  BY <1>6 DEF NewOK, FrameOK
<1> QED BY <1>1, <1>3, <1>6, <1>7, <1>8, <1>10, <1>11, <1>14, <1>15, <1>16, Step DEF StopUndisturbed

\* animate, delay, and animate with queue: false.
LEMMA AnimateKeeps == ASSUME InTurnInv, Fx!Animate, ~nested' PROVE InTurnInv'
<1>0. FxTypes
  BY DEF InTurnInv
<1>1. /\ Fx!Call /\ ~Fx!Stopping /\ Fx!Enqueue(Fx!Animation(Fx!New))
      /\ UNCHANGED <<animations, timeouts, inProgress, finishing>>
  BY DEF Fx!Animate, Fx!Nests, Fx!clock
<1>2. Fx!New \in Fx!Ids /\ anims[Fx!New].state = "none"
  BY <1>1, CallTop
<1>3. PICK ticks \in 1 .. 2 :
        anims' = [anims EXCEPT ![Fx!New] = [state |-> "queued", queued |-> TRUE,
                                            empty |-> FALSE, left |-> ticks, stopped |-> FALSE]]
  BY DEF Fx!Animate, Fx!Make
<1>4. /\ anims' \in [Fx!Ids -> Anims] /\ anims'[Fx!New].state = "queued"
      /\ \A m \in Fx!Ids \ {Fx!New} : anims'[m] = anims[m]
      /\ Moving' = Moving /\ SettledStay
  BY <1>0, <1>2, <1>3, Created
<1>5. Fx!Animation(Fx!New) \in Items /\ Fx!Animation(Fx!New) # Fx!InProgress
  BY <1>2 DEF Items, Fx!Animation, Fx!InProgress
<1> QED BY <1>1, <1>4, <1>5, EnqueueKeeps

LEMMA DelayKeeps == ASSUME InTurnInv, Fx!DelayCall, ~nested' PROVE InTurnInv'
<1>0. FxTypes
  BY DEF InTurnInv
<1>1. /\ Fx!Call /\ ~Fx!Stopping /\ Fx!Enqueue(Fx!Delay(Fx!New))
      /\ UNCHANGED <<animations, timeouts, inProgress, finishing, anims>>
  BY DEF Fx!DelayCall, Fx!Nests, Fx!clock
<1>2. Fx!New \in Fx!Ids
  BY <1>1, CallTop
<1>3. /\ anims' \in [Fx!Ids -> Anims] /\ Moving' = Moving
      /\ SettledStay
  BY <1>0, <1>1 DEF FxTypes, Moving, Turns, SettledStay, Settled
<1>4. /\ Fx!Delay(Fx!New) \in Items /\ Fx!Delay(Fx!New) # Fx!InProgress
      /\ Fx!Delay(Fx!New).item # "animation"
  BY <1>2 DEF Items, Fx!Delay, Fx!InProgress
<1> QED BY <1>1, <1>3, <1>4, EnqueueKeeps

LEMMA AnimateNowKeeps == ASSUME InTurnInv, Fx!AnimateNow, ~nested' PROVE InTurnInv'
<1>0. FxTypes /\ QueueInv /\ TimersInv
  BY DEF InTurnInv
<1>1. /\ Fx!Call /\ ~Fx!Stopping
      /\ UNCHANGED <<queue, hooks, animations, timeouts, inProgress, finishing>>
  BY DEF Fx!AnimateNow, Fx!Nests, Fx!clock, Fx!data
<1>2. /\ stack # <<>> => Head(stack).frame = "user"
      /\ Stay(Len(stack)) /\ Len(stack) \in Nat
      /\ calls' = calls + 1 /\ calls' \in 0 .. MaxCalls /\ Fx!New \in Fx!Ids
      /\ Fx!New = calls + 1 /\ anims[Fx!New].state = "none"
      /\ Held \/ Opening = {}
  BY <1>1, CallTop
<1>3. PICK ticks \in 1 .. 2, queued \in BOOLEAN, empty \in BOOLEAN :
        /\ ~queued \/ empty
        /\ anims' = [anims EXCEPT ![Fx!New] = [state |-> "queued", queued |-> queued,
                                               empty |-> empty, left |-> ticks,
                                               stopped |-> FALSE]]
  <2>1. CASE \E ticks \in 1 .. 2 : Fx!Make(FALSE, FALSE, ticks)
    BY <2>1 DEF Fx!Make
  <2>2. CASE \E queued \in BOOLEAN : Fx!Make(queued, TRUE, 1)
    <3>1. 1 \in 1 .. 2
      OBVIOUS
    <3> QED BY <2>2, <3>1 DEF Fx!Make
  <2> QED BY <2>1, <2>2 DEF Fx!AnimateNow
<1>4. /\ anims' \in [Fx!Ids -> Anims] /\ anims'[Fx!New].state = "queued"
      /\ ~anims'[Fx!New].queued \/ anims'[Fx!New].empty
      /\ \A m \in Fx!Ids \ {Fx!New} : anims'[m] = anims[m]
      /\ Moving' = Moving /\ SettledStay
  BY <1>0, <1>2, <1>3, Created
<1>5. PICK x : x = [Fx!Frame("start") EXCEPT !.i = Fx!New]
  OBVIOUS
<1>6. x \in Frames /\ x.frame = "start" /\ x.ran = 0 /\ x.i = Fx!New
  <2>1. Fx!New \in Int
    BY <1>2 DEF Fx!Ids
  <2> QED BY <1>5, <2>1, FrameTyped DEF FrameNames
<1>7. PICK more : more = <<x>>
  OBVIOUS
<1>b. PICK b : b = Len(stack)
  OBVIOUS
<1>8. /\ b \in Nat /\ Grows(more, b) /\ Len(more) = 1 /\ Len(stack') = b + 1
      /\ \A d \in b + 1 .. b + Len(more) : d = b + 1 /\ New(more, b, d) = x
  <2>1. Pushes(x, b, more)
    BY <1>5, <1>6, <1>7, <1>b DEF Pushes, Fx!AnimateNow, Fx!Pushed
  <2> QED BY <1>0, <2>1, OnePushed
<1>9. Stay(b)
  BY <1>2, <1>b
<1>10. Opening' \subseteq Opening
  BY <1>4, <1>6, <1>8, <1>9, GrowsOpening DEF Opens, Turns
<1>11. Single' /\ HeldInv'
  BY <1>1, <1>2, <1>4, <1>10, Fewer
<1>12. ~InQueue(Fx!New)
  BY <1>0, <1>2 DEF QueueInv
<1>13. QueueInv'
  <2>1. ASSUME NEW n \in Fx!Ids, InQueue(n)' PROVE anims'[n].state = "queued"
    <3>1. InQueue(n)
      BY <1>1, <2>1 DEF InQueue
    <3> QED BY <1>0, <1>4, <1>12, <3>1 DEF QueueInv
  <2> QED BY <1>0, <1>1, <2>1 DEF QueueInv
<1>14. TimersInv'
  <2>1. \A j \in 1 .. Len(animations) : animations[j] \in Fx!Ids
    BY <1>0 DEF FxTypes
  <2>2. \A j \in 1 .. Len(animations) : anims'[animations[j]].state \notin {"none", "queued"}
    BY <1>0, <1>2, <1>4, <2>1 DEF TimersInv
  <2> QED BY <1>0, <1>1, <1>4, <2>2 DEF TimersInv
<1>15. NewOK(more, b)
  <2>1. PICK n \in Fx!Ids : n = Fx!New
    BY <1>2
  <2>2. ~InQueue(n)' /\ anims'[n].state = "queued" /\ x.i = n
    BY <1>1, <1>4, <1>6, <1>12, <2>1 DEF InQueue
  <2>3. FrameOK(x, b + 1)'
    BY <1>6, <1>8, <2>2 DEF FrameOK
  <2> QED BY <1>6, <1>8, <2>3 DEF NewOK
<1>16. FxTypes'
  <2>1. \A n \in Fx!Ids : n > calls' => n > calls /\ n # Fx!New
    BY <1>0, <1>2 DEF FxTypes, Fx!Ids
  <2>2. \A n \in Fx!Ids : n > calls' => anims'[n].state = "none"
    BY <1>0, <1>4, <2>1 DEF FxTypes
  <2> QED BY <1>0, <1>1, <1>2, <1>4, <1>8, <2>2 DEF FxTypes, Grows
<1>17. ~Stops
  BY <1>0, <1>1, NotStopping
<1> QED BY <1>2, <1>4, <1>8, <1>9, <1>11, <1>13, <1>14, <1>15, <1>16, <1>17, Step
        DEF StopUndisturbed

\* A stop that nobody is inside of, and the first step of a dequeue.
LEMMA OnlyFrame ==
    ASSUME NEW x \in Frames, stack' = <<x>>
    PROVE  /\ stack' \in Seq(Frames) /\ Len(stack') = 1 /\ stack' # <<>> /\ Depths' = {1}
           /\ Up(stack', 1) = x /\ \A d \in Depths' : d = 1
<1>1. stack' \in Seq(Frames) /\ Len(stack') = 1 /\ stack'[1] = x
  OBVIOUS
<1>2. Up(stack', 1) = x
  BY <1>1 DEF Up
<1>3. Depths' = {1}
  BY <1>1 DEF Depths
<1> QED BY <1>1, <1>2, <1>3

\* What comes in the place of the only call.
LEMMA OnlyOne ==
    ASSUME NEW x \in Frames, Tail(stack) = <<>>, stack' = <<x>> \o Tail(stack)
    PROVE  stack' = <<x>>
<1>0. PICK one : one = <<x>>
  OBVIOUS
<1>1. one \in Seq(Frames)
  BY <1>0
<1>2. stack' = one \o <<>>
  BY <1>0
<1>3. one \o <<>> = one
  BY ConcatEmptySeq
<1> QED BY <1>0, <1>2, <1>3

\* stop() and stop( false, true ), called by nobody's callback.
LEMMA StopCallKeeps == ASSUME InTurnInv, Fx!StopCall, ~nested', ~cleared' PROVE InTurnInv'
<1>0. FxTypes /\ Single /\ HeldInv /\ QueueInv /\ TimersInv
  BY DEF InTurnInv
<1>1. /\ Fx!Call /\ ~Fx!In("user") /\ stack = <<>>
      /\ UNCHANGED <<animations, anims, timeouts, inProgress, finishing>>
  BY DEF Fx!StopCall, Fx!Nests, Fx!Call, Fx!clock
<1>2. PICK gotoEnd \in BOOLEAN :
        /\ stack' = <<[Fx!Frame("stop") EXCEPT !.i = -1, !.gotoEnd = gotoEnd]>> \o stack
        /\ UNCHANGED <<queue, hooks>>
  BY DEF Fx!StopCall, Fx!Clear, Fx!Pushed, Fx!data
<1>3. PICK f \in Frames : f = Fx!Frame("stop") /\ f.frame = "stop" /\ f.ran = 0 /\ f.dequeue = TRUE
  <2>1. "stop" \in FrameNames
    BY DEF FrameNames
  <2>2. Fx!Frame("stop") \in Frames /\ Fx!Frame("stop").frame = "stop" /\ Fx!Frame("stop").ran = 0
    BY <2>1, Plain
  <2> QED BY <2>2 DEF Fx!Frame
<1>4. PICK x : x = [f EXCEPT !.i = -1, !.gotoEnd = gotoEnd]
  OBVIOUS
<1>5. x \in Frames /\ x.frame = "stop" /\ x.ran = 0 /\ x.i = -1 /\ x.dequeue = TRUE
  <2>1. PICK i \in Int : i = -1
    OBVIOUS
  <2>2. x = [f EXCEPT !.i = i, !.gotoEnd = gotoEnd]
    BY <1>4, <2>1
  <2>3. x \in Frames /\ x.frame = "stop" /\ x.ran = 0 /\ x.i = i /\ x.dequeue = TRUE
    BY <1>3, <2>2 DEF Frames
  <2> QED BY <2>1, <2>3
<1>6. stack' = <<x>>
  BY <1>1, <1>2, <1>3, <1>4
<1>7. /\ stack' \in Seq(Frames) /\ Len(stack') = 1 /\ stack' # <<>> /\ Depths' = {1}
      /\ Up(stack', 1) = x
  BY <1>5, <1>6, OnlyFrame
<1>8. /\ calls' = calls + 1 /\ calls' \in 0 .. MaxCalls /\ Fx!New \in Fx!Ids
  BY <1>1, CallTop
<1>9. FxTypes'
  <2>1. \A n \in Fx!Ids : n > calls' => n > calls
    BY <1>0, <1>8 DEF FxTypes, Fx!Ids
  <2> QED BY <1>0, <1>1, <1>2, <1>7, <1>8, <2>1 DEF FxTypes
<1>10. Moving' = Moving /\ Opening' = {}
  BY <1>1, <1>5, <1>7 DEF Moving, Turns, Opening, Opens
<1>11. Single' /\ HeldInv'
  BY <1>0, <1>1, <1>2, <1>10 DEF Single, HeldInv, Held
<1>12. QueueInv' /\ TimersInv'
  BY <1>0, <1>1, <1>2, <1>10 DEF QueueInv, TimersInv, InQueue
<1>13. FramesInv'
  BY <1>5, <1>7 DEF FramesInv, FrameOK
<1>14. StopInv'
  <2>1. StopOK(x)'
    BY <1>5, <1>7 DEF StopOK
  <2> QED BY <1>7, <2>1 DEF StopInv, StopOK
<1> QED BY <1>9, <1>11, <1>12, <1>13, <1>14 DEF InTurnInv

\* A delay is over: it was all that made the queue go on, and gives way to a dequeue.
LEMMA TimeoutKeeps == ASSUME InTurnInv, Fx!Timeout PROVE InTurnInv'
<1>0. FxTypes /\ Single /\ HeldInv /\ QueueInv /\ TimersInv
  BY DEF InTurnInv
<1>1. /\ stack = <<>> /\ stack' = <<Fx!Frame("dequeue")>>
      /\ UNCHANGED <<queue, hooks, animations, anims, inProgress, calls, finishing>>
      /\ \E n \in timeouts : timeouts' = timeouts \ {n}
  BY DEF Fx!Timeout, Fx!data, Fx!clock
<1>2. timeouts' = {} /\ timeouts # {}
  BY <1>0, <1>1 DEF Single
<1>3. PICK x \in Frames : x = Fx!Frame("dequeue") /\ x.frame = "dequeue" /\ x.i = 0
  BY Plain DEF FrameNames
<1>4. /\ stack' \in Seq(Frames) /\ Len(stack') = 1 /\ stack' # <<>> /\ Depths' = {1}
      /\ Up(stack', 1) = x
  BY <1>1, <1>3, OnlyFrame
<1>5. FxTypes'
  BY <1>0, <1>1, <1>2, <1>4 DEF FxTypes
<1>6. Moving' = {} /\ Opening' = {1}
  <2>1. Moving = {} /\ Moving' = Moving
    BY <1>0, <1>1, <1>2 DEF Single, Moving, Turns
  <2> QED BY <1>3, <1>4, <2>1 DEF Opening, Opens
<1>7. Single' /\ HeldInv'
  BY <1>2, <1>3, <1>4, <1>6 DEF Single, HeldInv
<1>8. QueueInv' /\ TimersInv'
  BY <1>0, <1>1, <1>2, <1>6 DEF QueueInv, TimersInv, InQueue
<1>9. FramesInv' /\ StopInv'
  BY <1>3, <1>4 DEF FramesInv, FrameOK, StopInv, Stops
<1> QED BY <1>5, <1>7, <1>8, <1>9 DEF InTurnInv

-----------------------------------------------------------------------------
(* dequeue.                                                                *)

\* The queue without the sentinel; what is first in it comes behind a new one.
LEMMA Advanced ==
    ASSUME FxTypes, Fx!Waiting # <<>>, queue' = <<Fx!InProgress>> \o Tail(Fx!Waiting)
    PROVE  /\ queue' \in Seq(Items) /\ Held' /\ Len(queue) \in Nat /\ Len(queue') \in Nat
           /\ queue'[1] = Fx!InProgress
           /\ \E o \in 0 .. 1 :
                 /\ 1 + o \in 1 .. Len(queue) /\ Head(Fx!Waiting) = queue[1 + o]
                 /\ Len(queue') = Len(queue) - o
                 /\ \A k \in 2 .. Len(queue') : queue'[k] = queue[k + o]
<1>1. queue \in Seq(Items) /\ Len(queue) \in Nat
  BY LenProperties DEF FxTypes
<1>2. PICK w : w = Fx!Waiting
  OBVIOUS
<1>3. PICK o \in 0 .. 1 :
        /\ w \in Seq(Items) /\ Len(w) = Len(queue) - o
        /\ \A k \in 1 .. Len(w) : w[k] = queue[k + o]
  <2>1. CASE queue # <<>> /\ Head(queue) = Fx!InProgress
    <3>1. w = Tail(queue)
      BY <1>2, <2>1 DEF Fx!Waiting
    <3>2. /\ w \in Seq(Items) /\ Len(w) = Len(queue) - 1
          /\ \A k \in 1 .. Len(queue) - 1 : w[k] = queue[k + 1]
      BY <1>1, <2>1, <3>1, HeadTailProperties
    <3> QED BY <3>2
  <2>2. CASE ~(queue # <<>> /\ Head(queue) = Fx!InProgress)
    <3>1. w = queue
      BY <1>2, <2>2 DEF Fx!Waiting
    <3>2. PICK o \in 0 .. 1 : o = 0
      OBVIOUS
    <3>3. Len(w) = Len(queue) - o /\ \A k \in 1 .. Len(w) : k + o = k
      BY <1>1, <3>1, <3>2
    <3>4. \A k \in 1 .. Len(w) : w[k] = queue[k + o]
      BY <3>1, <3>3
    <3> QED BY <1>1, <3>1, <3>3, <3>4
  <2> QED BY <2>1, <2>2
<1>4. PICK t : t = Tail(w)
  OBVIOUS
<1>5. w # <<>> /\ Len(w) \in Nat /\ Len(w) # 0
  BY <1>2, <1>3, EmptySeq, LenProperties
<1>6. /\ Head(w) = w[1] /\ t \in Seq(Items) /\ Len(t) = Len(w) - 1
      /\ \A i \in 1 .. Len(w) - 1 : t[i] = w[i + 1]
  BY <1>3, <1>4, <1>5, HeadTailProperties
<1>7. PICK one : one = <<Fx!InProgress>>
  OBVIOUS
<1>8. one \in Seq(Items) /\ Len(one) = 1 /\ one[1] = Fx!InProgress
  BY <1>7 DEF Items
<1>9. queue' = one \o t
  BY <1>2, <1>4, <1>7
<1>10. /\ queue' \in Seq(Items) /\ Len(queue') = 1 + Len(t)
       /\ \A i \in 1 .. 1 + Len(t) : queue'[i] = IF i <= 1 THEN one[i] ELSE t[i - 1]
  <2>1. PICK q : q = one \o t
    OBVIOUS
  <2>2. /\ q \in Seq(Items) /\ Len(q) = Len(one) + Len(t)
        /\ \A i \in 1 .. Len(one) + Len(t) :
              q[i] = IF i <= Len(one) THEN one[i] ELSE t[i - Len(one)]
    <3>1. one \in Seq(Items) /\ t \in Seq(Items)
      BY <1>6, <1>8
    <3> QED BY ONLY <3>1, <2>1, ConcatProperties
  <2>3. q = queue' /\ Len(one) = 1
    BY <1>8, <1>9, <2>1
  <2> QED BY <2>2, <2>3
<1>11. Len(t) \in Nat /\ Len(queue') = Len(w)
  BY <1>5, <1>6, <1>10
<1>12. queue'[1] = Fx!InProgress
  <2>1. 1 \in 1 .. 1 + Len(t) /\ 1 <= 1
    BY <1>11
  <2> QED BY <1>8, <1>10, <2>1
<1>13. Held'
  <2>1. queue' # <<>>
    BY <1>5, <1>11, EmptySeq
  <2>2. Head(queue') = queue'[1]
    BY <1>10, <2>1, HeadTailProperties
  <2> QED BY <1>12, <2>1, <2>2 DEF Held
<1>14. 1 + o \in 1 .. Len(queue) /\ Head(w) = queue[1 + o]
  <2>1. 1 \in 1 .. Len(w) /\ 1 + o \in 1 .. Len(queue)
    BY <1>1, <1>3, <1>5
  <2> QED BY <1>3, <1>6, <2>1
<1>15. ASSUME NEW k \in 2 .. Len(queue') PROVE queue'[k] = queue[k + o]
  <2>1. /\ k \in 1 .. 1 + Len(t) /\ ~(k <= 1) /\ k - 1 \in 1 .. Len(w) - 1 /\ k - 1 + 1 = k
        /\ k \in 1 .. Len(w)
    BY <1>5, <1>6, <1>10, <1>11
  <2>2. queue'[k] = t[k - 1] /\ t[k - 1] = w[k - 1 + 1]
    BY <1>6, <1>10, <2>1
  <2> QED BY <1>3, <2>1, <2>2
<1>16. Len(queue') = Len(queue) - o
  BY <1>3, <1>11
<1> QED BY <1>1, <1>2, <1>5, <1>10, <1>11, <1>12, <1>13, <1>14, <1>15, <1>16

\* What it says of the animations in the queue.
LEMMA AdvancedQueue ==
    ASSUME InTurnInv, Fx!Waiting # <<>>, queue' = <<Fx!InProgress>> \o Tail(Fx!Waiting)
    PROVE  /\ Head(Fx!Waiting) \in Items
           /\ \A n \in Fx!Ids : InQueue(n)' => InQueue(n)
           /\ \A j, k \in 1 .. Len(queue') :
                 queue'[j] = queue'[k] /\ queue'[j].item = "animation" => j = k
           /\ \A n \in Fx!Ids : Head(Fx!Waiting) = Fx!Animation(n) => InQueue(n) /\ ~InQueue(n)'
<1>0. FxTypes /\ QueueInv
  BY DEF InTurnInv
<1>1. /\ queue \in Seq(Items) /\ queue' \in Seq(Items) /\ Len(queue) \in Nat /\ Len(queue') \in Nat
      /\ queue'[1] = Fx!InProgress
  BY <1>0, Advanced DEF FxTypes
<1>2. PICK o \in 0 .. 1 :
        /\ 1 + o \in 1 .. Len(queue) /\ Head(Fx!Waiting) = queue[1 + o]
        /\ Len(queue') = Len(queue) - o
        /\ \A k \in 2 .. Len(queue') : queue'[k] = queue[k + o]
  BY <1>0, Advanced
<1>3. Head(Fx!Waiting) \in Items
  BY <1>1, <1>2, ElementOfSeq
<1>4. ASSUME NEW k \in 1 .. Len(queue'), queue'[k].item = "animation"
      PROVE  k \in 2 .. Len(queue') /\ k + o \in 1 .. Len(queue) /\ queue'[k] = queue[k + o]
             /\ k + o # 1 + o
  <2>1. k # 1
    BY <1>1, <1>4 DEF Fx!InProgress
  <2>2. k \in 2 .. Len(queue') /\ k + o \in 1 .. Len(queue) /\ k + o # 1 + o
    BY <1>1, <1>2, <2>1
  <2> QED BY <1>2, <2>2
<1>5. ASSUME NEW n \in Fx!Ids, InQueue(n)' PROVE InQueue(n)
  <2>1. PICK k \in 1 .. Len(queue') : queue'[k] = Fx!Animation(n)
    BY <1>5 DEF InQueue
  <2>2. queue'[k].item = "animation"
    BY <2>1 DEF Fx!Animation
  <2> QED BY <1>4, <2>1, <2>2 DEF InQueue
<1>6. ASSUME NEW j \in 1 .. Len(queue'), NEW k \in 1 .. Len(queue'),
             queue'[j] = queue'[k], queue'[j].item = "animation"
      PROVE  j = k
  <2>1. /\ j + o \in 1 .. Len(queue) /\ queue'[j] = queue[j + o]
        /\ k + o \in 1 .. Len(queue) /\ queue'[k] = queue[k + o]
    BY <1>4, <1>6
  <2>2. j + o = k + o
    BY <1>0, <1>6, <2>1 DEF QueueInv
  <2> QED BY <1>1, <2>2
<1>7. ASSUME NEW n \in Fx!Ids, Head(Fx!Waiting) = Fx!Animation(n) PROVE InQueue(n) /\ ~InQueue(n)'
  <2>1. InQueue(n)
    BY <1>2, <1>7 DEF InQueue
  <2>2. SUFFICES ASSUME InQueue(n)' PROVE FALSE
    BY <2>1
  <2>3. PICK k \in 1 .. Len(queue') : queue'[k] = Fx!Animation(n)
    BY <2>2 DEF InQueue
  <2>4. queue'[k].item = "animation"
    BY <2>3 DEF Fx!Animation
  <2>5. k + o \in 1 .. Len(queue) /\ queue'[k] = queue[k + o] /\ k + o # 1 + o
    BY <1>4, <2>4
  <2>6. queue[k + o] = queue[1 + o] /\ queue[k + o].item = "animation"
    BY <1>2, <1>7, <2>3, <2>4, <2>5
  <2> QED BY <1>0, <1>2, <2>5, <2>6 DEF QueueInv
<1> QED BY <1>3, <1>5, <1>6, <1>7

\* A dequeue that is the innermost call is the only thing that makes the queue go on.
\* The one of an animation of nothing is not, but unless it comes beside what is in
\* progress there is nothing else.
LEMMA DequeueAlone ==
    ASSUME InTurnInv, Fx!In("dequeue"), Fx!Hurries, ~hurried'
    PROVE  Opening \subseteq {Len(stack)} /\ Moving = {} /\ timeouts = {}
           /\ Len(stack) \in Beginning
<1>0. Single /\ HeldInv /\ FramesInv
  BY DEF InTurnInv
<1>1. PICK f : f = Head(stack)
  OBVIOUS
<1>2. f.frame = "dequeue" /\ Fx!Top = f /\ f = Up(stack, Len(stack)) /\ Len(stack) \in Depths
  BY <1>1, InTop
<1>3. Len(stack) \in Beginning
  BY <1>2 DEF Beginning, Begins
<1>4. CASE Opens(f)
  <2>1. Len(stack) \in Opening
    BY <1>2, <1>4 DEF Opening, Opens
  <2> QED BY <1>0, <1>3, <2>1 DEF Single
<1>5. CASE ~Opens(f)
  <2>1. f.i # 0 /\ ~Turns(f.i)
    BY <1>2, <1>5 DEF Opens
  <2>2. anims[f.i].queued
    BY <1>0, <1>2, <2>1 DEF FramesInv, FrameOK
  <2>3. anims[f.i].empty
    BY <2>1, <2>2 DEF Turns
  <2>4. ~Held
    BY <1>2, <2>1, <2>3 DEF Fx!Hurries, Held
  <2> QED BY <1>0, <1>3, <2>4 DEF HeldInv
<1> QED BY <1>4, <1>5

\* A dequeue passes its turn on to an animation, to a delay, or to nobody.
LEMMA DequeueAnimationKeeps == ASSUME InTurnInv, Fx!DequeueAnimation, ~hurried' PROVE InTurnInv'
<1>0. FxTypes /\ QueueInv /\ TimersInv
  BY DEF InTurnInv
<1>1. /\ Fx!In("dequeue") /\ stack # <<>> /\ Head(stack).frame = "dequeue"
      /\ Fx!Waiting # <<>> /\ queue' = <<Fx!InProgress>> \o Tail(Fx!Waiting)
      /\ UNCHANGED <<animations, anims, timeouts, finishing, inProgress, calls>>
  BY InTop DEF Fx!DequeueAnimation, Fx!clock
<1>2. /\ Opening \subseteq {Len(stack)} /\ Moving = {} /\ timeouts = {} /\ Len(stack) \in Nat
      /\ Beginning # {}
  BY <1>1, DequeueAlone, InTop DEF Fx!DequeueAnimation
<1>3. /\ queue' \in Seq(Items) /\ Held'
      /\ Head(Fx!Waiting) \in Items /\ Head(Fx!Waiting).item = "animation"
      /\ \A m \in Fx!Ids : InQueue(m)' => InQueue(m)
      /\ \A j, k \in 1 .. Len(queue') :
            queue'[j] = queue'[k] /\ queue'[j].item = "animation" => j = k
  BY <1>0, <1>1, Advanced, AdvancedQueue DEF Fx!DequeueAnimation
<1>4. PICK n \in Fx!Ids : n = Head(Fx!Waiting).id /\ Head(Fx!Waiting) = Fx!Animation(n)
  <2>1. Head(Fx!Waiting) \in [item : {"animation", "delay"}, id : Fx!Ids]
    BY <1>3 DEF Items, Fx!InProgress
  <2> QED BY <1>3, <2>1 DEF Fx!Animation
<1>5. InQueue(n) /\ ~InQueue(n)'
  BY <1>1, <1>4, AdvancedQueue
<1>6. anims[n].state = "queued"
  BY <1>0, <1>5 DEF QueueInv
<1>7. PICK x : x = [Fx!Frame("start") EXCEPT !.i = n]
  OBVIOUS
<1>8. x \in Frames /\ x.frame = "start" /\ x.i = n
  <2>1. n \in Int
    BY DEF Fx!Ids
  <2> QED BY <1>7, <2>1, FrameTyped DEF FrameNames
<1>9. stack' = <<x>> \o Tail(stack)
  BY <1>4, <1>7 DEF Fx!DequeueAnimation, Fx!Then
<1>b. PICK b : b = Len(stack) - 1
  OBVIOUS
<1>m. PICK more : more = <<x>>
  OBVIOUS
<1>10. /\ b \in Nat /\ Grows(more, b) /\ Stay(b) /\ Len(more) = 1
       /\ \A d \in b + 1 .. b + Len(more) : d = b + 1 /\ New(more, b, d) = x
  BY ZenonT(40), <1>0, <1>1, <1>8, <1>9, <1>b, <1>m, OneGrows
<1>11. hooks' \in HookSet
  <2>1. hooks \in HookSet
    BY <1>0 DEF FxTypes
  <2> QED BY <2>1 DEF Fx!DequeueAnimation, Fx!EnsuredHooks, HookSet
<1>12. FxTypes'
  BY <1>0, <1>1, <1>3, <1>10, <1>11 DEF FxTypes, Grows
<1>a. SettledStay
  BY <1>1 DEF SettledStay, Settled
<1>13. Opening' \subseteq {Len(stack)}
  <2>1. b + 1 = Len(stack)
    BY <1>2, <1>b
  <2> QED BY <1>2, <1>10, <1>a, <2>1, GrowsOpening
<1>14. Single' /\ HeldInv' /\ Moving' = {}
  BY <1>1, <1>2, <1>3, <1>13 DEF Single, HeldInv, Moving, Turns
<1>15. QueueInv' /\ TimersInv'
  BY <1>0, <1>1, <1>2, <1>3, <1>14 DEF QueueInv, TimersInv
<1>16. NewOK(more, b)
  <2>1. FrameOK(x, b + 1)'
    <3>1. Len(stack') = b + 1
      BY <1>10 DEF Grows
    <3> QED BY <1>1, <1>5, <1>6, <1>8, <3>1 DEF FrameOK
  <2> QED BY <1>8, <1>10, <2>1 DEF NewOK
<1>17. StopUndisturbed
  BY <1>1, <1>2 DEF StopUndisturbed
<1> QED BY <1>1, <1>10, <1>12, <1>14, <1>15, <1>16, <1>17, <1>a, Step

LEMMA DequeueDelayKeeps == ASSUME InTurnInv, Fx!DequeueDelay, ~hurried' PROVE InTurnInv'
<1>0. FxTypes /\ QueueInv /\ TimersInv
  BY DEF InTurnInv
<1>1. /\ Fx!In("dequeue") /\ stack # <<>> /\ Head(stack).frame = "dequeue"
      /\ Fx!Waiting # <<>> /\ queue' = <<Fx!InProgress>> \o Tail(Fx!Waiting)
      /\ UNCHANGED <<animations, anims, finishing, inProgress, calls>>
      /\ stack' = <<>> \o Tail(stack)
  BY InTop DEF Fx!DequeueDelay, Fx!clock, Fx!Then
<1>2. /\ Opening \subseteq {Len(stack)} /\ Moving = {} /\ timeouts = {} /\ Len(stack) \in Nat
      /\ Beginning # {}
  BY <1>1, DequeueAlone, InTop DEF Fx!DequeueDelay
<1>3. /\ queue' \in Seq(Items) /\ Held'
      /\ Head(Fx!Waiting) \in Items /\ Head(Fx!Waiting).item = "delay"
      /\ \A m \in Fx!Ids : InQueue(m)' => InQueue(m)
      /\ \A j, k \in 1 .. Len(queue') :
            queue'[j] = queue'[k] /\ queue'[j].item = "animation" => j = k
  BY <1>0, <1>1, Advanced, AdvancedQueue DEF Fx!DequeueDelay
<1>4. PICK n \in Fx!Ids : n = Head(Fx!Waiting).id
  <2>1. Head(Fx!Waiting) \in [item : {"animation", "delay"}, id : Fx!Ids]
    BY <1>3 DEF Items, Fx!InProgress
  <2> QED BY <2>1
<1>5. /\ timeouts' = {n} /\ hooks'.stop = n
      /\ hooks' \in HookSet
  <2>1. hooks \in HookSet
    BY <1>0 DEF FxTypes
  <2>2. n \in Nat
    BY DEF Fx!Ids
  <2>3. timeouts' = {n} /\ hooks' = [[hooks EXCEPT !.there = TRUE] EXCEPT !.stop = n]
    BY <1>2, <1>4 DEF Fx!DequeueDelay, Fx!EnsuredHooks
  <2> QED BY <2>1, <2>2, <2>3 DEF HookSet
<1>b. PICK b : b = Len(stack) - 1
  OBVIOUS
<1>m. PICK more : more = <<>>
  OBVIOUS
<1>6. b \in Nat /\ Grows(more, b) /\ Stay(b) /\ Len(more) = 0
  BY <1>0, <1>1, <1>b, <1>m, NothingGrows
<1>7. \A d \in b + 1 .. b + Len(more) : FALSE
  BY <1>6
<1>8. Len(stack) \notin Opening'
  <2>1. Len(stack') = b /\ ~(Len(stack) <= b)
    BY <1>2, <1>6, <1>b DEF Grows
  <2> QED BY <2>1 DEF Opening, Depths
<1>a. SettledStay
  BY <1>1 DEF SettledStay, Settled
<1>9. Opening' = {}
  BY <1>2, <1>6, <1>7, <1>8, <1>a, GrowsOpening
<1>10. FxTypes'
  BY <1>0, <1>1, <1>3, <1>5, <1>6 DEF FxTypes, Grows
<1>11. Single' /\ HeldInv' /\ Moving' = {}
  BY <1>1, <1>2, <1>3, <1>5, <1>9 DEF Single, HeldInv, Moving, Turns
<1>12. QueueInv' /\ TimersInv'
  BY <1>0, <1>1, <1>3, <1>5, <1>11 DEF QueueInv, TimersInv
<1>13. StopUndisturbed
  BY <1>1, <1>2 DEF StopUndisturbed
<1> QED BY <1>1, <1>6, <1>7, <1>10, <1>11, <1>12, <1>13, <1>a, Step DEF NewOK

\* The promises that waited are told when the innermost call returns.
LEMMA UserGrows ==
    ASSUME FxTypes, stack # <<>>,
           stack' = <<>> \o Tail(stack) \/ stack' = <<Fx!Frame("user")>> \o Tail(stack),
           NEW b, b = Len(stack) - 1
    PROVE  \E more : /\ b \in Nat /\ Grows(more, b) /\ Stay(b)
                     /\ \A d \in b + 1 .. b + Len(more) : New(more, b, d).frame = "user"
<1>1. CASE stack' = <<>> \o Tail(stack)
  <2>m. PICK more : more = <<>>
    OBVIOUS
  <2>1. b \in Nat /\ Grows(more, b) /\ Stay(b) /\ Len(more) = 0
    BY <1>1, <2>m, NothingGrows
  <2>2. \A d \in b + 1 .. b + Len(more) : FALSE
    BY <2>1
  <2> QED BY <2>1, <2>2
<1>2. CASE stack' = <<Fx!Frame("user")>> \o Tail(stack)
  <2>x. PICK x \in Frames : x = Fx!Frame("user") /\ x.frame = "user"
    BY Plain DEF FrameNames
  <2>m. PICK more : more = <<x>>
    OBVIOUS
  <2>1. /\ b \in Nat /\ Grows(more, b) /\ Stay(b)
        /\ \A d \in b + 1 .. b + Len(more) : New(more, b, d) = x
    <3>1. stack' = <<x>> \o Tail(stack)
      BY <1>2, <2>x
    <3> QED BY ZenonT(40), <3>1, <2>m, OneGrows
  <2> QED BY <2>1, <2>x
<1> QED BY <1>1, <1>2

LEMMA DequeueEmptyKeeps == ASSUME InTurnInv, Fx!DequeueEmpty, ~hurried' PROVE InTurnInv'
<1>0. FxTypes /\ TimersInv
  BY DEF InTurnInv
<1>1. /\ Fx!In("dequeue") /\ stack # <<>> /\ Head(stack).frame = "dequeue" /\ queue' = <<>>
      /\ UNCHANGED <<animations, anims, timeouts, finishing, inProgress, calls>>
      /\ stack' = <<>> \o Tail(stack) \/ stack' = <<Fx!Frame("user")>> \o Tail(stack)
  BY InTop DEF Fx!DequeueEmpty, Fx!FireEmpty, Fx!clock, Fx!Then
<1>2. /\ Opening \subseteq {Len(stack)} /\ Moving = {} /\ timeouts = {} /\ Len(stack) \in Nat
      /\ Beginning # {}
  BY <1>1, DequeueAlone, InTop DEF Fx!DequeueEmpty
<1>b. PICK b : b = Len(stack) - 1
  OBVIOUS
<1>3. PICK more : /\ b \in Nat /\ Grows(more, b) /\ Stay(b)
                  /\ \A d \in b + 1 .. b + Len(more) : New(more, b, d).frame = "user"
  BY <1>0, <1>1, <1>b, UserGrows
<1>4. SettledStay
  BY <1>1 DEF SettledStay, Settled
<1>5. Opening' = {}
  <2> SUFFICES ASSUME NEW d \in Opening' PROVE FALSE
    OBVIOUS
  <2>1. \/ d \in 1 .. b /\ d \in Opening
        \/ d \in b + 1 .. b + Len(more) /\ Opens(New(more, b, d))'
    BY <1>3, <1>4, GrowsOpening
  <2>2. CASE d \in 1 .. b /\ d \in Opening
    BY <1>2, <1>b, <2>2
  <2>3. CASE d \in b + 1 .. b + Len(more) /\ Opens(New(more, b, d))'
    BY <1>3, <2>3 DEF Opens
  <2> QED BY <2>1, <2>2, <2>3
<1>6. NewOK(more, b)
  BY <1>3 DEF NewOK, FrameOK
<1>7. queue' \in Seq(Items) /\ Len(queue') = 0
  BY <1>1, EmptySeq
<1>8. hooks' \in HookSet
  <2>1. hooks \in HookSet
    BY <1>0 DEF FxTypes
  <2>2. hooks' = Fx!NoHooks \/ hooks' = [hooks EXCEPT !.there = TRUE]
    BY DEF Fx!DequeueEmpty, Fx!FireEmpty, Fx!EnsuredHooks
  <2>3. CASE hooks' = Fx!NoHooks
    BY <2>3 DEF Fx!NoHooks, HookSet
  <2>4. CASE hooks' = [hooks EXCEPT !.there = TRUE]
    BY <2>1, <2>4 DEF HookSet
  <2> QED BY <2>2, <2>3, <2>4
<1>9. FxTypes'
  BY <1>0, <1>1, <1>3, <1>7, <1>8 DEF FxTypes, Grows
<1>10. Single' /\ HeldInv' /\ Moving' = {}
  BY <1>1, <1>2, <1>5 DEF Single, HeldInv, Moving, Turns
<1>11. QueueInv' /\ TimersInv'
  BY <1>0, <1>1, <1>2, <1>7, <1>10 DEF QueueInv, TimersInv, InQueue
<1>12. StopUndisturbed
  BY <1>1, <1>2 DEF StopUndisturbed
<1> QED BY <1>1, <1>3, <1>4, <1>6, <1>9, <1>10, <1>11, <1>12, Step

\* The end of an animation with queue: false fires `empty' only of an empty queue, in
\* which nothing is in progress.
LEMMA UnqueueKeeps == ASSUME InTurnInv, Fx!Unqueue PROVE InTurnInv'
<1>0. FxTypes /\ TimersInv /\ HeldInv
  BY DEF InTurnInv
<1>1. /\ stack # <<>> /\ Head(stack).frame = "unqueued"
      /\ UNCHANGED <<queue, animations, anims, timeouts, finishing, inProgress, calls>>
      /\ stack' = <<>> \o Tail(stack) \/ stack' = <<Fx!Frame("user")>> \o Tail(stack)
  BY InTop DEF Fx!Unqueue, Fx!FireEmpty, Fx!clock, Fx!Then
<1>b. PICK b : b = Len(stack) - 1
  OBVIOUS
<1>2. PICK more : /\ b \in Nat /\ Grows(more, b) /\ Stay(b)
                  /\ \A d \in b + 1 .. b + Len(more) : New(more, b, d).frame = "user"
  BY <1>0, <1>1, <1>b, UserGrows
<1>3. hooks' \in HookSet /\ (hooks'.stop = hooks.stop \/ timeouts = {})
  <2>1. hooks \in HookSet
    BY <1>0 DEF FxTypes
  <2>2. CASE queue = <<>> /\ hooks' = Fx!NoHooks
    <3>1. timeouts = {}
      BY <1>0, <2>2 DEF HeldInv, Held
    <3> QED BY <2>2, <3>1 DEF Fx!NoHooks, HookSet
  <2>3. CASE hooks' = [hooks EXCEPT !.unqueued = hooks.unqueued \ {Fx!Top.i}]
    BY <2>1, <2>3 DEF HookSet
  <2> QED BY <2>2, <2>3 DEF Fx!Unqueue, Fx!FireEmpty
<1>4. FxTypes'
  BY <1>0, <1>1, <1>2, <1>3 DEF FxTypes, Grows
<1>5. NewOK(more, b) /\ \A d \in b + 1 .. b + Len(more) : ~Begins(New(more, b, d))
  BY <1>2 DEF NewOK, FrameOK, Begins
<1>6. SameAnims /\ (animations # <<>> => inProgress')
  BY <1>0, <1>1 DEF SameAnims, TimersInv
<1> QED BY <1>1, <1>2, <1>3, <1>4, <1>5, <1>6, QuietStep

-----------------------------------------------------------------------------
(* Animation( ... ).                                                       *)

\* A tick begins at once unless frames come already, and behind it the rest of
\* the animation's call is to come.
Starts(x, y, b, more) ==
    /\ stack # <<>> /\ x \in Frames /\ y \in Frames /\ b = Len(stack) - 1
    /\ more = (IF inProgress THEN <<>> ELSE <<y>>) \o <<x>> /\ stack' = more \o Tail(stack)

\* The first timer brings a tick with it, and every one its "started".
LEMMA StartGrows ==
    ASSUME FxTypes, NEW x, NEW y, NEW b, NEW more, Starts(x, y, b, more)
    PROVE  /\ b \in Nat /\ Grows(more, b) /\ Stay(b)
           /\ \A d \in b + 1 .. b + Len(more) :
                 New(more, b, d) = x \/ (New(more, b, d) = y /\ ~inProgress)
<1>0. /\ stack # <<>> /\ x \in Frames /\ y \in Frames /\ b = Len(stack) - 1
      /\ more = (IF inProgress THEN <<>> ELSE <<y>>) \o <<x>> /\ stack' = more \o Tail(stack)
  BY DEF Starts
<1>1. Len(stack) \in Nat /\ Len(stack) # 0
  BY <1>0, TopUp
<1>2. b \in Nat /\ Stay(b)
  BY <1>0, <1>1 DEF Stay
<1>3. PICK front : front = IF inProgress THEN <<>> ELSE <<y>>
  OBVIOUS
<1>4. /\ front \in Seq(Frames) /\ Len(front) \in Nat
      /\ \A k \in 1 .. Len(front) : front[k] = y /\ ~inProgress
  <2>1. CASE inProgress
    <3>1. front \in Seq(Frames) /\ Len(front) = 0
      BY <1>3, <2>1, EmptySeq
    <3> QED BY <3>1
  <2>2. CASE ~inProgress
    <3>1. front \in Seq(Frames) /\ Len(front) = 1 /\ front[1] = y
      BY <1>0, <1>3, <2>2
    <3>2. \A k \in 1 .. 1 : k = 1
      OBVIOUS
    <3> QED BY <2>2, <3>1, <3>2
  <2> QED BY <2>1, <2>2
<1>5. PICK m : m = Len(front) + 1
  OBVIOUS
<1>6. /\ more \in Seq(Frames) /\ Len(more) = m /\ more[m] = x
      /\ \A k \in 1 .. Len(front) : more[k] = front[k]
  <2>1. more = front \o <<x>> /\ x \in Frames
    BY <1>0, <1>3
  <2> QED BY ONLY <1>4, <1>5, <2>1, FrameAfter
<1>7. Grows(more, b)
  BY <1>0, <1>6, ThenGrows
<1>8. ASSUME NEW d \in b + 1 .. b + Len(more)
      PROVE  New(more, b, d) = x \/ (New(more, b, d) = y /\ ~inProgress)
  <2>1. b + m + 1 - d = m \/ b + m + 1 - d \in 1 .. Len(front)
    BY <1>2, <1>4, <1>5, <1>6
  <2> QED BY <1>4, <1>6, <2>1 DEF New
<1> QED BY <1>2, <1>7, <1>8

\* An animation starts: the turn passes from the call to the timer.
LEMMA StartKeeps == ASSUME InTurnInv, Fx!Start PROVE InTurnInv'
<1>0. FxTypes /\ Single /\ HeldInv /\ QueueInv /\ TimersInv /\ FramesInv /\ StopInv
  BY DEF InTurnInv
<1>1. /\ Fx!In("start") /\ stack # <<>> /\ Head(stack) \in Frames /\ Head(stack).frame = "start"
      /\ Fx!Top = Head(stack) /\ Head(stack) = Up(stack, Len(stack))
      /\ Len(stack) \in Depths /\ Len(stack) \in Nat
  BY InTop DEF Fx!Start
<1>2. PICK n \in Fx!Ids : n = Head(stack).i /\ anims[n].state = "queued" /\ ~InQueue(n)
  BY <1>0, <1>1 DEF FramesInv, FrameOK
<1>3. /\ anims' = [anims EXCEPT ![n].state = "pending"] /\ animations' = Append(animations, n)
      /\ inProgress' = TRUE /\ UNCHANGED <<queue, timeouts, calls, finishing>>
  BY <1>1, <1>2 DEF Fx!Start
<1>h. hooks' \in HookSet /\ hooks'.stop = hooks.stop
  <2>1. hooks \in HookSet
    BY <1>0 DEF FxTypes
  <2>2. \/ hooks' = hooks
        \/ hooks' = [[hooks EXCEPT !.there = TRUE] EXCEPT !.unqueued = @ \cup {n}]
    BY <1>1, <1>2 DEF Fx!Start, Fx!EnsuredHooks
  <2> QED BY <2>1, <2>2 DEF HookSet
<1>4. /\ anims' \in [Fx!Ids -> Anims] /\ anims'[n].state = "pending"
      /\ anims'[n].queued = anims[n].queued /\ anims'[n].empty = anims[n].empty
      /\ \A m \in Fx!Ids \ {n} : anims'[m] = anims[m]
  <2>1. anims \in [Fx!Ids -> Anims] /\ anims[n] \in Anims
    BY <1>0 DEF FxTypes
  <2>2. anims'[n] = [anims[n] EXCEPT !.state = "pending"]
        /\ \A m \in Fx!Ids \ {n} : anims'[m] = anims[m]
    BY <1>3, <2>1
  <2>3. /\ anims'[n] \in Anims /\ anims'[n].state = "pending"
        /\ anims'[n].queued = anims[n].queued /\ anims'[n].empty = anims[n].empty
    BY <2>1, <2>2 DEF Anims, States
  <2> QED BY <1>3, <2>1, <2>2, <2>3
<1>5. /\ animations \in Seq(Fx!Ids) /\ Len(animations) \in Nat
      /\ animations' \in Seq(Fx!Ids) /\ Len(animations') = Len(animations) + 1
      /\ \A j \in 1 .. Len(animations) : animations'[j] = animations[j]
      /\ animations'[Len(animations) + 1] = n
  <2>1. animations \in Seq(Fx!Ids) /\ Len(animations) \in Nat
    BY <1>0, LenProperties DEF FxTypes
  <2> QED BY <1>3, <2>1, AppendProperties
<1>6. Moving' = IF Turns(n) THEN Moving \cup {n} ELSE Moving
  BY <1>2, <1>4 DEF Moving, Turns
<1>a. SettledStay
  BY <1>2, <1>4 DEF Settled, SettledStay
<1>7. Turns(n) => Opening = {Len(stack)} /\ Moving = {} /\ timeouts = {}
  <2> SUFFICES ASSUME Turns(n) PROVE Opening = {Len(stack)} /\ Moving = {} /\ timeouts = {}
    OBVIOUS
  <2>1. Len(stack) \in Opening
    BY <1>1, <1>2 DEF Opening, Opens
  <2> QED BY <1>0, <2>1 DEF Single
<1>x. PICK x : x = [Fx!Frame("started") EXCEPT !.i = n]
  OBVIOUS
<1>y. PICK y : y = [Fx!Frame("tick") EXCEPT !.i = 1]
  OBVIOUS
<1>8. /\ x \in Frames /\ x.frame = "started" /\ x.i = n
      /\ y \in Frames /\ y.frame = "tick" /\ y.ran = 0
  <2>1. n \in Int /\ 1 \in Int
    BY DEF Fx!Ids
  <2>2. x \in Frames /\ x.frame = "started" /\ x.i = n
    BY <1>x, <2>1, FrameTyped DEF FrameNames
  <2>3. y \in Frames /\ y.frame = "tick" /\ y.ran = 0
    BY <1>y, <2>1, FrameTyped DEF FrameNames
  <2> QED BY <2>2, <2>3
<1>m. PICK more : more = (IF inProgress THEN <<>> ELSE <<y>>) \o <<x>>
  OBVIOUS
<1>b. PICK b : b = Len(stack) - 1
  OBVIOUS
<1>9. stack' = more \o Tail(stack)
  BY <1>1, <1>2, <1>x, <1>y, <1>m DEF Fx!Start, Fx!Then
<1>10. /\ b \in Nat /\ Grows(more, b) /\ Stay(b)
       /\ \A d \in b + 1 .. b + Len(more) :
             New(more, b, d) = x \/ (New(more, b, d) = y /\ ~inProgress)
  <2>1. Starts(x, y, b, more)
    BY <1>1, <1>8, <1>9, <1>b, <1>m DEF Starts
  <2> QED BY <1>0, <2>1, StartGrows
<1>11. \A d \in Opening' : d \in 1 .. b /\ d \in Opening
  BY <1>8, <1>10, <1>a, GrowsOpening DEF Opens
<1>12. Turns(n) => Opening' = {}
  BY <1>1, <1>7, <1>11, <1>b
<1>13. FxTypes'
  <2>1. \A m \in Fx!Ids : m > calls' => anims'[m].state = "none"
    BY <1>0, <1>2, <1>3, <1>4 DEF FxTypes
  <2> QED BY <1>0, <1>3, <1>4, <1>5, <1>10, <1>h, <2>1 DEF FxTypes, Grows
<1>14. Held \/ Opening = {}
  BY <1>1, HeldUnless
<1>15. Single' /\ HeldInv'
  <2>1. CASE Turns(n)
    <3>1. Held
      BY <1>7, <1>14, <2>1
    <3>2. Moving' = {n} /\ timeouts' = {} /\ Opening' = {} /\ Held'
      BY <1>3, <1>6, <1>7, <1>12, <2>1, <3>1 DEF Held
    <3> QED BY <3>2 DEF Single, HeldInv
  <2>2. CASE ~Turns(n)
    <3>1. Moving' \subseteq Moving /\ Opening' \subseteq Opening
      BY <1>6, <1>11, <2>2
    <3> QED BY <1>3, <1>11, <1>14, <3>1, Fewer
  <2> QED BY <2>1, <2>2
<1>16. QueueInv'
  <2>1. ASSUME NEW m \in Fx!Ids, InQueue(m)' PROVE anims'[m].state = "queued"
    <3>1. InQueue(m)
      BY <1>3, <2>1 DEF InQueue
    <3> QED BY <1>0, <1>2, <1>4, <3>1 DEF QueueInv
  <2> QED BY <1>0, <1>3, <1>h, <2>1 DEF QueueInv
<1>17. TimersInv'
  <2>1. ASSUME NEW m \in Moving' PROVE \E j \in 1 .. Len(animations') : animations'[j] = m
    <3>1. CASE m = n
      <4>1. Len(animations) + 1 \in 1 .. Len(animations')
        BY <1>5
      <4> QED BY <1>5, <3>1, <4>1
    <3>2. CASE m # n
      <4>1. m \in Moving
        BY <1>6, <2>1, <3>2
      <4>2. PICK j \in 1 .. Len(animations) : animations[j] = m
        BY <1>0, <4>1 DEF TimersInv
      <4>3. j \in 1 .. Len(animations')
        BY <1>5
      <4> QED BY <1>5, <4>2, <4>3
    <3> QED BY <3>1, <3>2
  <2>2. ASSUME NEW j \in 1 .. Len(animations')
        PROVE  anims'[animations'[j]].state \notin {"none", "queued"}
    <3>1. CASE j = Len(animations) + 1
      BY <1>4, <1>5, <3>1
    <3>2. CASE j # Len(animations) + 1
      <4>1. j \in 1 .. Len(animations)
        BY <1>5, <3>2
      <4>2. animations'[j] = animations[j] /\ animations[j] \in Fx!Ids
        BY <1>5, <4>1
      <4>3. anims[animations[j]].state \notin {"none", "queued"} /\ animations[j] # n
        BY <1>0, <1>2, <4>1 DEF TimersInv
      <4> QED BY <1>4, <4>2, <4>3
    <3> QED BY <3>1, <3>2
  <2> QED BY <1>3, <2>1, <2>2 DEF TimersInv
<1>18. inProgress \/ \A d \in b + 1 .. b + Len(more) : Up(stack', 1).frame # "stop"
  <2> SUFFICES ASSUME ~inProgress, NEW d \in b + 1 .. b + Len(more)
               PROVE  Up(stack', 1).frame # "stop"
    OBVIOUS
  <2>1. ~Stops
    <3> SUFFICES ASSUME Stops PROVE FALSE
      OBVIOUS
    <3>1. Len(stack) # 1
      BY <1>1 DEF Stops
    <3>2. Up(stack, 1).i \in 1 .. Len(animations)
      BY <1>0, <3>1 DEF StopInv, StopOK
    <3>3. animations # <<>>
      BY <1>5, <3>2, EmptySeq
    <3> QED BY <1>0, <3>3 DEF TimersInv
  <2>2. Len(more) \in Nat
    BY <1>10 DEF Grows
  <2>3. CASE b = 0
    <3>1. 1 \in b + 1 .. b + Len(more)
      BY <1>10, <2>2, <2>3
    <3>2. Up(stack', 1) = New(more, b, 1)
      BY <1>10, <3>1 DEF Grows, New
    <3> QED BY <1>8, <1>10, <3>1, <3>2
  <2>4. CASE b # 0
    <3>1. 1 \in 1 .. b
      BY <1>10, <2>4
    <3> QED BY <1>1, <1>10, <2>1, <3>1 DEF Grows, Stops
  <2> QED BY <2>3, <2>4
<1>19. NewOK(more, b)
  <2> SUFFICES ASSUME NEW d \in b + 1 .. b + Len(more)
               PROVE  New(more, b, d).frame # "stop" /\ FrameOK(New(more, b, d), d)'
    BY DEF NewOK
  <2>1. CASE New(more, b, d) = x
    BY <1>8, <2>1 DEF FrameOK
  <2>2. CASE New(more, b, d) = y /\ ~inProgress
    BY <1>8, <1>18, <2>2 DEF FrameOK
  <2> QED BY <1>10, <2>1, <2>2
<1>20. StopUndisturbed
  <2>1. \A j \in 1 .. Len(animations) : j \in 1 .. Len(animations') /\ animations'[j] = animations[j]
    BY <1>5
  <2>2. Beginning # {}
    BY <1>1 DEF Beginning, Begins
  <2> QED BY <2>1, <2>2 DEF StopUndisturbed
<1> QED BY <1>1, <1>10, <1>13, <1>15, <1>16, <1>17, <1>19, <1>20, <1>a, Step

-----------------------------------------------------------------------------
(* stop.                                                                   *)

\* A stop has no other call around it.
LEMMA StopTop ==
    ASSUME InTurnInv, Fx!In("stop")
    PROVE  /\ stack # <<>> /\ Head(stack) \in Frames /\ Head(stack).frame = "stop"
           /\ Fx!Top = Head(stack) /\ Len(stack) = 1 /\ Tail(stack) = <<>> /\ Opening = {}
           /\ Beginning = {}
           /\ StopOK(Head(stack))
<1>0. FxTypes /\ FramesInv /\ StopInv
  BY DEF InTurnInv
<1>1. /\ stack # <<>> /\ Head(stack) \in Frames /\ Head(stack).frame = "stop"
      /\ Fx!Top = Head(stack) /\ Head(stack) = Up(stack, Len(stack)) /\ Len(stack) \in Depths
  BY InTop
<1>2. Len(stack) = 1
  BY <1>0, <1>1 DEF FramesInv, FrameOK
<1>3. Tail(stack) = <<>>
  <2>1. Tail(stack) \in Seq(Frames) /\ Len(Tail(stack)) = 0
    BY <1>0, <1>1, <1>2, TopUp
  <2> QED BY <2>1, EmptySeq
<1>4. Opening = {} /\ Beginning = {}
  BY <1>1, <1>2 DEF Opening, Opens, Beginning, Begins, Depths
<1>5. StopOK(Head(stack))
  BY <1>0, <1>1, <1>2 DEF StopInv, Stops
<1> QED BY <1>1, <1>2, <1>3, <1>4, <1>5

\* The steps of a stop that put the stop back.
LEMMA StopAgain ==
    ASSUME InTurnInv, Fx!In("stop"), NEW x \in Frames, stack' = <<x>> \o Tail(stack),
           x.frame = "stop", timeouts' \subseteq timeouts, timeouts' \subseteq {hooks'.stop},
           UNCHANGED <<queue, anims, calls, finishing>>,
           hooks' \in HookSet,
           animations' \in Seq(Fx!Ids), TimersInv', StopOK(x)'
    PROVE  InTurnInv'
<1>0. FxTypes /\ Single /\ HeldInv /\ QueueInv
  BY DEF InTurnInv
<1>1. Tail(stack) = <<>> /\ Opening = {}
  BY StopTop
<1>2. stack' = <<x>>
  BY <1>1, OnlyOne
<1>3. /\ stack' \in Seq(Frames) /\ Len(stack') = 1 /\ stack' # <<>> /\ Depths' = {1}
      /\ Up(stack', 1) = x
  BY <1>2, OnlyFrame
<1>4. FxTypes'
  BY <1>0, <1>3 DEF FxTypes
<1>5. Opening' = {} /\ Moving' = Moving
  BY <1>3 DEF Opening, Opens, Moving, Turns
<1>6. Single' /\ HeldInv'
  BY <1>5, Fewer
<1>7. QueueInv'
  BY <1>0 DEF QueueInv, InQueue
<1>8. FramesInv'
  BY <1>3 DEF FramesInv, FrameOK
<1>9. StopInv'
  BY <1>3 DEF StopInv, StopOK
<1> QED BY <1>4, <1>6, <1>7, <1>8, <1>9 DEF InTurnInv

\* A stop puts an end to a delay and begins with the last timer, so that nothing
\* but the timers up to there makes the queue go on.
LEMMA StopHooksKeeps == ASSUME InTurnInv, Fx!StopHooks PROVE InTurnInv'
<1>0. FxTypes /\ QueueInv /\ TimersInv
  BY DEF InTurnInv
<1>1. /\ Fx!In("stop") /\ stack # <<>> /\ Head(stack) \in Frames /\ Head(stack).frame = "stop"
      /\ Fx!Top = Head(stack) /\ Opening = {} /\ StopOK(Head(stack)) /\ Tail(stack) = <<>>
  BY StopTop DEF Fx!StopHooks
<1>2. /\ Head(stack).i = -1 /\ timeouts' = timeouts \ {hooks.stop} /\ hooks' = [hooks EXCEPT !.stop = 0]
      /\ UNCHANGED <<queue, animations, anims, calls, finishing, inProgress>>
  BY <1>1 DEF Fx!StopHooks, Fx!clock
<1>3. timeouts' = {}
  BY <1>0, <1>2 DEF QueueInv
<1>4. hooks' \in HookSet
  <2>1. hooks \in HookSet
    BY <1>0 DEF FxTypes
  <2> QED BY <1>2, <2>1 DEF HookSet
<1>5. Len(animations) \in Nat
  BY <1>0, LenProperties DEF FxTypes
<1>6. PICK x : x = [Head(stack) EXCEPT !.i = Len(animations)]
  OBVIOUS
<1>7. x \in Frames /\ x.frame = "stop" /\ x.i = Len(animations) /\ x.ran = 0
  <2>1. Head(stack).ran = 0
    BY <1>1, <1>2 DEF StopOK
  <2>2. Len(animations) \in Int
    BY <1>5
  <2> QED BY <1>1, <1>6, <2>1, <2>2 DEF Frames
<1>8. stack' = <<x>> \o Tail(stack)
  BY <1>1, <1>6 DEF Fx!StopHooks, Fx!Then
<1>9. TimersInv' /\ Moving' = Moving
  <2>1. Moving' = Moving
    BY <1>2 DEF Moving, Turns
  <2> QED BY <1>0, <1>2, <2>1 DEF TimersInv
<1>10. StopOK(x)'
  <2>1. stack' = <<x>>
    BY <1>1, <1>7, <1>8, OnlyOne
  <2>2. Len(stack') = 1 /\ Up(stack', 1) = x /\ Depths' = {1}
    BY <1>7, <2>1, OnlyFrame
  <2>3. Beginning' = {}
    BY <1>7, <2>2 DEF Beginning, Begins
  <2>4. \A n \in Moving' : \E j \in 1 .. Len(animations') : animations'[j] = n /\ j <= x.i
    <3>1. \A j \in 1 .. Len(animations') : j <= x.i
      BY <1>2, <1>5, <1>7
    <3> QED BY <1>9, <3>1 DEF TimersInv
  <2>5. x.i >= -1 /\ x.i # -1
    BY <1>5, <1>7
  <2> QED BY <1>3, <1>7, <2>2, <2>3, <2>4, <2>5 DEF StopOK
<1>11. animations' \in Seq(Fx!Ids)
  BY <1>0, <1>2 DEF FxTypes
<1> QED BY <1>1, <1>2, <1>3, <1>4, <1>7, <1>8, <1>9, <1>10, <1>11, StopAgain

\* What a stop puts back when it goes on to the timer before.
LEMMA StopsOn ==
    ASSUME InTurnInv, Fx!In("stop"), NEW x, NEW i, i = Head(stack).i, i \in 1 .. Len(animations),
           x \in Frames, x.frame = "stop", x.ran = 0, x.i = i - 1,
           x.gotoEnd = Head(stack).gotoEnd, x.dequeue = Head(stack).dequeue,
           stack' = <<x>> \o Tail(stack),
           Moving' = Moving, UNCHANGED timeouts, Head(stack).ran = 0 => animations[i] \notin Moving,
           \A j \in 1 .. i - 1 : j \in 1 .. Len(animations') /\ animations'[j] = animations[j]
    PROVE  StopOK(x)'
<1>1. /\ StopOK(Head(stack)) /\ Tail(stack) = <<>> /\ Head(stack) \in Frames /\ Opening = {}
      /\ Len(animations) \in Nat
  <2>1. FxTypes
    BY DEF InTurnInv
  <2>2. Len(animations) \in Nat
    BY <2>1, LenProperties DEF FxTypes
  <2> QED BY <2>2, StopTop
<1>2. stack' = <<x>>
  BY <1>1, OnlyOne
<1>3. Len(stack') = 1 /\ Up(stack', 1) = x /\ Depths' = {1}
  BY <1>2, OnlyFrame
<1>4. Beginning' = {}
  BY <1>3 DEF Beginning, Begins
<1>5. i \in Int /\ i >= 1 /\ i - 1 >= 0 /\ x.i >= -1 /\ x.i # -1 /\ i # -1
  BY <1>1
<1>6. ASSUME ~x.gotoEnd \/ x.dequeue
      PROVE  /\ timeouts' = {}
             /\ \A n \in Moving' : \E j \in 1 .. Len(animations') : animations'[j] = n /\ j <= x.i
  <2>1. /\ timeouts = {}
        /\ \A n \in Moving : \E j \in 1 .. Len(animations) :
              animations[j] = n /\ j <= i /\ (Head(stack).ran # 0 => j # i)
    BY <1>1, <1>5, <1>6 DEF StopOK
  <2>2. ASSUME NEW n \in Moving' PROVE \E j \in 1 .. Len(animations') : animations'[j] = n /\ j <= x.i
    <3>1. PICK j \in 1 .. Len(animations) :
              animations[j] = n /\ j <= i /\ (Head(stack).ran # 0 => j # i)
      BY <2>1, <2>2
    <3>2. j # i
      BY <2>2, <3>1
    <3>3. j \in 1 .. i - 1 /\ j <= x.i
      BY <1>1, <1>5, <3>1, <3>2
    <3> QED BY <3>1, <3>3
  <2> QED BY <2>1, <2>2
<1> QED BY <1>3, <1>4, <1>5, <1>6 DEF StopOK

\* The timer that was stopped is taken away, where it still is, and the stop goes on.
LEMMA StopSpliceKeeps == ASSUME InTurnInv, Fx!StopSplice PROVE InTurnInv'
<1>0. FxTypes /\ QueueInv /\ TimersInv
  BY DEF InTurnInv
<1>1. Fx!In("stop")
  <2>1. ~Fx!In("finish")
    BY InTop DEF Frames, FrameNames
  <2> QED BY <2>1 DEF Fx!StopSplice
<1>2. /\ stack # <<>> /\ Head(stack) \in Frames /\ Head(stack).frame = "stop"
      /\ Fx!Top = Head(stack) /\ StopOK(Head(stack)) /\ Tail(stack) = <<>>
  BY <1>1, StopTop
<1>3. PICK i : i = Head(stack).i
  OBVIOUS
<1>4. /\ Head(stack).ran = 1 /\ animations' = Fx!RemoveTimer(i)
      /\ UNCHANGED <<queue, hooks, timeouts, anims, calls, finishing, inProgress>>
  BY <1>2, <1>3 DEF Fx!StopSplice, Fx!clock, Fx!data
<1>5. i \in 1 .. Len(animations) /\ Settled(animations[i])
  BY <1>2, <1>3, <1>4 DEF StopOK
<1>6. PICK x : x = [Head(stack) EXCEPT !.ran = 0, !.i = @ - 1]
  OBVIOUS
<1>7. /\ x \in Frames /\ x.frame = "stop" /\ x.ran = 0 /\ x.i = i - 1
      /\ x.gotoEnd = Head(stack).gotoEnd /\ x.dequeue = Head(stack).dequeue
  BY ZenonT(40), <1>2, <1>3, <1>6, Updated DEF Like
<1>8. stack' = <<x>> \o Tail(stack)
  BY <1>2, <1>6 DEF Fx!StopSplice, Fx!Then
<1>9. TimersInv' /\ Moving' = Moving /\ animations' \in Seq(Fx!Ids)
  BY <1>0, <1>4, <1>5, RemovedTimers, Removed
<1>10. \A j \in 1 .. i - 1 : j \in 1 .. Len(animations') /\ animations'[j] = animations[j]
  <2>1. /\ Len(animations) \in Nat /\ Len(animations') = Len(animations) - 1
        /\ \A j \in 1 .. i - 1 : animations'[j] = animations[j]
    BY <1>0, <1>4, <1>5, Removed
  <2> QED BY <1>5, <2>1
<1>11. StopOK(x)'
  BY <1>1, <1>3, <1>4, <1>5, <1>7, <1>8, <1>9, <1>10, StopsOn
<1>12. /\ timeouts' \subseteq {hooks'.stop}
       /\ hooks' \in HookSet
  BY <1>0, <1>4 DEF QueueInv, FxTypes
<1> QED BY <1>1, <1>4, <1>7, <1>8, <1>9, <1>11, <1>12, StopAgain

LEMMA StopSkipKeeps == ASSUME InTurnInv, Fx!StopSkip PROVE InTurnInv'
<1>0. FxTypes /\ QueueInv /\ TimersInv
  BY DEF InTurnInv
<1>1. Fx!In("stop")
  <2>1. ~Fx!In("finish")
    BY InTop DEF Frames, FrameNames
  <2> QED BY <2>1 DEF Fx!StopSkip
<1>2. /\ stack # <<>> /\ Head(stack) \in Frames /\ Head(stack).frame = "stop"
      /\ Fx!Top = Head(stack) /\ StopOK(Head(stack)) /\ Tail(stack) = <<>>
  BY <1>1, StopTop
<1>3. PICK i : i = Head(stack).i
  OBVIOUS
<1>4. /\ Head(stack).ran = 0 /\ i \in 1 .. Len(animations)
      /\ UNCHANGED <<queue, hooks, timeouts, animations, anims, calls, finishing, inProgress>>
  BY <1>0, <1>2, <1>3 DEF Fx!StopSkip, Fx!clock, Fx!data, FxTypes
<1>5. animations[i] \notin Moving
  <2>1. ~Fx!Matches("stop")
    BY <1>2 DEF Fx!StopSkip
  <2>2. anims[animations[i]].state # "pending"
    BY <1>0, <1>1, <1>2, <1>3, <1>4, <2>1 DEF Fx!Matches, FxTypes
  <2> QED BY <2>2 DEF Moving
<1>6. PICK x : x = [Head(stack) EXCEPT !.i = @ - 1]
  OBVIOUS
<1>7. /\ x \in Frames /\ x.frame = "stop" /\ x.ran = 0 /\ x.i = i - 1
      /\ x.gotoEnd = Head(stack).gotoEnd /\ x.dequeue = Head(stack).dequeue
  BY <1>2, <1>3, <1>4, <1>6, Updated DEF Like
<1>8. stack' = <<x>> \o Tail(stack)
  BY <1>2, <1>6 DEF Fx!StopSkip, Fx!Then
<1>9. TimersInv' /\ Moving' = Moving /\ animations' \in Seq(Fx!Ids)
  <2>1. Moving' = Moving
    BY <1>4 DEF Moving, Turns
  <2> QED BY <1>0, <1>4, <2>1 DEF TimersInv, FxTypes
<1>10. \A j \in 1 .. i - 1 : j \in 1 .. Len(animations') /\ animations'[j] = animations[j]
  <2>1. Len(animations) \in Nat
    BY <1>0, LenProperties DEF FxTypes
  <2> QED BY <1>4, <2>1
<1>11. StopOK(x)'
  BY <1>1, <1>3, <1>4, <1>5, <1>7, <1>8, <1>9, <1>10, StopsOn
<1>12. /\ timeouts' \subseteq {hooks'.stop}
       /\ hooks' \in HookSet
  BY <1>0, <1>4 DEF QueueInv, FxTypes
<1> QED BY <1>1, <1>4, <1>7, <1>8, <1>9, <1>11, <1>12, StopAgain

\* An animation is stopped: its callbacks are called, and when they return the timer is
\* still in its place.
LEMMA StopTimerKeeps == ASSUME InTurnInv, Fx!StopTimer PROVE InTurnInv'
<1>0. FxTypes
  BY DEF InTurnInv
<1>1. Fx!Matches("stop")
  <2>1. ~Fx!Matches("finish")
    BY InTop DEF Fx!Matches, Frames, FrameNames
  <2> QED BY <2>1 DEF Fx!StopTimer
<1>2. /\ stack # <<>> /\ Head(stack) \in Frames /\ Head(stack).frame = "stop"
      /\ Fx!Top = Head(stack) /\ StopOK(Head(stack)) /\ Len(stack) = 1 /\ Opening = {}
  BY <1>1, StopTop DEF Fx!Matches
<1>3. PICK i : i = Head(stack).i
  OBVIOUS
<1>4. /\ i \in 1 .. Len(animations) /\ Head(stack).ran = 0
      /\ anims[animations[i]].state = "pending"
      /\ UNCHANGED <<queue, hooks, animations, timeouts, calls, finishing, inProgress>>
  BY <1>0, <1>1, <1>2, <1>3 DEF Fx!StopTimer, Fx!Matches, Fx!clock, Fx!data, FxTypes
<1>5. PICK n \in Fx!Ids : n = animations[i]
  BY <1>0, <1>4 DEF FxTypes
<1>6. PICK x : x = [Head(stack) EXCEPT !.ran = 1, !.dequeue = FALSE]
  OBVIOUS
<1>7. /\ x \in Frames /\ x.frame = "stop" /\ x.ran = 1 /\ x.i = i
      /\ x.gotoEnd = Head(stack).gotoEnd /\ x.dequeue = FALSE
  BY <1>2, <1>3, <1>6, Updated DEF Like
<1>8. PICK outcome : outcome = IF Head(stack).gotoEnd THEN "resolved" ELSE "rejected"
  OBVIOUS
<1>9. outcome \in {"resolved", "rejected"} /\ (~x.gotoEnd => outcome = "rejected")
  BY <1>7, <1>8
<1>r. PICK rest : rest = <<x>> /\ rest # <<>>
  BY EmptySeq
<1>10. PICK more : more = Fx!Callbacks(n, outcome) \o rest
  OBVIOUS
<1>11. Fx!Settle(n, outcome, anims[n].left, TRUE) /\ stack' = more \o Tail(stack)
  <2>1. ~Fx!Matches("finish")
    BY InTop DEF Fx!Matches, Frames, FrameNames
  <2>2. Fx!StopAnimation(animations[i], Head(stack).gotoEnd, <<x>>)
    BY <1>2, <1>3, <1>6, <2>1 DEF Fx!StopTimer
  <2> QED BY <1>5, <1>8, <1>10, <1>r, <2>2 DEF Fx!StopAnimation, Fx!Then
<1>b. PICK b : b = Len(stack) - 1
  OBVIOUS
<1>a. Settling(n, outcome, rest, x, b, more)
  BY <1>2, <1>7, <1>10, <1>11, <1>b, <1>r DEF Settling
<1>12. \E left \in Nat, stopped \in BOOLEAN : Fx!Settle(n, outcome, left, stopped)
  <2>1. anims[n].left \in Nat
    BY <1>0 DEF FxTypes, Anims
  <2> QED BY <1>11, <2>1
<1>13. /\ FxTypes' /\ Single' /\ HeldInv' /\ QueueInv' /\ TimersInv'
       /\ Moving' = Moving \ {n} /\ Settled(n)'
       /\ \A d \in b + 1 .. b + Len(more) :
             \/ d = b + 1 /\ New(more, b, d) = x
             \/ /\ New(more, b, d).frame \in {"user", "unqueued", "dequeue"}
                /\ FrameOK(New(more, b, d), d)'
                /\ outcome = "rejected" => ~Begins(New(more, b, d))
  <2>1. anims[n].state = "pending"
    BY <1>4, <1>5
  <2>2. x.frame \in {"tick", "stop"} /\ Head(stack).frame \in {"tick", "stop", "started"}
    BY <1>2, <1>7
  <2> QED BY <1>4, <1>9, <1>12, <1>a, <2>1, <2>2, SettledMoves
<1>14. /\ Grows(more, b) /\ New(more, b, b + 1) = x
       /\ Len(more) \in Nat /\ Len(more) >= 2
  BY <1>0, <1>a, <1>r, CallbacksGrow DEF CallsBack
<1>15. b = 0
  BY <1>2, <1>b
<1>16. /\ Len(stack') = Len(more) /\ Depths' = 1 .. Len(more) /\ 1 \in 1 .. Len(more)
       /\ \A d \in 1 .. Len(more) : Up(stack', d) = New(more, b, d)
  BY <1>14, <1>15 DEF Grows, New, Depths
<1>17. /\ Up(stack', 1) = x
       /\ \A d \in Depths' : \/ d = 1
                              \/ /\ Up(stack', d).frame \in {"user", "unqueued", "dequeue"}
                                 /\ FrameOK(Up(stack, d), d)'
                                 /\ outcome = "rejected" => ~Begins(Up(stack', d))
  <2>1. b + 1 = 1 /\ b + Len(more) = Len(more)
    BY <1>14, <1>15
  <2>2. \A d \in 1 .. Len(more) : d \in b + 1 .. b + Len(more)
    BY <2>1
  <2>3. Up(stack', 1) = x
    BY <1>14, <1>16, <2>1
  <2>4. ASSUME NEW d \in Depths', d # 1, NEW f, f = New(more, b, d)
        PROVE  /\ f.frame \in {"user", "unqueued", "dequeue"} /\ FrameOK(f, d)'
               /\ outcome = "rejected" => ~Begins(f)
    BY <1>13, <1>16, <2>1, <2>2, <2>4
  <2> QED BY <1>16, <2>3, <2>4
<1>18. FramesInv'
  <2> SUFFICES ASSUME NEW d \in Depths' PROVE FrameOK(Up(stack, d), d)'
    BY DEF FramesInv
  <2>1. CASE d = 1
    BY <1>7, <1>17, <2>1 DEF FrameOK
  <2>2. CASE d # 1
    BY <1>17, <2>2
  <2> QED BY <2>1, <2>2
<1>19. StopInv'
  <2>1. x.i >= -1 /\ x.i # -1 /\ x.ran # 0
    BY <1>4, <1>7
  <2>2. x.i \in 1 .. Len(animations') /\ Settled(animations[x.i])'
    BY <1>4, <1>5, <1>7, <1>13
  <2>3. ASSUME ~x.gotoEnd
        PROVE  /\ timeouts' = {} /\ Beginning' = {}
               /\ \A m \in Moving' : \E j \in 1 .. Len(animations') :
                    animations'[j] = m /\ j <= x.i /\ j # x.i
    <3>1. /\ timeouts = {}
          /\ \A m \in Moving : \E j \in 1 .. Len(animations) : animations[j] = m /\ j <= i
      BY <1>2, <1>3, <1>4, <1>7, <2>1, <2>3 DEF StopOK
    <3>2. Beginning' = {} /\ timeouts' = {}
      BY <1>4, <1>7, <1>9, <1>17, <2>3, <3>1 DEF Beginning, Begins
    <3>3. \A m \in Moving' : m \in Moving /\ m # animations[i]
      BY <1>5, <1>13
    <3> QED BY <1>4, <1>7, <3>1, <3>2, <3>3
  <2>4. StopOK(x)'
    BY <1>7, <2>1, <2>2, <2>3 DEF StopOK
  <2> QED BY <1>17, <2>4 DEF StopInv, StopOK
<1> QED BY <1>13, <1>18, <1>19 DEF InTurnInv

\* The steps of a stop that leave it.
LEMMA NothingLeft ==
    ASSUME InTurnInv, stack' = <<>>, Opening = {},
           UNCHANGED <<queue, hooks, animations, anims, timeouts, calls, finishing, inProgress>>
    PROVE  InTurnInv'
<1>0. FxTypes /\ QueueInv /\ TimersInv
  BY DEF InTurnInv
<1>1. stack' \in Seq(Frames) /\ Len(stack') = 0 /\ Depths' = {}
  <2>1. stack' \in Seq(Frames) /\ Len(stack') = 0
    OBVIOUS
  <2> QED BY <2>1 DEF Depths
<1>2. FxTypes'
  BY <1>0, <1>1 DEF FxTypes
<1>3. Opening' = {} /\ Moving' = Moving
  BY <1>1 DEF Opening, Moving, Turns
<1>4. Single' /\ HeldInv'
  BY <1>3, Fewer
<1>5. QueueInv' /\ TimersInv'
  BY <1>0, <1>3 DEF QueueInv, InQueue, TimersInv
<1>6. FramesInv' /\ StopInv'
  BY <1>1 DEF FramesInv, StopInv, Stops
<1> QED BY <1>2, <1>4, <1>5, <1>6 DEF InTurnInv

\* The ends of a stop.
LEMMA StopThrowsKeeps == ASSUME InTurnInv, Fx!StopThrows PROVE InTurnInv'
<1>0. FxTypes
  BY DEF InTurnInv
<1>1. Fx!In("stop")
  <2>1. ~Fx!In("finish")
    BY InTop DEF Frames, FrameNames
  <2> QED BY <2>1 DEF Fx!StopThrows
<1>2. Opening = {}
  BY <1>1, StopTop
<1> QED BY <1>2, NothingLeft DEF Fx!StopThrows, Fx!data, Fx!clock

LEMMA StopEndKeeps == ASSUME InTurnInv, Fx!StopEnd PROVE InTurnInv'
<1>0. FxTypes /\ Single /\ HeldInv /\ QueueInv /\ TimersInv
  BY DEF InTurnInv
<1>1. /\ stack # <<>> /\ Head(stack) \in Frames
      /\ Fx!Top = Head(stack) /\ Tail(stack) = <<>> /\ Opening = {} /\ StopOK(Head(stack))
  BY StopTop DEF Fx!StopEnd
<1>2. /\ Head(stack).i = 0 /\ Head(stack).ran = 0
      /\ UNCHANGED <<queue, hooks, animations, anims, timeouts, calls, finishing, inProgress>>
  BY <1>1 DEF Fx!StopEnd, Fx!data, Fx!clock
<1>3. CASE ~(Head(stack).dequeue \/ ~Head(stack).gotoEnd)
  <2>1. stack' = <<>> \o <<>>
    BY <1>1, <1>3 DEF Fx!StopEnd, Fx!Then
  <2>2. <<>> \in Seq(Frames)
    OBVIOUS
  <2>3. stack' = <<>>
    BY <2>1, <2>2, ConcatEmptySeq
  <2> QED BY <1>1, <1>2, <2>3, NothingLeft
<1>4. CASE Head(stack).dequeue \/ ~Head(stack).gotoEnd
  <2>1. PICK x \in Frames : x = Fx!Frame("dequeue") /\ x.frame = "dequeue" /\ x.i = 0
    BY Plain DEF FrameNames
  <2>2. stack' = <<x>> \o Tail(stack)
    BY <1>1, <1>4, <2>1 DEF Fx!StopEnd, Fx!Then
  <2>3. stack' = <<x>>
    BY <1>1, <2>2, OnlyOne
  <2>4. /\ stack' \in Seq(Frames) /\ Len(stack') = 1 /\ stack' # <<>> /\ Depths' = {1}
        /\ Up(stack', 1) = x
    BY <2>3, OnlyFrame
  <2>5. /\ timeouts = {}
        /\ \A n \in Moving : \E j \in 1 .. Len(animations) : animations[j] = n /\ j <= 0
    BY <1>1, <1>2, <1>4 DEF StopOK
  <2>6. Moving = {} /\ timeouts' = {} /\ Moving' = {}
    <3>1. Moving = {}
      BY <2>5
    <3> QED BY <1>2, <2>5, <3>1 DEF Moving, Turns
  <2>7. FxTypes'
    BY <1>0, <1>2, <2>4 DEF FxTypes
  <2>8. \A d \in Opening' : d = 1
    BY <2>4 DEF Opening
  <2>9. Single'
    BY <2>6, <2>8 DEF Single
  <2>10. HeldInv'
    BY <2>1, <2>4, <2>6, <2>8 DEF HeldInv
  <2>11. QueueInv' /\ TimersInv'
    BY <1>0, <1>2, <2>6 DEF QueueInv, InQueue, TimersInv
  <2>12. FramesInv' /\ StopInv'
    BY <2>1, <2>4 DEF FramesInv, FrameOK, StopInv, Stops
  <2> QED BY <2>7, <2>9, <2>10, <2>11, <2>12 DEF InTurnInv
<1> QED BY <1>3, <1>4

\* A finish empties the queue, and nothing of it happens before.
LEMMA NoFinish == ASSUME InTurnInv PROVE ~Fx!In("finish")
  BY InTop DEF InTurnInv, Frames, FrameNames

-----------------------------------------------------------------------------
(* The theorem.                                                            *)

\* The beginning, and the steps that leave effects alone.
LEMMA EffectsInit == ASSUME Fx!Init PROVE InTurnInv
<1>1. /\ queue = <<>> /\ animations = <<>> /\ timeouts = {} /\ stack = <<>> /\ calls = 0
      /\ finishing = FALSE /\ hooks = [there |-> FALSE, stop |-> 0, waiting |-> {}, unqueued |-> {}]
      /\ anims = [n \in Fx!Ids |-> [state |-> "none", queued |-> FALSE, empty |-> FALSE,
                                    left |-> 0, stopped |-> FALSE]]
  BY DEF Fx!Init, Fx!NoHooks
<1>2. /\ queue \in Seq(Items) /\ animations \in Seq(Fx!Ids) /\ stack \in Seq(Frames)
      /\ Len(queue) = 0 /\ Len(animations) = 0 /\ Len(stack) = 0
  BY <1>1
<1>3. anims \in [Fx!Ids -> Anims] /\ \A n \in Fx!Ids : anims[n].state = "none"
  BY <1>1 DEF Anims, States
<1>4. calls \in 0 .. MaxCalls
  BY <1>1, MaxCallsAssumption
<1>5. hooks \in HookSet
  BY <1>1 DEF HookSet
<1>6. FxTypes
  BY <1>1, <1>2, <1>3, <1>4, <1>5 DEF FxTypes
<1>7. Depths = {} /\ Moving = {} /\ \A n : ~InQueue(n)
  BY <1>2, <1>3 DEF Depths, Moving, Turns, InQueue
<1>8. Single /\ HeldInv
  BY <1>1, <1>7 DEF Single, HeldInv, Opening
<1>9. QueueInv /\ TimersInv
  BY <1>1, <1>2, <1>7 DEF QueueInv, TimersInv
<1>10. FramesInv /\ StopInv
  BY <1>1, <1>7 DEF FramesInv, StopInv, Stops
<1> QED BY <1>6, <1>8, <1>9, <1>10 DEF InTurnInv

\* The histories stay.
LEMMA HistoriesStay ==
    ASSUME [Fx!Next]_Fx!vars
    PROVE  (cleared => cleared') /\ (nested => nested') /\ (hurried => hurried')
<1>1. CASE UNCHANGED Fx!vars
  BY <1>1 DEF Fx!vars
<1>2. CASE Fx!Methods
  <2>1. CASE Fx!Animate
    BY <2>1 DEF Fx!Animate, Fx!Nests
  <2>2. CASE Fx!AnimateNow
    BY <2>2 DEF Fx!AnimateNow, Fx!Nests
  <2>3. CASE Fx!DelayCall
    BY <2>3 DEF Fx!DelayCall, Fx!Nests
  <2>4. CASE Fx!ClearQueue
    BY <2>4 DEF Fx!ClearQueue, Fx!Nests, Fx!Clear
  <2>5. CASE Fx!StopCall
    <3>1. (nested => nested') /\ (hurried => hurried')
      BY <2>5 DEF Fx!StopCall, Fx!Nests
    <3>2. cleared' = TRUE \/ cleared' = cleared
      BY <2>5 DEF Fx!StopCall, Fx!Clear
    <3> QED BY <3>1, <3>2
  <2>6. CASE Fx!FinishCall
    BY <2>6 DEF Fx!FinishCall, Fx!Nests
  <2>7. CASE Fx!PromiseCall
    BY <2>7 DEF Fx!PromiseCall, Fx!history
  <2> QED BY <1>2, <2>1, <2>2, <2>3, <2>4, <2>5, <2>6, <2>7 DEF Fx!Methods
<1>3. CASE Fx!Running
  <2>1. CASE Fx!Return
    BY <2>1 DEF Fx!Return, Fx!history
  <2>2. CASE Fx!DequeueAnimation
    BY <2>2 DEF Fx!DequeueAnimation, Fx!Hurries
  <2>3. CASE Fx!DequeueDelay
    BY <2>3 DEF Fx!DequeueDelay, Fx!Hurries
  <2>4. CASE Fx!DequeueEmpty
    BY <2>4 DEF Fx!DequeueEmpty, Fx!Hurries
  <2>5. CASE Fx!Start
    BY <2>5 DEF Fx!Start, Fx!history
  <2>6. CASE Fx!Started
    BY <2>6 DEF Fx!Started, Fx!history
  <2>7. CASE Fx!TickOn
    BY <2>7 DEF Fx!TickOn, Fx!history
  <2>8. CASE Fx!TickResolve
    BY <2>8 DEF Fx!TickResolve, Fx!history
  <2>9. CASE Fx!TickEnded
    BY <2>9 DEF Fx!TickEnded, Fx!history
  <2>10. CASE Fx!TickRemove
    BY <2>10 DEF Fx!TickRemove, Fx!history
  <2>11. CASE Fx!TickEnd
    BY <2>11 DEF Fx!TickEnd, Fx!history
  <2>12. CASE Fx!StopHooks
    BY <2>12 DEF Fx!StopHooks
  <2>13. CASE Fx!StopTimer
    BY <2>13 DEF Fx!StopTimer, Fx!history
  <2>14. CASE Fx!StopSplice
    BY <2>14 DEF Fx!StopSplice, Fx!history
  <2>15. CASE Fx!StopSkip
    BY <2>15 DEF Fx!StopSkip, Fx!history
  <2>16. CASE Fx!StopThrows
    BY <2>16 DEF Fx!StopThrows, Fx!history
  <2>17. CASE Fx!StopEnd
    BY <2>17 DEF Fx!StopEnd, Fx!history
  <2>18. CASE Fx!FinishQueued
    BY <2>18 DEF Fx!FinishQueued, Fx!history
  <2>19. CASE Fx!FinishEnd
    BY <2>19 DEF Fx!FinishEnd, Fx!history
  <2>20. CASE Fx!Unqueue
    BY <2>20 DEF Fx!Unqueue, Fx!history
  <2> QED BY <1>3, <2>1, <2>2, <2>3, <2>4, <2>5, <2>6, <2>7, <2>8, <2>9, <2>10, <2>11,
         <2>12, <2>13, <2>14, <2>15, <2>16, <2>17, <2>18, <2>19, <2>20 DEF Fx!Running
<1>4. CASE Fx!Schedule \/ Fx!Timeout
  BY <1>4 DEF Fx!Schedule, Fx!Timeout, Fx!history
<1> QED BY <1>1, <1>2, <1>3, <1>4 DEF Fx!Next

LEMMA EffectsStay == ASSUME InTurnInv, UNCHANGED Fx!vars PROVE InTurnInv'
<1>1. UNCHANGED <<queue, hooks, animations, anims, timeouts, finishing, inProgress, stack, calls>>
  BY DEF Fx!vars
<1>2. /\ Moving' = Moving /\ Opening' = Opening /\ Beginning' = Beginning /\ Depths' = Depths
      /\ Stops' <=> Stops
  BY <1>1 DEF Moving, Turns, Opening, Opens, Beginning, Begins, Depths, Stops
<1>3. FxTypes' /\ Single' /\ HeldInv' /\ QueueInv' /\ TimersInv'
  BY <1>1, <1>2 DEF InTurnInv, FxTypes, Single, HeldInv, Held, QueueInv, InQueue, TimersInv
<1>4. FramesInv'
  BY <1>1, <1>2 DEF InTurnInv, FramesInv, FrameOK, InQueue, Settled
<1>5. StopInv'
  BY <1>1, <1>2 DEF InTurnInv, StopInv, StopOK, Settled
<1> QED BY <1>3, <1>4, <1>5 DEF InTurnInv

\* Every step keeps the invariant, or is one that clears the queue, nests or hurries.
LEMMA EffectsNext == ASSUME EffectsInv, [Fx!Next]_Fx!vars PROVE EffectsInv'
<1> SUFFICES ASSUME ~cleared', ~nested', ~hurried' PROVE InTurnInv'
  BY DEF EffectsInv
<1>1. InTurnInv
  BY HistoriesStay DEF EffectsInv
<1>2. CASE UNCHANGED Fx!vars
  BY <1>1, <1>2, EffectsStay
<1>3. CASE Fx!Methods
  <2>1. ~Fx!ClearQueue /\ ~Fx!FinishCall
    BY DEF Fx!ClearQueue, Fx!FinishCall, Fx!Clear
  <2> QED BY <1>1, <1>3, <2>1, AnimateKeeps, AnimateNowKeeps, DelayKeeps, StopCallKeeps,
             PromiseCallKeeps DEF Fx!Methods
<1>4. CASE Fx!Running
  <2>1. ~Fx!FinishQueued /\ ~Fx!FinishEnd
    BY <1>1, NoFinish DEF Fx!FinishQueued, Fx!FinishEnd
  <2>2. CASE Fx!Return \/ Fx!DequeueAnimation \/ Fx!DequeueDelay \/ Fx!DequeueEmpty
             \/ Fx!Unqueue \/ Fx!Start \/ Fx!Started
    BY <1>1, <2>2, ReturnKeeps, DequeueAnimationKeeps, DequeueDelayKeeps, DequeueEmptyKeeps,
       UnqueueKeeps, StartKeeps, StartedKeeps
  <2>3. CASE Fx!TickOn \/ Fx!TickResolve \/ Fx!TickEnded \/ Fx!TickRemove \/ Fx!TickEnd
    BY <1>1, <2>3, TickOnKeeps, TickResolveKeeps, TickEndedKeeps, TickRemoveKeeps, TickEndKeeps
  <2>4. CASE Fx!StopHooks \/ Fx!StopTimer \/ Fx!StopSplice \/ Fx!StopSkip \/ Fx!StopThrows
             \/ Fx!StopEnd
    BY <1>1, <2>4, StopHooksKeeps, StopTimerKeeps, StopSpliceKeeps, StopSkipKeeps,
       StopThrowsKeeps, StopEndKeeps
  <2> QED BY <1>4, <2>1, <2>2, <2>3, <2>4 DEF Fx!Running
<1>5. CASE Fx!Schedule \/ Fx!Timeout
  BY <1>1, <1>5, ScheduleKeeps, TimeoutKeeps
<1> QED BY <1>2, <1>3, <1>4, <1>5 DEF Fx!Next

\* Sets with one element at most.
LEMMA AtMostOne ==
    ASSUME NEW S, \A m, n \in S : m = n
    PROVE  Cardinality(S) \in {0, 1} /\ (S = {} => Cardinality(S) = 0)
<1>1. CASE S = {}
  BY <1>1, FS_EmptySet
<1>2. CASE S # {}
  <2>1. PICK n : S = {n}
    BY <1>2
  <2> QED BY <1>2, <2>1, FS_Singleton
<1> QED BY <1>1, <1>2

\* What the invariant says of animations and delays.
LEMMA InTurnOneAtATime == ASSUME EffectsInv PROVE OneAtATime
<1>0. \A S : Fx!Cardinality(S) = Cardinality(S)
  BY DEF Fx!Cardinality, Cardinality
<1> SUFFICES ASSUME InTurnInv, ~cleared, ~nested, ~hurried
             PROVE  Cardinality({n \in Fx!Ids :
                                     Fx!Pending(n) /\ anims[n].queued /\ ~anims[n].empty})
                        + Cardinality(timeouts) <= 1
  BY <1>0 DEF EffectsInv, OneAtATime, Fx!OneAtATime
<1>1. {n \in Fx!Ids : Fx!Pending(n) /\ anims[n].queued /\ ~anims[n].empty} = Moving
  BY DEF Moving, Turns, Fx!Pending
<1>2. /\ \A m, n \in Moving : m = n
      /\ \A m, n \in timeouts : m = n
      /\ Moving = {} \/ timeouts = {}
  BY DEF InTurnInv, Single
<1>3. /\ Cardinality(Moving) \in {0, 1} /\ Cardinality(timeouts) \in {0, 1}
      /\ Cardinality(Moving) = 0 \/ Cardinality(timeouts) = 0
  BY <1>2, AtMostOne
<1>4. Cardinality(Moving) + Cardinality(timeouts) <= 1
  BY ONLY <1>3
<1> QED BY ONLY <1>1, <1>4

\* Unless the queue was cleared, a callback of a stop puts something in it, or an
\* animation of nothing, which does not wait, dequeues beside what is in progress,
\* what is in the queue of an element runs one after the other: no two of its
\* animations and delays run at a time, whatever the callbacks, the frames, the
\* timeouts, stop and what is not queued do meanwhile.
THEOREM OneAfterTheOther == Fx!Spec => []OneAtATime
<1>1. Fx!Init => EffectsInv
  BY EffectsInit DEF EffectsInv
<1>2. EffectsInv /\ [Fx!Next]_Fx!vars => EffectsInv'
  BY EffectsNext
<1>3. EffectsInv => OneAtATime
  BY InTurnOneAtATime
<1> QED BY <1>1, <1>2, <1>3, PTL DEF Fx!Spec

-----------------------------------------------------------------------------
(* Requests.                                                               *)


Ids == 1 .. MaxRequests
Kinds == {"begin", "check", "transport", "send", "abort", "done", "succeed", "complete",
          "release"}
Hooks == {"prefilter", "ajaxStart", "beforeSend", "ajaxSend", "settled", "complete",
          "ajaxStop"}
JobSet == [job : Kinds, r : Ids] \cup [job : {"user"}, r : Ids, hook : Hooks]

TypeInv ==
    /\ requests \in 0 .. MaxRequests
    /\ kind \in [Ids -> {"none", "xhr", "jsonp"}]
    /\ global \in [Ids -> BOOLEAN]
    /\ completed \in [Ids -> {"undefined", "false", "true"}]
    /\ state \in [Ids -> {"pending", "resolved", "rejected"}]
    /\ told \in [Ids -> Seq({"resolved", "rejected", "complete"} \X Nat)]
    /\ active \in Int
    /\ lastGlobal \in {"ajaxStart", "ajaxStop"}
    /\ threw \in BOOLEAN
    /\ container \in [Ids -> Nat]
    /\ jobs \in Seq(JobSet)

-----------------------------------------------------------------------------
(* Sequences of jobs.                                                      *)

\* One of these jobs is there, for r; there is one at most.
Is(job, J, r) == job.job \in J /\ job.r = r
Has(js, J, r) == \E k \in 1 .. Len(js) : Is(js[k], J, r)
Alone(js, J, r) ==
    \A k, l \in 1 .. Len(js) : Is(js[k], J, r) /\ Is(js[l], J, r) => k = l

\* What beforeSend and the check behind it may skip is there, and the request
\* of every job has been made.
Shape(js, n) ==
    \A k \in 1 .. Len(js) :
        /\ js[k].r \in 1 .. n
        /\ js[k].job = "user" /\ js[k].hook = "beforeSend"
           => /\ k + 2 <= Len(js)
              /\ Is(js[k + 1], {"check"}, js[k].r) /\ Is(js[k + 2], {"transport"}, js[k].r)
        /\ js[k].job = "check"
           => k + 1 <= Len(js) /\ Is(js[k + 1], {"transport"}, js[k].r)

\* `new' has `more' in place of the first d of `old'.
Moves(old, more, d, new) ==
    /\ d \in 0 .. Len(old)
    /\ Len(new) = Len(more) + Len(old) - d
    /\ \A i \in 1 .. Len(more) : new[i] = more[i]
    /\ \A i \in d + 1 .. Len(old) : new[Len(more) + i - d] = old[i]

From(old, more, d, new) ==
    /\ Len(old) \in Nat /\ Len(more) \in Nat /\ Len(new) \in Nat /\ d \in Nat
    /\ Len(new) = Len(more) + Len(old) - d /\ d <= Len(old)
    /\ \A k \in 1 .. Len(new) :
          \/ k \in 1 .. Len(more) /\ new[k] = more[k]
          \/ /\ k > Len(more) /\ k - Len(more) + d \in d + 1 .. Len(old)
             /\ new[k] = old[k - Len(more) + d]

-----------------------------------------------------------------------------
(* The invariants.                                                         *)

Closing == {"complete", "release"}
Sending == {"transport", "send", "done"}

\* What a request's callbacks were told, and what they are still to be told.
ToldInv ==
    \A r \in Ids :
        /\ Len(told[r]) <= 2
        /\ told[r] # <<>> <=> completed[r] = "true"
        /\ told[r] # <<>> => told[r][1][1] = state[r]
        /\ Len(told[r]) = 2 => told[r][2][1] = "complete"
        /\ Has(jobs, {"complete"}, r) => Len(told[r]) = 1

\* A request begins once, and it is released once, after it is done.
JobsInv ==
    /\ Shape(jobs, requests)
    /\ \A r \in Ids :
        /\ Alone(jobs, {"begin"}, r) /\ Alone(jobs, Closing, r)
        /\ Has(jobs, {"begin"}, r) \/ r > requests => ~global[r]
        /\ Has(jobs, Closing, r) => completed[r] = "true"
        /\ Has(jobs, {"release"}, r) => global[r]

\* The requests the counter counts; those that nobody has sent will be.
Counted ==
    {r \in Ids : global[r] /\ (completed[r] # "true" \/ Has(jobs, Closing, r))}
CountInv ==
    ~threw
    => /\ active = Cardinality(Counted)
       /\ lastGlobal = "ajaxStart" <=> active > 0
       /\ \A r \in Ids : global[r] /\ completed[r] = "undefined" => Has(jobs, Sending, r)

RequestsInv == TypeInv /\ JobsInv /\ ToldInv /\ CountInv

\* The callback of a jsonp request has a name no other's has until the request
\* is done: its own, and neither among the names that are free again nor a new
\* one.
Waits(r) == r <= requests /\ kind[r] = "jsonp" /\ completed[r] # "true"
NamesInv ==
    /\ name \in [Ids -> Nat] /\ installed \in [Ids -> Nat]
    /\ oldCallbacks \in Seq(Ids) /\ nonce \in 1 .. requests + 1
    /\ \A i \in 1 .. Len(oldCallbacks) :
          /\ oldCallbacks[i] < nonce
          /\ \A j \in 1 .. Len(oldCallbacks) : oldCallbacks[i] = oldCallbacks[j] => i = j
    /\ \A r \in Ids : Waits(r)
          => /\ name[r] \in 1 .. nonce - 1 /\ installed[name[r]] = r
             /\ \A i \in 1 .. Len(oldCallbacks) : oldCallbacks[i] # name[r]

\* Who has a callback is the last that took its name, and what a script leaves
\* to a request comes from one that had its name, that request or one before it.
OwnersInv ==
    /\ \A n \in Ids : installed[n] # 0
          => installed[n] \in 1 .. requests /\ name[installed[n]] = n
    /\ \A r \in Ids : r <= requests /\ kind[r] = "jsonp"
          => name[r] \in Ids /\ (installed[name[r]] # 0 => r <= installed[name[r]])
    /\ \A r \in Ids : container[r] # 0
          => r <= requests /\ container[r] \in 1 .. r /\ name[container[r]] = name[r]

\* So that what its script leaves is its own if it calls at all.  Nothing comes
\* between a script and the success of its request.
Answered(r) == container[r] = r \/ r \in silent
AnswersInv ==
    /\ \A r \in Ids : state[r] # "pending" => completed[r] = "true" /\ r <= requests
    /\ \A k \in 1 .. Len(jobs) : jobs[k].job = "succeed"
          => k = 1 /\ (Waits(jobs[k].r) => Answered(jobs[k].r))
    /\ \A r \in 1 .. requests : state[r] = "resolved" /\ kind[r] = "jsonp"
          => told[r][1][2] \in 1 .. r
    /\ OwnAnswer

OwnInv == NamesInv /\ OwnersInv /\ AnswersInv

-----------------------------------------------------------------------------
(* Facts about sequences of jobs.                                          *)

LEMMA JobsTyped ==
    /\ \A j \in Kinds, r \in Ids : Requests!Job(j, r) \in JobSet
    /\ \A h \in Hooks, r \in Ids : Requests!User(h, r) \in JobSet
    /\ \A x \in JobSet : x.r \in Ids
<1>1. \A j \in Kinds, r \in Ids : Requests!Job(j, r) \in JobSet
  BY DEF JobSet, Requests!Job
<1>2. \A h \in Hooks, r \in Ids : Requests!User(h, r) \in JobSet
  BY DEF JobSet, Requests!User
<1>3. \A x \in JobSet : x.r \in Ids
  BY DEF JobSet
<1> QED BY <1>1, <1>2, <1>3

\* Short sequences put together.
LEMMA Joined ==
    ASSUME NEW x \in Seq(JobSet), NEW y \in Seq(JobSet), NEW z \in Seq(JobSet), Len(z) = Len(x) + Len(y),
           \A i \in 1 .. Len(x) : z[i] = x[i], \A i \in 1 .. Len(y) : z[Len(x) + i] = y[i]
    PROVE  x \o y = z
<1>0. Len(x) \in Nat /\ Len(y) \in Nat
  BY LenProperties
<1>1. /\ x \o y \in Seq(JobSet) /\ Len(x \o y) = Len(x) + Len(y)
      /\ \A i \in 1 .. Len(x) + Len(y) : (x \o y)[i] = IF i <= Len(x) THEN x[i] ELSE y[i - Len(x)]
  BY ConcatProperties
<1>2. ASSUME NEW i \in 1 .. Len(x \o y) PROVE (x \o y)[i] = z[i]
  <2>1. CASE i \in 1 .. Len(x)
    BY <1>0, <1>1, <2>1
  <2>2. CASE i \notin 1 .. Len(x)
    <3>1. i - Len(x) \in 1 .. Len(y) /\ Len(x) + (i - Len(x)) = i /\ ~(i <= Len(x))
      BY <1>0, <1>1, <2>2
    <3> QED BY <1>0, <1>1, <3>1
  <2> QED BY <2>1, <2>2
<1> QED BY <1>1, <1>2, SeqEqual

LEMMA Two ==
    ASSUME NEW a \in JobSet, NEW b \in JobSet
    PROVE  <<a>> \o <<b>> = <<a, b>>
<1> DEFINE x == <<a>>
           y == <<b>>
           z == <<a, b>>
<1>1. /\ x \in Seq(JobSet) /\ y \in Seq(JobSet) /\ z \in Seq(JobSet)
      /\ Len(x) = 1 /\ Len(y) = 1 /\ Len(z) = 1 + 1
  OBVIOUS
<1>2. /\ \A i \in 1 .. 1 : z[i] = x[i]
      /\ \A i \in 1 .. 1 : z[1 + i] = y[i]
  OBVIOUS
<1> HIDE DEF x, y, z
<1>3. /\ Len(z) = Len(x) + Len(y)
      /\ \A i \in 1 .. Len(x) : z[i] = x[i]
      /\ \A i \in 1 .. Len(y) : z[Len(x) + i] = y[i]
  BY <1>1, <1>2
<1>4. x \o y = z
  BY <1>1, <1>3, Joined
<1> QED BY <1>4 DEF x, y, z

LEMMA Three ==
    ASSUME NEW a \in JobSet, NEW b \in JobSet, NEW c \in JobSet
    PROVE  <<a, b>> \o <<c>> = <<a, b, c>>
<1> DEFINE x == <<a, b>>
           y == <<c>>
           z == <<a, b, c>>
<1>1. /\ x \in Seq(JobSet) /\ y \in Seq(JobSet) /\ z \in Seq(JobSet)
      /\ Len(x) = 2 /\ Len(y) = 1 /\ Len(z) = 2 + 1
  OBVIOUS
<1>2. /\ \A i \in 1 .. 2 : z[i] = x[i]
      /\ \A i \in 1 .. 1 : z[2 + i] = y[i]
  OBVIOUS
<1> HIDE DEF x, y, z
<1>3. /\ Len(z) = Len(x) + Len(y)
      /\ \A i \in 1 .. Len(x) : z[i] = x[i]
      /\ \A i \in 1 .. Len(y) : z[Len(x) + i] = y[i]
  BY <1>1, <1>2
<1>4. x \o y = z
  BY <1>1, <1>3, Joined
<1> QED BY <1>4 DEF x, y, z

\* What is put in front of the rest of a sequence moves it.
LEMMA Replaced ==
    ASSUME NEW old \in Seq(JobSet), NEW rest \in Seq(JobSet), NEW more \in Seq(JobSet),
           NEW d \in 0 .. Len(old), Len(rest) = Len(old) - d,
           \A i \in 1 .. Len(rest) : rest[i] = old[i + d]
    PROVE  more \o rest \in Seq(JobSet) /\ Moves(old, more, d, more \o rest)
<1>1. Len(old) \in Nat /\ Len(rest) \in Nat /\ Len(more) \in Nat
  BY LenProperties
<1>2. /\ more \o rest \in Seq(JobSet)
      /\ Len(more \o rest) = Len(more) + Len(rest)
      /\ \A i \in 1 .. Len(more) + Len(rest) :
            (more \o rest)[i] = IF i <= Len(more) THEN more[i] ELSE rest[i - Len(more)]
  BY ConcatProperties
<1>3. ASSUME NEW i \in 1 .. Len(more) PROVE (more \o rest)[i] = more[i]
  BY <1>1, <1>2
<1>4. ASSUME NEW i \in d + 1 .. Len(old) PROVE (more \o rest)[Len(more) + i - d] = old[i]
  <2>1. /\ Len(more) + i - d \in 1 .. Len(more) + Len(rest)
        /\ ~(Len(more) + i - d <= Len(more))
        /\ Len(more) + i - d - Len(more) = i - d /\ i - d \in 1 .. Len(rest) /\ (i - d) + d = i
    BY <1>1
  <2> QED BY <1>2, <2>1
<1>5. Len(more \o rest) = Len(more) + Len(old) - d
  BY <1>1, <1>2
<1> QED BY <1>2, <1>3, <1>4, <1>5 DEF Moves

\* The head of the jobs gives way to what it leaves to do.
LEMMA Thened ==
    ASSUME NEW old \in Seq(JobSet), old # <<>>, NEW more \in Seq(JobSet)
    PROVE  /\ more \o Tail(old) \in Seq(JobSet) /\ Moves(old, more, 1, more \o Tail(old))
           /\ Head(old) = old[1] /\ Len(old) \in Nat \ {0} /\ Head(old).r \in Ids
<1>1. Len(old) \in Nat \ {0}
  BY EmptySeq
<1>2. /\ Head(old) \in JobSet /\ Tail(old) \in Seq(JobSet) /\ Len(Tail(old)) = Len(old) - 1
      /\ \A i \in 1 .. Len(Tail(old)) : Tail(old)[i] = old[i + 1]
  BY HeadTailProperties
<1>3. 1 \in 0 .. Len(old)
  BY <1>1
<1>4. more \o Tail(old) \in Seq(JobSet) /\ Moves(old, more, 1, more \o Tail(old))
  BY <1>2, <1>3, Replaced
<1>5. Head(old) = old[1] /\ Head(old).r \in Ids
  BY <1>1, <1>2, JobsTyped
<1> QED BY <1>1, <1>4, <1>5

\* What is called inside the current job comes in front of it.
LEMMA Pushed ==
    ASSUME NEW old \in Seq(JobSet), NEW more \in Seq(JobSet)
    PROVE  more \o old \in Seq(JobSet) /\ Moves(old, more, 0, more \o old)
<1>1. Len(old) \in Nat
  BY LenProperties
<1>2. 0 \in 0 .. Len(old) /\ \A i \in 1 .. Len(old) : i + 0 = i
  BY <1>1
<1> QED BY <1>1, <1>2, Replaced

\* Where the jobs of the new sequence come from.
LEMMA MovesFrom ==
    ASSUME NEW old \in Seq(JobSet), NEW more \in Seq(JobSet), NEW new \in Seq(JobSet),
           NEW d, Moves(old, more, d, new)
    PROVE  From(old, more, d, new)
<1>1. /\ Len(old) \in Nat /\ Len(more) \in Nat /\ Len(new) \in Nat /\ d \in Nat
      /\ Len(new) = Len(more) + Len(old) - d /\ d <= Len(old)
  BY LenProperties DEF Moves
<1>2. ASSUME NEW k \in 1 .. Len(new), k > Len(more)
      PROVE  k - Len(more) + d \in d + 1 .. Len(old) /\ new[k] = old[k - Len(more) + d]
  <2>1. k - Len(more) + d \in d + 1 .. Len(old) /\ Len(more) + (k - Len(more) + d) - d = k
    BY <1>1, <1>2
  <2> QED BY <2>1 DEF Moves
<1>3. ASSUME NEW k \in 1 .. Len(new), ~(k > Len(more)) PROVE k \in 1 .. Len(more) /\ new[k] = more[k]
  BY <1>1, <1>3 DEF Moves
<1> QED BY <1>1, <1>2, <1>3 DEF From

LEMMA MovesHas ==
    ASSUME NEW old \in Seq(JobSet), NEW more \in Seq(JobSet), NEW new \in Seq(JobSet),
           NEW d, Moves(old, more, d, new), NEW J, NEW r
    PROVE  /\ Has(new, J, r) => Has(more, J, r) \/ \E k \in d + 1 .. Len(old) : Is(old[k], J, r)
           /\ Has(new, J, r) => Has(more, J, r) \/ Has(old, J, r)
           /\ Has(more, J, r) => Has(new, J, r)
           /\ Has(old, J, r) /\ (\A k \in 1 .. d : ~Is(old[k], J, r)) => Has(new, J, r)
<1>1. /\ Len(old) \in Nat /\ Len(more) \in Nat /\ Len(new) \in Nat /\ d \in Nat
      /\ Len(new) = Len(more) + Len(old) - d
      /\ \A k \in 1 .. Len(new) :
            \/ k \in 1 .. Len(more) /\ new[k] = more[k]
            \/ /\ k > Len(more) /\ k - Len(more) + d \in d + 1 .. Len(old)
               /\ new[k] = old[k - Len(more) + d]
      /\ d <= Len(old)
  <2>1. From(old, more, d, new)
    BY ONLY MovesFrom, Moves(old, more, d, new)
  <2> QED BY ONLY <2>1 DEF From
<1>2. Has(new, J, r) => Has(more, J, r) \/ \E k \in d + 1 .. Len(old) : Is(old[k], J, r)
  BY <1>1 DEF Has
<1>3. \A k \in d + 1 .. Len(old) : k \in 1 .. Len(old)
  BY <1>1
<1>4. Has(more, J, r) => Has(new, J, r)
  <2> SUFFICES ASSUME NEW k \in 1 .. Len(more), Is(more[k], J, r) PROVE Has(new, J, r)
    BY DEF Has
  <2>1. k \in 1 .. Len(new) /\ new[k] = more[k]
    BY <1>1 DEF Moves
  <2> QED BY <2>1 DEF Has
<1>5. ASSUME NEW k \in 1 .. Len(old), Is(old[k], J, r), \A i \in 1 .. d : ~Is(old[i], J, r)
      PROVE  Has(new, J, r)
  <2>1. k \in d + 1 .. Len(old)
    BY <1>1, <1>5
  <2>2. Len(more) + k - d \in 1 .. Len(new) /\ new[Len(more) + k - d] = old[k]
    BY <1>1, <2>1 DEF Moves
  <2> QED BY <1>5, <2>2 DEF Has
<1> QED BY <1>2, <1>3, <1>4, <1>5 DEF Has

LEMMA MovesAlone ==
    ASSUME NEW old \in Seq(JobSet), NEW more \in Seq(JobSet), NEW new \in Seq(JobSet),
           NEW d, Moves(old, more, d, new), NEW J, NEW r
    PROVE  /\ Alone(old, J, r) /\ ~Has(more, J, r) => Alone(new, J, r)
           /\ Alone(more, J, r) /\ (\A k \in d + 1 .. Len(old) : ~Is(old[k], J, r))
              => Alone(new, J, r)
<1>1. /\ Len(old) \in Nat /\ Len(more) \in Nat /\ Len(new) \in Nat /\ d \in Nat
      /\ Len(new) = Len(more) + Len(old) - d
      /\ \A k \in 1 .. Len(new) :
            \/ k \in 1 .. Len(more) /\ new[k] = more[k]
            \/ /\ k > Len(more) /\ k - Len(more) + d \in d + 1 .. Len(old)
               /\ new[k] = old[k - Len(more) + d]
      /\ d <= Len(old)
  <2>1. From(old, more, d, new)
    BY ONLY MovesFrom, Moves(old, more, d, new)
  <2> QED BY ONLY <2>1 DEF From
<1>2. ASSUME Alone(old, J, r), ~Has(more, J, r),
             NEW k \in 1 .. Len(new), NEW l \in 1 .. Len(new), Is(new[k], J, r), Is(new[l], J, r)
      PROVE  k = l
  <2>1. /\ k - Len(more) + d \in 1 .. Len(old) /\ Is(old[k - Len(more) + d], J, r)
        /\ l - Len(more) + d \in 1 .. Len(old) /\ Is(old[l - Len(more) + d], J, r)
    BY <1>1, <1>2 DEF Has
  <2>2. k - Len(more) + d = l - Len(more) + d
    BY <1>2, <2>1 DEF Alone
  <2> QED BY <1>1, <2>2
<1>3. ASSUME Alone(more, J, r), \A k \in d + 1 .. Len(old) : ~Is(old[k], J, r),
             NEW k \in 1 .. Len(new), NEW l \in 1 .. Len(new), Is(new[k], J, r), Is(new[l], J, r)
      PROVE  k = l
  <2>1. k \in 1 .. Len(more) /\ Is(more[k], J, r) /\ l \in 1 .. Len(more) /\ Is(more[l], J, r)
    BY <1>1, <1>3
  <2> QED BY <1>3, <2>1 DEF Alone
<1> QED BY <1>2, <1>3 DEF Alone

LEMMA MovesShape ==
    ASSUME NEW old \in Seq(JobSet), NEW more \in Seq(JobSet), NEW new \in Seq(JobSet),
           NEW d, Moves(old, more, d, new), NEW n \in Nat, NEW m \in Nat, n <= m,
           Shape(old, n), Shape(more, m)
    PROVE  Shape(new, m)
<1>1. /\ Len(old) \in Nat /\ Len(more) \in Nat /\ Len(new) \in Nat /\ d \in Nat
      /\ Len(new) = Len(more) + Len(old) - d
      /\ \A k \in 1 .. Len(new) :
            \/ k \in 1 .. Len(more) /\ new[k] = more[k]
            \/ /\ k > Len(more) /\ k - Len(more) + d \in d + 1 .. Len(old)
               /\ new[k] = old[k - Len(more) + d]
      /\ d <= Len(old)
  <2>1. From(old, more, d, new)
    BY ONLY MovesFrom, Moves(old, more, d, new)
  <2> QED BY ONLY <2>1 DEF From
<1>2. \A i \in 1 .. Len(more) : i \in 1 .. Len(new) /\ new[i] = more[i]
  BY <1>1 DEF Moves
<1>3. \A i \in d + 1 .. Len(old) : Len(more) + i - d \in 1 .. Len(new)
                                   /\ new[Len(more) + i - d] = old[i]
  BY <1>1 DEF Moves
<1> SUFFICES ASSUME NEW k \in 1 .. Len(new)
             PROVE  /\ new[k].r \in 1 .. m
                    /\ new[k].job = "user" /\ new[k].hook = "beforeSend"
                       => /\ k + 2 <= Len(new)
                          /\ Is(new[k + 1], {"check"}, new[k].r)
                          /\ Is(new[k + 2], {"transport"}, new[k].r)
                    /\ new[k].job = "check"
                       => k + 1 <= Len(new) /\ Is(new[k + 1], {"transport"}, new[k].r)
  BY DEF Shape
<1>4. CASE k \in 1 .. Len(more) /\ new[k] = more[k]
  <2>1. /\ more[k].r \in 1 .. m
        /\ more[k].job = "user" /\ more[k].hook = "beforeSend"
           => /\ k + 2 <= Len(more)
              /\ Is(more[k + 1], {"check"}, more[k].r) /\ Is(more[k + 2], {"transport"}, more[k].r)
        /\ more[k].job = "check"
           => k + 1 <= Len(more) /\ Is(more[k + 1], {"transport"}, more[k].r)
    BY <1>4 DEF Shape
  <2>2. /\ k + 1 <= Len(more) => k + 1 \in 1 .. Len(more) /\ k + 1 <= Len(new)
        /\ k + 2 <= Len(more) => k + 1 \in 1 .. Len(more) /\ k + 2 \in 1 .. Len(more) /\ k + 2 <= Len(new)
    BY <1>1
  <2> QED BY <1>2, <1>4, <2>1, <2>2
<1>5. CASE k > Len(more) /\ k - Len(more) + d \in d + 1 .. Len(old)
           /\ new[k] = old[k - Len(more) + d]
  <2>1. PICK i \in d + 1 .. Len(old) : i = k - Len(more) + d
    BY <1>5
  <2>2. i \in 1 .. Len(old) /\ new[k] = old[i]
    BY <1>1, <1>5, <2>1
  <2>3. /\ old[i].r \in 1 .. n
        /\ old[i].job = "user" /\ old[i].hook = "beforeSend"
           => /\ i + 2 <= Len(old)
              /\ Is(old[i + 1], {"check"}, old[i].r) /\ Is(old[i + 2], {"transport"}, old[i].r)
        /\ old[i].job = "check"
           => i + 1 <= Len(old) /\ Is(old[i + 1], {"transport"}, old[i].r)
    BY <2>2 DEF Shape
  <2>4. /\ i + 1 <= Len(old) => /\ i + 1 \in d + 1 .. Len(old) /\ Len(more) + (i + 1) - d = k + 1
                                /\ k + 1 <= Len(new)
        /\ i + 2 <= Len(old) => /\ i + 1 \in d + 1 .. Len(old) /\ Len(more) + (i + 1) - d = k + 1
                                /\ i + 2 \in d + 1 .. Len(old) /\ Len(more) + (i + 2) - d = k + 2
                                /\ k + 2 <= Len(new)
    <3>1. /\ Len(old) \in Nat /\ Len(more) \in Nat /\ Len(new) \in Nat /\ d \in Nat
          /\ Len(new) = Len(more) + Len(old) - d /\ k \in Int
          /\ i \in d + 1 .. Len(old) /\ i = k - Len(more) + d
      BY ONLY <1>1, <2>1, k \in 1 .. Len(new)
    <3> QED BY ONLY <3>1
  <2>5. new[k].r \in 1 .. m
    BY <2>2, <2>3
  <2> QED BY <1>3, <2>2, <2>3, <2>4, <2>5
<1> QED BY <1>1, <1>4, <1>5

-----------------------------------------------------------------------------
(* The steps that begin, settle and complete nothing.                      *)

Marked == {"begin", "complete", "release", "succeed"}

\* They add no such job, but for the browser's answer, and drop none, nor what
\* sends a request that waits, but when user code throws.
Adds(more, d) ==
    /\ Moves(jobs, more, d, jobs') /\ Shape(more, requests)
    /\ \A k \in 1 .. Len(more) :
          more[k].job \notin Marked \/ (jobs = <<>> /\ more[k].job = "succeed")
    /\ ~threw' => \A k \in 1 .. d :
          /\ jobs[k].job \notin Closing
          /\ jobs[k].job \in Sending
             => completed[jobs[k].r] = "true" \/ Has(more, Sending, jobs[k].r)
    /\ jobs # <<>> /\ jobs[1].job = "succeed" => d # 0
Quiet ==
    /\ UNCHANGED <<requests, kind, global, completed, state, active, told, lastGlobal>>
    /\ jobs' \in Seq(JobSet) /\ threw' \in BOOLEAN /\ (threw => threw')
    /\ container' \in [Ids -> Nat]
    /\ \E more \in Seq(JobSet) : \E d \in 0 .. Len(jobs) : Adds(more, d)

LEMMA QuietInv == ASSUME RequestsInv, Quiet PROVE RequestsInv'
<1>1. /\ UNCHANGED <<requests, kind, global, completed, state, active, told, lastGlobal>>
      /\ jobs' \in Seq(JobSet) /\ threw' \in BOOLEAN /\ (threw => threw')
      /\ container' \in [Ids -> Nat]
  BY DEF Quiet
<1>2. PICK more \in Seq(JobSet) : \E d \in 0 .. Len(jobs) : Adds(more, d)
  BY DEF Quiet
<1>3. PICK d \in 0 .. Len(jobs) :
          /\ Moves(jobs, more, d, jobs') /\ Shape(more, requests)
          /\ \A k \in 1 .. Len(more) :
                more[k].job \notin Marked \/ (jobs = <<>> /\ more[k].job = "succeed")
          /\ ~threw' => \A k \in 1 .. d :
                /\ jobs[k].job \notin Closing
                /\ jobs[k].job \in Sending
                   => completed[jobs[k].r] = "true" \/ Has(more, Sending, jobs[k].r)
  BY ONLY <1>2 DEF Adds
<1>4. jobs \in Seq(JobSet) /\ requests \in Nat
  BY DEF RequestsInv, TypeInv
<1>5. \A J, r : J \subseteq Marked \ {"succeed"} => ~Has(more, J, r)
  BY <1>3 DEF Has, Is
<1>6. \A J, r : J \subseteq Marked \ {"succeed"}
         => /\ Has(jobs', J, r) => Has(jobs, J, r)
            /\ Alone(jobs, J, r) => Alone(jobs', J, r)
  BY <1>1, <1>3, <1>4, <1>5, MovesHas, MovesAlone
<1>7. /\ {"begin"} \subseteq Marked \ {"succeed"} /\ {"complete"} \subseteq Marked \ {"succeed"}
      /\ {"release"} \subseteq Marked \ {"succeed"} /\ Closing \subseteq Marked \ {"succeed"}
  BY DEF Marked, Closing
<1>8. TypeInv'
  BY <1>1 DEF RequestsInv, TypeInv
<1>9. JobsInv'
  <2>1. Shape(jobs', requests')
    BY <1>1, <1>3, <1>4, MovesShape DEF RequestsInv, JobsInv
  <2>2. ASSUME NEW r \in Ids
        PROVE  /\ Alone(jobs', {"begin"}, r) /\ Alone(jobs', Closing, r)
               /\ Has(jobs', {"begin"}, r) \/ r > requests' => ~global'[r]
               /\ Has(jobs', Closing, r) => completed'[r] = "true"
               /\ Has(jobs', {"release"}, r) => global'[r]
    <3>1. /\ Has(jobs', {"begin"}, r) => Has(jobs, {"begin"}, r)
          /\ Has(jobs', Closing, r) => Has(jobs, Closing, r)
          /\ Has(jobs', {"release"}, r) => Has(jobs, {"release"}, r)
      BY <1>6, <1>7
    <3>2. /\ Alone(jobs, {"begin"}, r) => Alone(jobs', {"begin"}, r)
          /\ Alone(jobs, Closing, r) => Alone(jobs', Closing, r)
      BY <1>6, <1>7
    <3>3. /\ Alone(jobs, {"begin"}, r) /\ Alone(jobs, Closing, r)
          /\ Has(jobs, {"begin"}, r) \/ r > requests => ~global[r]
          /\ Has(jobs, Closing, r) => completed[r] = "true"
          /\ Has(jobs, {"release"}, r) => global[r]
      BY DEF RequestsInv, JobsInv
    <3> QED BY <1>1, <3>1, <3>2, <3>3
  <2> QED BY <2>1, <2>2 DEF JobsInv
<1>10. ToldInv'
  BY <1>1, <1>6, <1>7 DEF RequestsInv, ToldInv
<1>11. CountInv'
  <2> SUFFICES ASSUME ~threw'
               PROVE  /\ active' = Cardinality(Counted')
                      /\ lastGlobal' = "ajaxStart" <=> active' > 0
                      /\ \A r \in Ids : global'[r] /\ completed'[r] = "undefined"
                                        => Has(jobs', Sending, r)
    BY DEF CountInv
  <2>1. \A k \in 1 .. d :
           /\ jobs[k].job \notin Closing
           /\ jobs[k].job \in Sending
              => completed[jobs[k].r] = "true" \/ Has(more, Sending, jobs[k].r)
    BY <1>3
  <2>2. \A r : \A k \in 1 .. d : ~Is(jobs[k], Closing, r)
    BY <2>1 DEF Is
  <2>3. ASSUME NEW r, Has(jobs, Closing, r) PROVE Has(jobs', Closing, r)
    <3>1. Moves(jobs, more, d, jobs') /\ \A k \in 1 .. d : ~Is(jobs[k], Closing, r)
      BY <1>3, <2>2
    <3> QED BY <1>1, <1>4, <2>3, <3>1, MovesHas
  <2>4. \A r \in Ids : Has(jobs', Closing, r) <=> Has(jobs, Closing, r)
    BY <1>6, <1>7, <2>3
  <2>5. Counted' = Counted
    BY <1>1, <2>4 DEF Counted
  <2>6. ASSUME NEW r \in Ids, completed[r] = "undefined", Has(jobs, Sending, r)
        PROVE  Has(jobs', Sending, r)
    <3>1. CASE Has(more, Sending, r)
      BY <1>1, <1>3, <1>4, <3>1, MovesHas
    <3>2. CASE ~Has(more, Sending, r)
      <4>1. \A k \in 1 .. d : ~Is(jobs[k], Sending, r)
        BY <2>1, <2>6, <3>2 DEF Is
      <4> QED BY <1>1, <1>3, <1>4, <2>6, <4>1, MovesHas
    <3> QED BY <3>1, <3>2
  <2>7. CountInv /\ ~threw
    BY <1>1 DEF RequestsInv
  <2> QED BY <1>1, <2>5, <2>6, <2>7 DEF CountInv
<1> QED BY <1>8, <1>9, <1>10, <1>11 DEF RequestsInv

\* The short sequences that are put in front.
LEMMA Fronts ==
    ASSUME NEW r \in 1 .. requests, requests \in 0 .. MaxRequests
    PROVE  /\ <<>> \in Seq(JobSet) /\ Shape(<<>>, requests)
           /\ \A j \in Kinds \ {"check"} :
                 <<Requests!Job(j, r)>> \in Seq(JobSet) /\ Shape(<<Requests!Job(j, r)>>, requests)
           /\ Requests!AbortJobs(r) \in Seq(JobSet) /\ Shape(Requests!AbortJobs(r), requests)
           /\ Len(Requests!AbortJobs(r)) = 2
           /\ Is(Requests!AbortJobs(r)[1], {"abort"}, r) /\ Is(Requests!AbortJobs(r)[2], {"done"}, r)
           /\ r \in Ids
<1>1. r \in Ids
  BY MaxRequestsAssumption DEF Ids
<1>2. <<>> \in Seq(JobSet) /\ Shape(<<>>, requests)
  BY EmptySeq DEF Shape
<1>3. ASSUME NEW j \in Kinds \ {"check"}
      PROVE  <<Requests!Job(j, r)>> \in Seq(JobSet) /\ Shape(<<Requests!Job(j, r)>>, requests)
  <2>1. Requests!Job(j, r) \in JobSet
    BY <1>1, JobsTyped
  <2>2. "user" \notin Kinds
    BY DEF Kinds
  <2>3. Requests!Job(j, r).job = j /\ Requests!Job(j, r).r = r
    BY DEF Requests!Job
  <2>4. <<Requests!Job(j, r)>> \in Seq(JobSet) /\ Len(<<Requests!Job(j, r)>>) = 1
    BY <2>1
  <2> QED BY <2>2, <2>3, <2>4 DEF Shape
<1>4. /\ Requests!AbortJobs(r) \in Seq(JobSet) /\ Len(Requests!AbortJobs(r)) = 2
      /\ Is(Requests!AbortJobs(r)[1], {"abort"}, r) /\ Is(Requests!AbortJobs(r)[2], {"done"}, r)
  <2>1. Requests!Job("abort", r) \in JobSet /\ Requests!Job("done", r) \in JobSet
    BY <1>1, JobsTyped DEF Kinds
  <2>2. /\ Requests!AbortJobs(r) \in Seq(JobSet) /\ Len(Requests!AbortJobs(r)) = 2
        /\ Requests!AbortJobs(r)[1] = Requests!Job("abort", r)
        /\ Requests!AbortJobs(r)[2] = Requests!Job("done", r)
    BY <2>1 DEF Requests!AbortJobs
  <2> QED BY <2>2 DEF Is, Requests!Job
<1>5. Shape(Requests!AbortJobs(r), requests)
  BY <1>4 DEF Shape, Is
<1> QED BY <1>1, <1>2, <1>3, <1>4, <1>5

LEMMA HeadJob ==
    ASSUME RequestsInv, jobs # <<>>
    PROVE  /\ jobs \in Seq(JobSet) /\ Len(jobs) \in Nat \ {0} /\ Head(jobs) = jobs[1]
           /\ Requests!R = jobs[1].r /\ Requests!R \in Ids /\ Requests!R \in 1 .. requests
           /\ requests \in 0 .. MaxRequests
<1>1. jobs \in Seq(JobSet) /\ requests \in 0 .. MaxRequests
  BY DEF RequestsInv, TypeInv
<1>2. Len(jobs) \in Nat \ {0} /\ Head(jobs) = jobs[1] /\ Head(jobs).r \in Ids
  BY <1>1, EmptySeq, Thened
<1>3. jobs[1].r \in 1 .. requests
  BY <1>2 DEF RequestsInv, JobsInv, Shape
<1> QED BY <1>1, <1>2, <1>3 DEF Requests!R

LEMMA AbortQuiet == ASSUME RequestsInv, Requests!Abort PROVE Quiet
<1>1. PICK r \in 1 .. requests : jobs' = Requests!AbortJobs(r) \o jobs
  BY DEF Requests!Abort
<1>2. /\ jobs \in Seq(JobSet) /\ requests \in 0 .. MaxRequests /\ threw \in BOOLEAN /\ container \in [Ids -> Nat]
      /\ UNCHANGED <<requests, kind, global, completed, state, active, told, lastGlobal, threw, container>>
  BY DEF RequestsInv, TypeInv, Requests!Abort, Requests!options, Requests!jsonp
<1> DEFINE more == Requests!AbortJobs(r)
<1>3. /\ more \in Seq(JobSet) /\ Shape(more, requests) /\ Len(more) = 2
      /\ Is(more[1], {"abort"}, r) /\ Is(more[2], {"done"}, r)
  BY <1>2, Fronts
<1> HIDE DEF more
<1>4. jobs' \in Seq(JobSet) /\ Moves(jobs, more, 0, jobs')
  BY <1>1, <1>2, <1>3, Pushed DEF more
<1>5. \A k \in 1 .. Len(more) : more[k].job \notin Marked
  BY <1>3 DEF Is, Marked
<1>6. PICK d \in 0 .. Len(jobs) : Moves(jobs, more, d, jobs') /\ \A k \in 1 .. d : FALSE
  <2>1. 0 \in 0 .. Len(jobs) /\ \A k \in 1 .. 0 : FALSE
    BY <1>4 DEF Moves
  <2> QED BY <1>4, <2>1
<1>7. jobs # <<>> => jobs[1].job # "succeed"
  BY HeadJob DEF Requests!Abort, Requests!UserCode, Requests!Doing
<1>8. Adds(more, d)
  BY ONLY <1>3, <1>5, <1>6, <1>7 DEF Adds
<1> QED BY <1>2, <1>3, <1>4, <1>6, <1>8 DEF Quiet

\* The steps that leave something to do in place of the head.
LEMMA ThenQuiet ==
    ASSUME RequestsInv, jobs # <<>>, NEW more \in Seq(JobSet), jobs' = more \o Tail(jobs),
           Shape(more, requests), \A k \in 1 .. Len(more) : more[k].job \notin Marked,
           jobs[1].job \notin Closing,
           jobs[1].job \in Sending
           => completed[jobs[1].r] = "true" \/ Has(more, Sending, jobs[1].r),
           UNCHANGED <<requests, kind, global, completed, state, active, told, lastGlobal, threw, container>>
    PROVE  Quiet
<1>1. jobs \in Seq(JobSet) /\ threw \in BOOLEAN /\ container \in [Ids -> Nat]
  BY DEF RequestsInv, TypeInv
<1>2. jobs' \in Seq(JobSet) /\ Moves(jobs, more, 1, jobs')
  BY <1>1, Thened
<1>3. PICK d \in 0 .. Len(jobs) : Moves(jobs, more, d, jobs') /\ d # 0 /\ \A k \in 1 .. d : k = 1
  <2>1. 1 \in 0 .. Len(jobs) /\ \A k \in 1 .. 1 : k = 1
    BY <1>2 DEF Moves
  <2> QED BY <1>2, <2>1
<1>4. Adds(more, d)
  BY <1>3 DEF Adds
<1> QED BY <1>1, <1>2, <1>3, <1>4 DEF Quiet

LEMMA ReturnQuiet == ASSUME RequestsInv, Requests!Return PROVE Quiet
<1>1. jobs # <<>> /\ Head(jobs).job = "user" /\ jobs' = <<>> \o Tail(jobs)
  BY DEF Requests!Return, Requests!Doing, Requests!Then
<1>2. UNCHANGED <<requests, kind, global, completed, state, active, told, lastGlobal, threw, container>>
  BY DEF Requests!Return, Requests!options, Requests!jsonp
<1>3. jobs[1].job = "user"
  BY <1>1, HeadJob
<1>4. <<>> \in Seq(JobSet) /\ Shape(<<>>, requests) /\ \A k \in 1 .. Len(<<>>) : <<>>[k].job \notin Marked
  BY EmptySeq DEF Shape
<1> QED BY <1>1, <1>2, <1>3, <1>4, ThenQuiet DEF Closing, Sending

LEMMA AbortTransportQuiet == ASSUME RequestsInv, Requests!AbortTransport PROVE Quiet
<1>1. jobs # <<>> /\ Head(jobs).job = "abort" /\ jobs' = <<>> \o Tail(jobs)
  BY DEF Requests!AbortTransport, Requests!Doing, Requests!Then
<1>2. UNCHANGED <<requests, kind, global, completed, state, active, told, lastGlobal, threw, container>>
  BY DEF Requests!AbortTransport, Requests!options, Requests!jsonp
<1>3. jobs[1].job = "abort"
  BY <1>1, HeadJob
<1>4. <<>> \in Seq(JobSet) /\ Shape(<<>>, requests) /\ \A k \in 1 .. Len(<<>>) : <<>>[k].job \notin Marked
  BY EmptySeq DEF Shape
<1> QED BY <1>1, <1>2, <1>3, <1>4, ThenQuiet DEF Closing, Sending

\* What has nothing more to do, the request being complete.
LEMMA OverQuiet ==
    ASSUME RequestsInv, jobs # <<>>, Head(jobs).job \notin Closing,
           completed[Requests!R] = "true", jobs' = <<>> \o Tail(jobs),
           UNCHANGED <<requests, kind, global, completed, state, active, told, lastGlobal, threw, container>>
    PROVE  Quiet
<1>1. jobs[1].job \notin Closing /\ completed[jobs[1].r] = "true"
  BY HeadJob
<1>2. <<>> \in Seq(JobSet) /\ Shape(<<>>, requests) /\ \A k \in 1 .. Len(<<>>) : <<>>[k].job \notin Marked
  BY EmptySeq DEF Shape
<1> QED BY <1>1, <1>2, ThenQuiet

LEMMA ThrowQuiet == ASSUME RequestsInv, Requests!Throw PROVE Quiet
<1>1. /\ jobs' = <<>> /\ threw' = TRUE
      /\ UNCHANGED <<requests, kind, global, completed, state, active, told, lastGlobal, container>>
  BY DEF Requests!Throw, Requests!options, Requests!jsonp
<1>2. /\ jobs \in Seq(JobSet) /\ Len(jobs) \in Nat /\ <<>> \in Seq(JobSet)
      /\ container \in [Ids -> Nat]
  BY LenProperties, EmptySeq DEF RequestsInv, TypeInv
<1>3. Moves(jobs, <<>>, Len(jobs), jobs') /\ Shape(<<>>, requests)
  BY <1>1, <1>2 DEF Moves, Shape
<1>4. \A k \in 1 .. Len(<<>>) : <<>>[k].job \notin Marked
  OBVIOUS
<1>5. Len(jobs) \in 0 .. Len(jobs)
  BY <1>2
<1>6. jobs # <<>> => Len(jobs) # 0
  BY <1>2, EmptySeq
<1>7. Adds(<<>>, Len(jobs))
  BY <1>1, <1>3, <1>4, <1>6 DEF Adds
<1> QED BY <1>1, <1>2, <1>5, <1>7 DEF Quiet

LEMMA Tails ==
    ASSUME NEW old \in Seq(JobSet), Len(old) >= 2
    PROVE  /\ Len(old) \in Nat /\ old # <<>>
           /\ Tail(Tail(old)) \in Seq(JobSet) /\ Len(Tail(Tail(old))) = Len(old) - 2
           /\ \A i \in 1 .. Len(Tail(Tail(old))) : Tail(Tail(old))[i] = old[i + 2]
           /\ Len(old) >= 3
              => /\ Tail(Tail(Tail(old))) \in Seq(JobSet)
                 /\ Len(Tail(Tail(Tail(old)))) = Len(old) - 3
                 /\ \A i \in 1 .. Len(Tail(Tail(Tail(old)))) : Tail(Tail(Tail(old)))[i] = old[i + 3]
<1>1. Len(old) \in Nat /\ old # <<>>
  BY LenProperties, EmptySeq
<1>2. PICK t \in Seq(JobSet) : /\ t = Tail(old) /\ Len(t) = Len(old) - 1
                               /\ \A i \in 1 .. Len(t) : t[i] = old[i + 1]
  BY <1>1, HeadTailProperties
<1>3. t # <<>>
  <2>1. Len(t) # 0
    BY <1>1, <1>2
  <2>2. Len(<<>>) = 0
    OBVIOUS
  <2> QED BY <2>1, <2>2
<1>4. PICK u \in Seq(JobSet) : /\ u = Tail(t) /\ Len(u) = Len(t) - 1
                               /\ \A i \in 1 .. Len(u) : u[i] = t[i + 1]
  BY <1>3, HeadTailProperties
<1>5. ASSUME NEW i \in 1 .. Len(u) PROVE u[i] = old[i + 2]
  <2>1. i + 1 \in 1 .. Len(t) /\ (i + 1) + 1 = i + 2
    BY <1>1, <1>2, <1>4
  <2> QED BY <1>2, <1>4, <2>1
<1>6. CASE Len(old) >= 3
  <2>1. u # <<>>
    BY <1>1, <1>2, <1>4, <1>6, EmptySeq
  <2>2. PICK v \in Seq(JobSet) : /\ v = Tail(u) /\ Len(v) = Len(u) - 1
                                 /\ \A i \in 1 .. Len(v) : v[i] = u[i + 1]
    BY <2>1, HeadTailProperties
  <2>3. ASSUME NEW i \in 1 .. Len(v) PROVE v[i] = old[i + 3]
    <3>1. i + 1 \in 1 .. Len(u) /\ (i + 1) + 2 = i + 3
      BY SMTT(30), <1>1, <1>2, <1>4, <2>2
    <3> QED BY <1>5, <2>2, <3>1
  <2>4. /\ Tail(Tail(old)) = u /\ Tail(Tail(Tail(old))) = v
        /\ Len(u) = Len(old) - 2 /\ Len(v) = Len(old) - 3
    BY <1>1, <1>2, <1>4, <2>2
  <2> QED BY <1>1, <1>5, <2>3, <2>4
<1>7. CASE ~(Len(old) >= 3)
  <2>1. Tail(Tail(old)) = u /\ Len(u) = Len(old) - 2
    BY <1>1, <1>2, <1>4
  <2> QED BY <1>1, <1>5, <1>7, <2>1
<1> QED BY <1>6, <1>7

LEMMA ReturnFalseQuiet == ASSUME RequestsInv, Requests!ReturnFalse PROVE Quiet
<1>1. /\ jobs # <<>> /\ Head(jobs).job = "user" /\ Head(jobs).hook = "beforeSend"
      /\ jobs' = Requests!AbortJobs(Requests!R) \o Tail(Tail(Tail(jobs)))
      /\ UNCHANGED <<requests, kind, global, completed, state, active, told, lastGlobal, threw, container>>
  BY DEF Requests!ReturnFalse, Requests!Doing, Requests!options, Requests!jsonp
<1>2. PICK r \in 1 .. requests : r = Requests!R
  BY <1>1, HeadJob
<1>3. /\ jobs \in Seq(JobSet) /\ Len(jobs) \in Nat \ {0} /\ jobs[1].r = r
      /\ jobs[1].job = "user" /\ jobs[1].hook = "beforeSend"
      /\ requests \in 0 .. MaxRequests /\ threw \in BOOLEAN /\ container \in [Ids -> Nat]
  BY <1>1, <1>2, HeadJob DEF RequestsInv, TypeInv
<1>4. /\ 1 + 2 <= Len(jobs)
      /\ Is(jobs[1 + 1], {"check"}, r) /\ Is(jobs[1 + 2], {"transport"}, r)
  BY <1>3 DEF RequestsInv, JobsInv, Shape
<1> DEFINE more == Requests!AbortJobs(r)
           rest == Tail(Tail(Tail(jobs)))
<1>5. /\ more \in Seq(JobSet) /\ Shape(more, requests) /\ Len(more) = 2
      /\ Is(more[1], {"abort"}, r) /\ Is(more[2], {"done"}, r)
  BY <1>3, Fronts
<1>6. /\ rest \in Seq(JobSet) /\ Len(rest) = Len(jobs) - 3
      /\ \A i \in 1 .. Len(rest) : rest[i] = jobs[i + 3]
      /\ 3 \in 0 .. Len(jobs)
  BY SMTT(30), <1>3, <1>4, Tails
<1> HIDE DEF more, rest
<1>7. jobs' \in Seq(JobSet) /\ Moves(jobs, more, 3, jobs')
  BY <1>1, <1>2, <1>3, <1>5, <1>6, Replaced DEF more, rest
<1>8. \A k \in 1 .. Len(more) : more[k].job \notin Marked
  BY <1>5 DEF Is, Marked
<1>9. Has(more, Sending, r)
  BY <1>5 DEF Is, Has, Sending
<1>10. \A k \in 1 .. 3 : jobs[k].r = r /\ jobs[k].job \notin Closing
  BY <1>3, <1>4 DEF Is, Closing
<1>11. PICK d \in 0 .. Len(jobs) : /\ Moves(jobs, more, d, jobs') /\ d # 0
                                   /\ \A k \in 1 .. d : jobs[k].r = r /\ jobs[k].job \notin Closing
  BY <1>6, <1>7, <1>10
<1>12. Adds(more, d)
  BY <1>5, <1>8, <1>9, <1>11 DEF Adds
<1> QED BY <1>1, <1>3, <1>5, <1>7, <1>11, <1>12 DEF Quiet

LEMMA CheckQuiet == ASSUME RequestsInv, Requests!Check PROVE Quiet
<1>1. /\ jobs # <<>> /\ Head(jobs).job = "check"
      /\ jobs' = IF completed[Requests!R] = "true" THEN Tail(Tail(jobs)) ELSE Tail(jobs)
      /\ UNCHANGED <<requests, kind, global, completed, state, active, told, lastGlobal, threw, container>>
  BY DEF Requests!Check, Requests!Doing, Requests!options, Requests!jsonp
<1>2. PICK r \in 1 .. requests : r = Requests!R
  BY <1>1, HeadJob
<1>3. /\ jobs \in Seq(JobSet) /\ Len(jobs) \in Nat \ {0} /\ jobs[1].r = r
      /\ jobs[1].job = "check" /\ threw \in BOOLEAN /\ container \in [Ids -> Nat]
  BY <1>1, <1>2, HeadJob DEF RequestsInv, TypeInv
<1>4. 1 + 1 <= Len(jobs) /\ Is(jobs[1 + 1], {"transport"}, r)
  BY <1>3 DEF RequestsInv, JobsInv, Shape
<1>5. <<>> \in Seq(JobSet) /\ Shape(<<>>, requests) /\ \A k \in 1 .. Len(<<>>) : <<>>[k].job \notin Marked
  BY EmptySeq DEF Shape
<1>6. CASE completed[r] = "true"
  <2>1. PICK rest \in Seq(JobSet) :
           /\ rest = Tail(Tail(jobs)) /\ Len(rest) = Len(jobs) - 2 /\ 2 \in 0 .. Len(jobs)
           /\ \A i \in 1 .. Len(rest) : rest[i] = jobs[i + 2]
    <3>1. Len(jobs) >= 2 /\ 2 \in 0 .. Len(jobs)
      BY <1>3, <1>4
    <3>2. /\ Tail(Tail(jobs)) \in Seq(JobSet) /\ Len(Tail(Tail(jobs))) = Len(jobs) - 2
          /\ \A i \in 1 .. Len(Tail(Tail(jobs))) : Tail(Tail(jobs))[i] = jobs[i + 2]
      BY <1>3, <3>1, Tails
    <3> QED BY <3>1, <3>2
  <2>2. jobs' = <<>> \o rest
    BY <1>1, <1>2, <1>6, <2>1, ConcatEmptySeq
  <2>3. jobs' \in Seq(JobSet) /\ Moves(jobs, <<>>, 2, jobs')
    BY <1>3, <1>5, <2>1, <2>2, Replaced
  <2>4. \A k \in 1 .. 2 : jobs[k].job \notin Closing /\ completed[jobs[k].r] = "true"
    BY <1>3, <1>4, <1>6 DEF Is, Closing
  <2>5. Adds(<<>>, 2)
    BY <1>5, <2>3, <2>4 DEF Adds
  <2> QED BY <1>1, <1>3, <1>5, <2>1, <2>3, <2>5 DEF Quiet
<1>7. CASE completed[r] # "true"
  <2>1. Tail(jobs) \in Seq(JobSet)
    BY <1>1, <1>3, HeadTailProperties
  <2>2. jobs' = <<>> \o Tail(jobs)
    BY <1>1, <1>2, <1>7, <2>1, ConcatEmptySeq
  <2> QED BY <1>1, <1>3, <1>5, <2>2, ThenQuiet DEF Closing, Sending
<1> QED BY <1>6, <1>7

LEMMA TransportQuiet == ASSUME RequestsInv, Requests!Transport PROVE Quiet
<1>1. /\ jobs # <<>> /\ Head(jobs).job = "transport"
      /\ UNCHANGED <<requests, kind, global, completed, state, active, told, lastGlobal, threw, container>>
  BY DEF Requests!Transport, Requests!Doing, Requests!options, Requests!jsonp
<1>2. PICK r \in 1 .. requests : r = Requests!R
  BY <1>1, HeadJob
<1>3. /\ jobs[1].r = r /\ jobs[1].job = "transport" /\ requests \in 0 .. MaxRequests
      /\ r \in Ids
  BY <1>1, <1>2, HeadJob
<1>4. PICK more : /\ jobs' = more \o Tail(jobs)
                  /\ \/ more = <<Requests!Job("done", r)>>
                     \/ more = <<Requests!User("ajaxSend", r)>> \o <<Requests!Job("send", r)>>
                     \/ more = <<>> \o <<Requests!Job("send", r)>>
  BY <1>2 DEF Requests!Transport, Requests!Then
<1>5. /\ <<Requests!Job("done", r)>> \in Seq(JobSet) /\ <<Requests!Job("send", r)>> \in Seq(JobSet)
      /\ Requests!User("ajaxSend", r) \in JobSet /\ Requests!Job("send", r) \in JobSet
  BY <1>3, JobsTyped DEF Kinds, Hooks
<1>6. \/ more = <<Requests!Job("done", r)>>
      \/ more = <<Requests!User("ajaxSend", r), Requests!Job("send", r)>>
      \/ more = <<Requests!Job("send", r)>>
  BY <1>4, <1>5, Two, ConcatEmptySeq
<1>7. /\ more \in Seq(JobSet) /\ Shape(more, requests) /\ Has(more, Sending, r)
      /\ \A k \in 1 .. Len(more) : more[k].job \notin Marked
  <2>1. CASE more = <<Requests!Job("done", r)>>
    BY <1>3, <1>5, <2>1 DEF Shape, Has, Is, Sending, Marked, Requests!Job
  <2>2. CASE more = <<Requests!User("ajaxSend", r), Requests!Job("send", r)>>
    <3>1. more \in Seq(JobSet) /\ Len(more) = 2 /\ more[1] = Requests!User("ajaxSend", r)
          /\ more[2] = Requests!Job("send", r)
      BY <1>5, <2>2
    <3> QED BY <1>3, <3>1 DEF Shape, Has, Is, Sending, Marked, Requests!Job, Requests!User
  <2>3. CASE more = <<Requests!Job("send", r)>>
    BY <1>3, <1>5, <2>3 DEF Shape, Has, Is, Sending, Marked, Requests!Job
  <2> QED BY <1>6, <2>1, <2>2, <2>3
<1> QED BY <1>1, <1>3, <1>4, <1>7, ThenQuiet DEF Closing

LEMMA BrowserQuiet ==
    ASSUME RequestsInv, NEW r \in 1 .. requests,
           Requests!Answer(r) \/ Requests!Script(r) \/ Requests!Timeout(r)
    PROVE  Quiet
<1>1. /\ jobs = <<>>
      /\ UNCHANGED <<requests, kind, global, completed, state, active, told, lastGlobal, threw>>
  BY DEF Requests!Answer, Requests!Script, Requests!Timeout, Requests!options, Requests!jsonp
<1>2. \/ jobs' = <<>> \/ jobs' = Requests!AbortJobs(r)
      \/ jobs' = <<Requests!Job("succeed", r)>> \/ jobs' = <<Requests!Job("done", r)>>
  BY DEF Requests!Answer, Requests!Script, Requests!Timeout
<1>3. requests \in 0 .. MaxRequests /\ threw \in BOOLEAN /\ container \in [Ids -> Nat]
  BY DEF RequestsInv, TypeInv
<1>4. jobs' \in Seq(JobSet) /\ Shape(jobs', requests)
  BY <1>2, <1>3, Fronts DEF Kinds
<1>5. \A k \in 1 .. Len(jobs') : jobs'[k].job \notin Marked \/ jobs'[k].job = "succeed"
  <2>1. CASE jobs' = Requests!AbortJobs(r)
    <3>1. PICK js : js = jobs'
      OBVIOUS
    <3>2. Len(js) = 2 /\ Is(js[1], {"abort"}, r) /\ Is(js[2], {"done"}, r)
      BY <1>3, <2>1, <3>1, Fronts
    <3> QED BY <3>1, <3>2 DEF Is, Marked
  <2>2. CASE jobs' # Requests!AbortJobs(r)
    BY <1>2, <2>2 DEF Marked, Requests!Job
  <2> QED BY <2>1, <2>2
<1>6. PICK d \in 0 .. Len(jobs) : Moves(jobs, jobs', d, jobs') /\ \A k \in 1 .. d : FALSE
  <2>1. Moves(jobs, jobs', 0, jobs') /\ 0 \in 0 .. Len(jobs) /\ \A k \in 1 .. 0 : FALSE
    BY <1>1, <1>4, LenProperties DEF Moves
  <2> QED BY <2>1
<1>7. container' \in [Ids -> Nat]
  <2>1. \A q : container[q] \in Nat \/ q \notin Ids
    BY <1>3
  <2>2. container' = container
        \/ \E does \in BOOLEAN : container' = [q \in 1 .. MaxRequests |->
              IF does /\ q = installed[name[r]] THEN r ELSE container[q]]
    <3>1. CASE Requests!Script(r)
      <4>1. PICK script \in {"calls", "silent", "error"} : container' = [q \in 1 .. MaxRequests |->
              IF script = "calls" /\ q = installed[name[r]] THEN r ELSE container[q]]
        BY <3>1 DEF Requests!Script, Requests!Requests
      <4> QED BY <4>1
    <3>2. CASE Requests!Answer(r) \/ Requests!Timeout(r)
      BY <3>2 DEF Requests!Answer, Requests!Timeout, Requests!jsonp
    <3> QED BY <3>1, <3>2
  <2> QED BY <1>3, <2>1, <2>2 DEF Ids
<1>8. Adds(jobs', d)
  <2>1. PICK js : js = jobs'
    OBVIOUS
  <2>2. /\ Moves(jobs, js, d, jobs') /\ Shape(js, requests)
        /\ \A k \in 1 .. Len(js) :
              js[k].job \notin Marked \/ (jobs = <<>> /\ js[k].job = "succeed")
    BY <1>1, <1>4, <1>5, <1>6, <2>1
  <2>3. Adds(js, d)
    BY ONLY <1>1, <1>6, <2>2 DEF Adds
  <2> QED BY <2>1, <2>3
<1> QED BY <1>1, <1>3, <1>4, <1>6, <1>7, <1>8 DEF Quiet

-----------------------------------------------------------------------------
(* The other steps, one by one.                                            *)

\* What a step that puts `more' in place of the head does to one kind of job.
LEMMA StepHas ==
    ASSUME RequestsInv, jobs # <<>>, NEW more \in Seq(JobSet), jobs' = more \o Tail(jobs),
           NEW J, NEW r
    PROVE  /\ Has(jobs', J, r) => Has(more, J, r) \/ Has(jobs, J, r)
           /\ Has(more, J, r) => Has(jobs', J, r)
           /\ Has(jobs, J, r) /\ ~Is(jobs[1], J, r) => Has(jobs', J, r)
           /\ Alone(jobs, J, r) /\ ~Has(more, J, r) => Alone(jobs', J, r)
           /\ Alone(jobs, J, r) /\ Is(jobs[1], J, r) /\ ~Has(more, J, r) => ~Has(jobs', J, r)
           /\ Alone(jobs, J, r) /\ Is(jobs[1], J, r) /\ Alone(more, J, r) => Alone(jobs', J, r)
<1>1. jobs \in Seq(JobSet) /\ Len(jobs) \in Nat \ {0}
  BY HeadJob
<1>2. PICK new \in Seq(JobSet) : new = jobs' /\ Moves(jobs, more, 1, new)
  BY <1>1, Thened
<1> DEFINE d == 1
<1>d. Moves(jobs, more, d, new) /\ d = 1
  BY <1>2
<1> HIDE DEF d
<1>3. /\ Has(new, J, r) => Has(more, J, r) \/ \E k \in d + 1 .. Len(jobs) : Is(jobs[k], J, r)
      /\ Has(new, J, r) => Has(more, J, r) \/ Has(jobs, J, r)
      /\ Has(more, J, r) => Has(new, J, r)
      /\ Has(jobs, J, r) /\ (\A k \in 1 .. d : ~Is(jobs[k], J, r)) => Has(new, J, r)
  BY <1>1, <1>d, MovesHas
<1>4. /\ Alone(jobs, J, r) /\ ~Has(more, J, r) => Alone(new, J, r)
      /\ Alone(more, J, r) /\ (\A k \in d + 1 .. Len(jobs) : ~Is(jobs[k], J, r))
         => Alone(new, J, r)
  BY <1>1, <1>d, MovesAlone
<1>5. ASSUME Alone(jobs, J, r), Is(jobs[1], J, r), NEW k \in d + 1 .. Len(jobs)
      PROVE  ~Is(jobs[k], J, r)
  <2>1. 1 \in 1 .. Len(jobs) /\ k \in 1 .. Len(jobs) /\ k # 1
    BY <1>1, <1>d
  <2> QED BY <1>5, <2>1 DEF Alone
<1>6. \A k \in 1 .. d : k = 1
  BY <1>d
<1>7. Has(jobs, J, r) /\ ~Is(jobs[1], J, r) => Has(new, J, r)
  BY <1>3, <1>6
<1> QED BY <1>2, <1>3, <1>4, <1>5, <1>7

LEMMA StepShape ==
    ASSUME RequestsInv, jobs # <<>>, NEW more \in Seq(JobSet), jobs' = more \o Tail(jobs),
           Shape(more, requests), requests' = requests
    PROVE  jobs' \in Seq(JobSet) /\ Shape(jobs', requests')
<1>1. jobs \in Seq(JobSet) /\ requests \in Nat /\ Shape(jobs, requests)
  BY HeadJob DEF RequestsInv, JobsInv
<1>2. PICK new \in Seq(JobSet) : new = jobs' /\ Moves(jobs, more, 1, new)
  BY <1>1, Thened
<1>3. Shape(new, requests)
  <2>1. PICK n \in Nat : n = requests /\ n <= n /\ Shape(jobs, n) /\ Shape(more, n)
    BY <1>1
  <2> QED BY <1>1, <1>2, <2>1, MovesShape
<1> QED BY <1>2, <1>3

LEMMA CountedFinite == IsFiniteSet(Counted)
<1>1. IsFiniteSet(1 .. MaxRequests)
  BY MaxRequestsAssumption, FS_Interval
<1>2. Counted \in SUBSET (1 .. MaxRequests)
  BY DEF Counted, Ids
<1> QED BY <1>1, <1>2, FS_Subset

LEMMA RequestInv == ASSUME RequestsInv, Requests!Request PROVE RequestsInv'
<1> DEFINE r == requests + 1
           more == <<Requests!User("prefilter", r), Requests!Job("begin", r)>>
<1>1. /\ requests < MaxRequests /\ requests' = r /\ jobs' = more \o jobs
      /\ kind' \in {[kind EXCEPT ![r] = "xhr"], [kind EXCEPT ![r] = "jsonp"]}
      /\ UNCHANGED <<global, completed, state, active, told, lastGlobal, threw, container>>
  BY DEF Requests!Request, Requests!jsonp
<1>2. /\ jobs \in Seq(JobSet) /\ requests \in 0 .. MaxRequests /\ requests \in Nat
      /\ r \in Ids /\ r \in Nat /\ requests <= r /\ r > requests /\ Shape(jobs, requests)
  BY <1>1, MaxRequestsAssumption DEF RequestsInv, TypeInv, JobsInv, Ids
<1>3. Requests!User("prefilter", r) \in JobSet /\ Requests!Job("begin", r) \in JobSet
  BY <1>2, JobsTyped DEF Kinds, Hooks
<1>4. /\ more \in Seq(JobSet) /\ Len(more) = 2
      /\ more[1].job = "user" /\ more[1].hook = "prefilter" /\ more[1].r = r
      /\ more[2].job = "begin" /\ more[2].r = r
  BY <1>3 DEF Requests!User, Requests!Job
<1> HIDE DEF more
<1>5. Shape(more, r)
  BY <1>2, <1>4 DEF Shape
<1>6. /\ \A q : ~Has(more, Closing, q) /\ ~Has(more, {"complete"}, q) /\ ~Has(more, {"release"}, q)
      /\ \A q : q # r => ~Has(more, {"begin"}, q)
      /\ Alone(more, {"begin"}, r)
  BY <1>4 DEF Has, Is, Closing, Alone
<1>7. PICK new \in Seq(JobSet) : new = jobs' /\ Moves(jobs, more, 0, new)
  BY <1>1, <1>2, <1>4, Pushed
<1>8. \A J, q : /\ Has(new, J, q) => Has(more, J, q) \/ Has(jobs, J, q)
                /\ Has(jobs, J, q) => Has(new, J, q)
                /\ Alone(jobs, J, q) /\ ~Has(more, J, q) => Alone(new, J, q)
  <2> SUFFICES ASSUME NEW J, NEW q
               PROVE  /\ Has(new, J, q) => Has(more, J, q) \/ Has(jobs, J, q)
                      /\ Has(jobs, J, q) => Has(new, J, q)
                      /\ Alone(jobs, J, q) /\ ~Has(more, J, q) => Alone(new, J, q)
    OBVIOUS
  <2>1. /\ Has(new, J, q) => Has(more, J, q) \/ Has(jobs, J, q)
        /\ Has(jobs, J, q) /\ (\A k \in 1 .. 0 : ~Is(jobs[k], J, q)) => Has(new, J, q)
    BY <1>2, <1>4, <1>7, MovesHas
  <2>2. Alone(jobs, J, q) /\ ~Has(more, J, q) => Alone(new, J, q)
    BY <1>2, <1>4, <1>7, MovesAlone
  <2> QED BY <2>1, <2>2
<1>9. Alone(new, {"begin"}, r)
  <2>1. \A k \in 0 + 1 .. Len(jobs) : ~Is(jobs[k], {"begin"}, r)
    BY <1>2 DEF Shape, Is
  <2> QED BY <1>2, <1>4, <1>6, <1>7, <2>1, MovesAlone
<1>10. TypeInv'
  <2>1. kind' \in [Ids -> {"none", "xhr", "jsonp"}]
    BY <1>1, <1>2 DEF RequestsInv, TypeInv
  <2>2. requests' \in 0 .. MaxRequests
    BY <1>1, <1>2, MaxRequestsAssumption
  <2>3. jobs' \in Seq(JobSet)
    BY <1>7
  <2> QED BY <1>1, <2>1, <2>2, <2>3 DEF RequestsInv, TypeInv
<1>11. Shape(new, r)
  BY <1>2, <1>4, <1>5, <1>7, MovesShape
<1>12. ASSUME NEW q \in Ids
       PROVE  /\ Alone(new, {"begin"}, q) /\ Alone(new, Closing, q)
              /\ Has(new, {"begin"}, q) \/ q > r => ~global[q]
              /\ Has(new, Closing, q) => completed[q] = "true"
              /\ Has(new, {"release"}, q) => global[q]
  <2>1. /\ Alone(jobs, {"begin"}, q) /\ Alone(jobs, Closing, q)
        /\ Has(jobs, {"begin"}, q) \/ q > requests => ~global[q]
        /\ Has(jobs, Closing, q) => completed[q] = "true"
        /\ Has(jobs, {"release"}, q) => global[q]
    BY DEF RequestsInv, JobsInv
  <2>2. Has(new, Closing, q) => Has(jobs, Closing, q)
    BY <1>6, <1>8
  <2>3. Has(new, {"release"}, q) => Has(jobs, {"release"}, q)
    BY <1>6, <1>8
  <2>4. Alone(new, Closing, q)
    BY <1>6, <1>8, <2>1
  <2>5. Alone(new, {"begin"}, q)
    BY <1>6, <1>8, <1>9, <2>1
  <2>6. Has(new, {"begin"}, q) => q = r \/ Has(jobs, {"begin"}, q)
    BY <1>6, <1>8
  <2>7. q > r \/ q = r => q > requests
    BY <1>2 DEF Ids
  <2> QED BY <2>1, <2>2, <2>3, <2>4, <2>5, <2>6, <2>7
<1>13. JobsInv'
  BY <1>1, <1>7, <1>11, <1>12 DEF JobsInv
<1>14. ToldInv'
  <2>1. \A q : Has(new, {"complete"}, q) => Has(jobs, {"complete"}, q)
    BY <1>6, <1>8
  <2> QED BY <1>1, <1>7, <2>1 DEF RequestsInv, ToldInv
<1>15. CountInv'
  <2>1. \A q : Has(new, Closing, q) <=> Has(jobs, Closing, q)
    BY <1>6, <1>8
  <2>2. Counted' = Counted
    BY <1>1, <1>7, <2>1 DEF Counted
  <2>3. \A q : Has(jobs, Sending, q) => Has(new, Sending, q)
    BY <1>8
  <2> QED BY <1>1, <1>7, <2>2, <2>3 DEF RequestsInv, CountInv
<1> QED BY <1>10, <1>13, <1>14, <1>15 DEF RequestsInv

LEMMA Stacked ==
    ASSUME NEW n \in Nat, NEW x \in Seq(JobSet), NEW y \in Seq(JobSet),
           Shape(x, n), Shape(y, n),
           \A k \in 1 .. Len(x) : x[k].job \notin Marked,
           \A k \in 1 .. Len(y) : y[k].job \notin Marked,
           NEW J, NEW r, Has(y, J, r)
    PROVE  /\ x \o y \in Seq(JobSet) /\ Shape(x \o y, n) /\ Has(x \o y, J, r)
           /\ \A k \in 1 .. Len(x \o y) : (x \o y)[k].job \notin Marked
<1> DEFINE d == 0
<1>1. PICK new \in Seq(JobSet) : new = x \o y /\ Moves(y, x, d, new)
  BY Pushed
<1>2. n <= n /\ \A k \in 1 .. d : ~Is(y[k], J, r)
  OBVIOUS
<1> HIDE DEF d
<1>3. Shape(new, n)
  BY <1>1, <1>2, MovesShape
<1>4. Has(new, J, r)
  <2>1. x \in Seq(JobSet) /\ y \in Seq(JobSet) /\ new \in Seq(JobSet) /\ Moves(y, x, d, new)
    BY <1>1
  <2>2. Has(y, J, r) /\ (\A k \in 1 .. d : ~Is(y[k], J, r)) => Has(new, J, r)
    BY ONLY <2>1, MovesHas
  <2> QED BY <1>2, <2>2
<1>5. \A k \in 1 .. Len(new) : new[k].job \notin Marked
  <2>1. From(y, x, d, new)
    BY <1>1, MovesFrom
  <2> SUFFICES ASSUME NEW k \in 1 .. Len(new) PROVE new[k].job \notin Marked
    OBVIOUS
  <2>2. \/ k \in 1 .. Len(x) /\ new[k] = x[k]
        \/ k - Len(x) + d \in d + 1 .. Len(y) /\ new[k] = y[k - Len(x) + d]
    BY <2>1 DEF From
  <2>3. \A i \in d + 1 .. Len(y) : i \in 1 .. Len(y)
    BY <2>1 DEF From
  <2> QED BY <2>2, <2>3
<1> QED BY <1>1, <1>3, <1>4, <1>5

\* What jQuery.ajax goes on with: global events and user code, and in the end
\* the transport.
LEMMA BeginJobs ==
    ASSUME NEW r \in 1 .. requests, requests \in 0 .. MaxRequests,
           NEW starts \in BOOLEAN, NEW beforeSend \in BOOLEAN,
           NEW more,
           more = ((IF starts THEN <<Requests!User("ajaxStart", r)>> ELSE <<>>)
                   \o (IF beforeSend THEN <<Requests!User("beforeSend", r), Requests!Job("check", r)>>
                       ELSE <<>>))
                  \o <<Requests!Job("transport", r)>>
    PROVE  /\ more \in Seq(JobSet) /\ Shape(more, requests) /\ Has(more, Sending, r)
           /\ \A k \in 1 .. Len(more) : more[k].job \notin Marked
<1> DEFINE a == Requests!User("ajaxStart", r)
           b == Requests!User("beforeSend", r)
           c == Requests!Job("check", r)
           t == Requests!Job("transport", r)
           first == IF starts THEN <<a>> ELSE <<>>
           second == IF beforeSend THEN <<b, c>> ELSE <<>>
<1>1. r \in Ids
  BY MaxRequestsAssumption DEF Ids
<1>2. /\ a \in JobSet /\ b \in JobSet /\ c \in JobSet /\ t \in JobSet
      /\ a.job = "user" /\ a.hook = "ajaxStart" /\ a.r = r
      /\ b.job = "user" /\ b.hook = "beforeSend" /\ b.r = r
      /\ c.job = "check" /\ c.r = r /\ t.job = "transport" /\ t.r = r
  BY <1>1, JobsTyped DEF Kinds, Hooks, Requests!User, Requests!Job
<1> HIDE DEF a, b, c, t
<1>3. /\ first \in Seq(JobSet) /\ second \in Seq(JobSet) /\ <<t>> \in Seq(JobSet)
      /\ <<b, c, t>> \in Seq(JobSet) /\ <<a>> \in Seq(JobSet)
  BY <1>2, EmptySeq
<1>4. second \o <<t>> = IF beforeSend THEN <<b, c, t>> ELSE <<t>>
  BY <1>2, <1>3, Three, ConcatEmptySeq
<1>5. more = (first \o second) \o <<t>>
  BY DEF a, b, c, t
<1> HIDE DEF first, second
<1>0. requests \in Nat
  OBVIOUS
<1>6. more = first \o (second \o <<t>>)
  BY ONLY <1>3, <1>5, ConcatAssociative
<1>7. PICK last \in Seq(JobSet) :
         /\ last = second \o <<t>> /\ Shape(last, requests) /\ Has(last, Sending, r)
         /\ \A k \in 1 .. Len(last) : last[k].job \notin Marked
  <2>1. CASE beforeSend
    <3> DEFINE last == <<b, c, t>>
    <3>1. /\ last \in Seq(JobSet) /\ Len(last) = 3 /\ last[1] = b /\ last[2] = c /\ last[3] = t
      BY <1>2, <1>3
    <3> HIDE DEF last
    <3>2. Shape(last, requests)
      <4> SUFFICES ASSUME NEW k \in {1, 2, 3}
                   PROVE  /\ last[k].r \in 1 .. requests
                          /\ last[k].job = "user" /\ last[k].hook = "beforeSend"
                             => /\ k + 2 <= 3
                                /\ Is(last[k + 1], {"check"}, last[k].r)
                                /\ Is(last[k + 2], {"transport"}, last[k].r)
                          /\ last[k].job = "check"
                             => k + 1 <= 3 /\ Is(last[k + 1], {"transport"}, last[k].r)
        BY <3>1 DEF Shape
      <4>1. CASE k = 1
        BY <1>2, <3>1, <4>1 DEF Is
      <4>2. CASE k = 2
        BY <1>2, <3>1, <4>2 DEF Is
      <4>3. CASE k = 3
        BY <1>2, <3>1, <4>3 DEF Is
      <4> QED BY <4>1, <4>2, <4>3
    <3>3. Has(last, Sending, r)
      BY <1>2, <3>1 DEF Has, Is, Sending
    <3>4. \A k \in 1 .. Len(last) : last[k].job \notin Marked
      BY <1>2, <3>1 DEF Marked
    <3>5. last = second \o <<t>>
      BY <1>4, <2>1 DEF last
    <3> QED BY <3>1, <3>2, <3>3, <3>4, <3>5
  <2>2. CASE ~beforeSend
    <3> DEFINE last == <<t>>
    <3>1. last \in Seq(JobSet) /\ Len(last) = 1 /\ last[1] = t
      BY <1>2, <1>3
    <3> HIDE DEF last
    <3>2. Shape(last, requests) /\ Has(last, Sending, r)
      BY <1>2, <3>1 DEF Shape, Has, Is, Sending
    <3>3. \A k \in 1 .. Len(last) : last[k].job \notin Marked
      BY <1>2, <3>1 DEF Marked
    <3>4. last = second \o <<t>>
      BY <1>4, <2>2 DEF last
    <3> QED BY <3>1, <3>2, <3>3, <3>4
  <2> QED BY <2>1, <2>2
<1>8. CASE ~starts
  <2>1. more = last
    BY <1>3, <1>6, <1>7, <1>8, ConcatEmptySeq DEF first
  <2> QED BY <1>7, <2>1
<1>9. CASE starts
  <2>1. PICK x \in Seq(JobSet) : x = <<a>> /\ Len(x) = 1 /\ x[1] = a
    BY <1>3
  <2>2. more = x \o last
    BY <1>6, <1>7, <1>9, <2>1 DEF first
  <2>3. Shape(x, requests) /\ \A k \in 1 .. Len(x) : x[k].job \notin Marked
    BY <1>2, <2>1 DEF Shape, Marked
  <2>4. /\ x \o last \in Seq(JobSet) /\ Shape(x \o last, requests) /\ Has(x \o last, Sending, r)
        /\ \A k \in 1 .. Len(x \o last) : (x \o last)[k].job \notin Marked
    BY ONLY <1>0, <1>7, <2>1, <2>3, Stacked
  <2> QED BY <2>2, <2>4
<1> QED BY <1>8, <1>9

LEMMA BeginInv == ASSUME RequestsInv, Requests!Begin PROVE RequestsInv'
<1>1. jobs # <<>> /\ Head(jobs).job = "begin"
  BY DEF Requests!Begin, Requests!Doing
<1>2. PICK r \in 1 .. requests : r = Requests!R
  BY <1>1, HeadJob
<1>3. /\ jobs \in Seq(JobSet) /\ Len(jobs) \in Nat \ {0} /\ jobs[1].job = "begin" /\ jobs[1].r = r
      /\ r \in Ids /\ requests \in 0 .. MaxRequests
  BY <1>1, <1>2, HeadJob
<1>4. UNCHANGED <<requests, kind, completed, state, told, threw, container>>
  BY DEF Requests!Begin, Requests!options, Requests!jsonp
<1>5. CASE completed[r] = "true"
  <2>1. jobs' = <<>> \o Tail(jobs) /\ UNCHANGED <<global, active, lastGlobal>>
    BY <1>2, <1>5 DEF Requests!Begin, Requests!Then
  <2>2. Head(jobs).job \notin Closing
    BY <1>1 DEF Closing
  <2>3. Quiet
    BY <1>1, <1>2, <1>4, <1>5, <2>1, <2>2, OverQuiet
  <2> QED BY <2>3, QuietInv
<1>6. CASE completed[r] # "true"
  <2>1. PICK globally \in BOOLEAN, beforeSend \in BOOLEAN :
          LET starts == globally /\ active = 0
          IN  /\ global' = [global EXCEPT ![r] = globally]
              /\ active' = IF globally THEN active + 1 ELSE active
              /\ lastGlobal' = IF starts THEN "ajaxStart" ELSE lastGlobal
              /\ Requests!Then((IF starts THEN <<Requests!User("ajaxStart", r)>> ELSE <<>>)
                      \o (IF beforeSend
                          THEN <<Requests!User("beforeSend", r), Requests!Job("check", r)>>
                          ELSE <<>>)
                      \o <<Requests!Job("transport", r)>>)
    BY <1>2, <1>6 DEF Requests!Begin
  <2>2. PICK starts \in BOOLEAN : starts = (globally /\ active = 0)
    OBVIOUS
  <2>3. PICK more :
          more = ((IF starts THEN <<Requests!User("ajaxStart", r)>> ELSE <<>>)
                  \o (IF beforeSend
                      THEN <<Requests!User("beforeSend", r), Requests!Job("check", r)>>
                      ELSE <<>>))
                 \o <<Requests!Job("transport", r)>>
    OBVIOUS
  <2>4. /\ more \in Seq(JobSet) /\ Shape(more, requests) /\ Has(more, Sending, r)
        /\ \A k \in 1 .. Len(more) : more[k].job \notin Marked
    <3>1. /\ r \in 1 .. requests /\ requests \in 0 .. MaxRequests
          /\ starts \in BOOLEAN /\ beforeSend \in BOOLEAN
      BY ONLY <1>2, <1>3, <2>1, <2>2
    <3> QED BY ONLY <2>3, <3>1, BeginJobs
  <2>5. /\ global' = [global EXCEPT ![r] = globally]
        /\ active' = IF globally THEN active + 1 ELSE active
        /\ lastGlobal' = IF globally /\ active = 0 THEN "ajaxStart" ELSE lastGlobal
        /\ jobs' = more \o Tail(jobs)
    BY <2>1, <2>2, <2>3 DEF Requests!Then
  <2>6. \A J, q : J \subseteq Marked => ~Has(more, J, q)
    BY <2>4 DEF Has, Is
  <2>7. {"begin"} \subseteq Marked /\ {"complete"} \subseteq Marked
        /\ {"release"} \subseteq Marked /\ Closing \subseteq Marked
    BY DEF Marked, Closing
  <2>8. \A J, q : J \subseteq Marked
           => /\ Has(jobs', J, q) => Has(jobs, J, q)
              /\ Alone(jobs, J, q) => Alone(jobs', J, q)
    BY <1>1, <2>4, <2>5, <2>6, StepHas
  <2>9. ASSUME NEW q \in Ids
        PROVE  /\ Alone(jobs, {"begin"}, q) /\ Alone(jobs, Closing, q)
               /\ Has(jobs, {"begin"}, q) \/ q > requests => ~global[q]
               /\ Has(jobs, Closing, q) => completed[q] = "true"
               /\ Has(jobs, {"release"}, q) => global[q] /\ Has(jobs, Closing, q)
    BY DEF RequestsInv, JobsInv, Has, Is, Closing
  <2>10. Is(jobs[1], {"begin"}, r) /\ Has(jobs, {"begin"}, r)
    BY <1>3 DEF Is, Has
  <2>11. ~Has(jobs', {"begin"}, r)
    <3>1. ~Has(more, {"begin"}, r) /\ Alone(jobs, {"begin"}, r)
      BY <1>3, <2>6, <2>7, <2>9
    <3>2. RequestsInv /\ jobs # <<>>
      BY <1>1
    <3> QED BY ONLY <2>4, <2>5, <2>10, <3>1, <3>2, StepHas
  <2>12. ~global[r] /\ ~Has(jobs, Closing, r) /\ ~Has(jobs, {"release"}, r)
    BY <1>3, <1>6, <2>9, <2>10
  <2>13. \A q \in Ids : q # r => global'[q] = global[q]
    BY <2>5 DEF RequestsInv, TypeInv
  <2>14. global'[r] = globally
    BY <1>3, <2>5 DEF RequestsInv, TypeInv
  <2>15. jobs' \in Seq(JobSet) /\ Shape(jobs', requests')
    BY <1>1, <1>4, <2>4, <2>5, StepShape
  <2>16. TypeInv'
    <3>1. global' \in [Ids -> BOOLEAN] /\ active' \in Int /\ lastGlobal' \in {"ajaxStart", "ajaxStop"}
      BY <1>3, <2>5 DEF RequestsInv, TypeInv
    <3> QED BY <1>4, <2>15, <3>1 DEF RequestsInv, TypeInv
  <2>17. JobsInv'
    <3> SUFFICES ASSUME NEW q \in Ids
                 PROVE  /\ Alone(jobs', {"begin"}, q) /\ Alone(jobs', Closing, q)
                        /\ Has(jobs', {"begin"}, q) \/ q > requests => ~global'[q]
                        /\ Has(jobs', Closing, q) => completed[q] = "true"
                        /\ Has(jobs', {"release"}, q) => global'[q]
      BY <1>4, <2>15 DEF JobsInv
    <3>1. /\ Has(jobs', {"begin"}, q) => Has(jobs, {"begin"}, q)
          /\ Has(jobs', Closing, q) => Has(jobs, Closing, q)
          /\ Has(jobs', {"release"}, q) => Has(jobs, {"release"}, q)
          /\ Alone(jobs', {"begin"}, q) /\ Alone(jobs', Closing, q)
      BY <2>7, <2>8, <2>9
    <3>2. q > requests => q # r
      BY <1>3
    <3> QED BY <2>9, <2>11, <2>12, <2>13, <3>1, <3>2
  <2>18. ToldInv'
    <3>1. \A q : Has(jobs', {"complete"}, q) => Has(jobs, {"complete"}, q)
      BY <2>7, <2>8
    <3> QED BY <1>4, <3>1 DEF RequestsInv, ToldInv
  <2>19. CountInv'
    <3> SUFFICES ASSUME ~threw
                 PROVE  /\ active' = Cardinality(Counted')
                        /\ lastGlobal' = "ajaxStart" <=> active' > 0
                        /\ \A q \in Ids : global'[q] /\ completed[q] = "undefined"
                                          => Has(jobs', Sending, q)
      BY <1>4 DEF CountInv
    <3>1. /\ active = Cardinality(Counted) /\ active \in Int
          /\ lastGlobal = "ajaxStart" <=> active > 0
          /\ \A q \in Ids : global[q] /\ completed[q] = "undefined" => Has(jobs, Sending, q)
      BY DEF RequestsInv, CountInv, TypeInv
    <3>2. IsFiniteSet(Counted) /\ active >= 0
      BY <3>1, CountedFinite, FS_CardinalityType
    <3>3. \A q \in Ids : Has(jobs', Closing, q) <=> Has(jobs, Closing, q)
      <4> SUFFICES ASSUME NEW q \in Ids, Has(jobs, Closing, q) PROVE Has(jobs', Closing, q)
        BY <2>7, <2>8
      <4>1. ~Is(jobs[1], Closing, q)
        BY <1>3 DEF Is, Closing
      <4> QED BY <1>1, <2>4, <2>5, <4>1, StepHas
    <3>4. r \notin Counted
      BY <2>12 DEF Counted
    <3>5. Counted' = IF globally THEN Counted \cup {r} ELSE Counted
      BY <1>3, <1>4, <1>6, <2>12, <2>13, <2>14, <3>3 DEF Counted
    <3>6. active' = Cardinality(Counted')
      BY <2>5, <3>1, <3>2, <3>4, <3>5, FS_AddElement
    <3>7. lastGlobal' = "ajaxStart" <=> active' > 0
      BY <2>5, <3>1, <3>2
    <3>8. ASSUME NEW q \in Ids, global'[q], completed[q] = "undefined"
          PROVE  Has(jobs', Sending, q)
      <4>1. CASE q = r
        BY <1>1, <2>4, <2>5, <4>1, StepHas
      <4>2. CASE q # r
        <5>1. Has(jobs, Sending, q) /\ ~Is(jobs[1], Sending, q)
          BY <1>3, <2>13, <3>1, <3>8, <4>2 DEF Is
        <5> QED BY <1>1, <2>4, <2>5, <5>1, StepHas
      <4> QED BY <4>1, <4>2
    <3> QED BY <3>6, <3>7, <3>8
  <2> QED BY <2>16, <2>17, <2>18, <2>19 DEF RequestsInv
<1> QED BY <1>5, <1>6

\* A request whose answer may come, or for which the transport's send threw.
LEMMA SendInv == ASSUME RequestsInv, Requests!Send PROVE RequestsInv'
<1>1. jobs # <<>> /\ Head(jobs).job = "send"
  BY DEF Requests!Send, Requests!Doing
<1>2. PICK r \in 1 .. requests : r = Requests!R
  BY <1>1, HeadJob
<1>3. /\ jobs[1].job = "send" /\ jobs[1].r = r /\ r \in Ids /\ requests \in 0 .. MaxRequests
  BY <1>1, <1>2, HeadJob
<1>4. UNCHANGED <<requests, kind, global, state, active, told, lastGlobal, threw, container>>
  BY DEF Requests!Send, Requests!options, Requests!jsonp
<1>5. CASE completed[r] = "true"
  <2>1. jobs' = <<>> \o Tail(jobs) /\ UNCHANGED completed
    BY <1>2, <1>5 DEF Requests!Send, Requests!Then
  <2>2. Head(jobs).job \notin Closing
    BY <1>1 DEF Closing
  <2>3. Quiet
    BY <1>1, <1>2, <1>4, <1>5, <2>1, <2>2, OverQuiet
  <2> QED BY <2>3, QuietInv
<1>6. CASE completed[r] # "true"
  <2>1. /\ completed' = [completed EXCEPT ![r] = "false"]
        /\ jobs' = <<>> \o Tail(jobs) \/ jobs' = <<Requests!Job("done", r)>> \o Tail(jobs)
    BY <1>2, <1>6 DEF Requests!Send, Requests!Then
  <2>2. PICK more \in Seq(JobSet) :
           /\ jobs' = more \o Tail(jobs) /\ Shape(more, requests)
           /\ more = <<>> \/ more = <<Requests!Job("done", r)>>
    BY <1>3, <2>1, Fronts DEF Kinds
  <2>3. \A J, q : J \subseteq Marked => ~Has(more, J, q)
    BY <2>2 DEF Has, Is, Requests!Job, Marked
  <2>4. {"begin"} \subseteq Marked /\ {"complete"} \subseteq Marked
        /\ {"release"} \subseteq Marked /\ Closing \subseteq Marked
    BY DEF Marked, Closing
  <2>5. \A J, q : J \subseteq Marked
           => /\ Has(jobs', J, q) => Has(jobs, J, q)
              /\ Alone(jobs, J, q) => Alone(jobs', J, q)
    BY <1>1, <2>2, <2>3, StepHas
  <2>6. /\ completed'[r] = "false" /\ \A q \in Ids : q # r => completed'[q] = completed[q]
        /\ completed' \in [Ids -> {"undefined", "false", "true"}]
    BY <1>3, <2>1 DEF RequestsInv, TypeInv
  <2>7. jobs' \in Seq(JobSet) /\ Shape(jobs', requests')
    BY <1>1, <1>4, <2>2, StepShape
  <2>8. TypeInv'
    BY <1>4, <2>6, <2>7 DEF RequestsInv, TypeInv
  <2>9. ASSUME NEW q \in Ids
        PROVE  /\ Alone(jobs, {"begin"}, q) /\ Alone(jobs, Closing, q)
               /\ Has(jobs, {"begin"}, q) \/ q > requests => ~global[q]
               /\ Has(jobs, Closing, q) => completed[q] = "true"
               /\ Has(jobs, {"release"}, q) => global[q]
    BY DEF RequestsInv, JobsInv
  <2>10. JobsInv'
    <3> SUFFICES ASSUME NEW q \in Ids
                 PROVE  /\ Alone(jobs', {"begin"}, q) /\ Alone(jobs', Closing, q)
                        /\ Has(jobs', {"begin"}, q) \/ q > requests => ~global[q]
                        /\ Has(jobs', Closing, q) => completed'[q] = "true"
                        /\ Has(jobs', {"release"}, q) => global[q]
      BY <1>4, <2>7 DEF JobsInv
    <3>1. /\ Has(jobs', {"begin"}, q) => Has(jobs, {"begin"}, q)
          /\ Has(jobs', Closing, q) => Has(jobs, Closing, q)
          /\ Has(jobs', {"release"}, q) => Has(jobs, {"release"}, q)
          /\ Alone(jobs', {"begin"}, q) /\ Alone(jobs', Closing, q)
      BY <2>4, <2>5, <2>9
    <3> QED BY <1>6, <2>6, <2>9, <3>1
  <2>11. ToldInv'
    <3> SUFFICES ASSUME NEW q \in Ids
                 PROVE  /\ Len(told[q]) <= 2
                        /\ told[q] # <<>> <=> completed'[q] = "true"
                        /\ told[q] # <<>> => told[q][1][1] = state[q]
                        /\ Len(told[q]) = 2 => told[q][2][1] = "complete"
                        /\ Has(jobs', {"complete"}, q) => Len(told[q]) = 1
      BY <1>4 DEF ToldInv
    <3>1. Has(jobs', {"complete"}, q) => Has(jobs, {"complete"}, q)
      BY <2>4, <2>5
    <3>2. completed'[q] = "true" <=> completed[q] = "true"
      BY <1>6, <2>6
    <3> QED BY <3>1, <3>2 DEF RequestsInv, ToldInv
  <2>12. CountInv'
    <3> SUFFICES ASSUME ~threw
                 PROVE  /\ active = Cardinality(Counted')
                        /\ lastGlobal = "ajaxStart" <=> active > 0
                        /\ \A q \in Ids : global[q] /\ completed'[q] = "undefined"
                                          => Has(jobs', Sending, q)
      BY <1>4 DEF CountInv
    <3>1. \A q \in Ids : Has(jobs', Closing, q) <=> Has(jobs, Closing, q)
      <4> SUFFICES ASSUME NEW q \in Ids, Has(jobs, Closing, q) PROVE Has(jobs', Closing, q)
        BY <2>4, <2>5
      <4>1. ~Is(jobs[1], Closing, q)
        BY <1>3 DEF Is, Closing
      <4> QED BY <1>1, <2>2, <4>1, StepHas
    <3>2. \A q \in Ids : completed'[q] = "true" <=> completed[q] = "true"
      BY <1>6, <2>6
    <3>3. Counted' = Counted
      BY <1>4, <3>1, <3>2 DEF Counted
    <3>4. ASSUME NEW q \in Ids, global[q], completed'[q] = "undefined"
          PROVE  Has(jobs', Sending, q)
      <4>1. q # r /\ completed[q] = "undefined"
        BY <2>6, <3>4
      <4>2. Has(jobs, Sending, q) /\ ~Is(jobs[1], Sending, q)
        BY <1>3, <3>4, <4>1 DEF Is, RequestsInv, CountInv
      <4> QED BY <1>1, <2>2, <4>2, StepHas
    <3> QED BY <3>3, <3>4 DEF RequestsInv, CountInv
  <2> QED BY <2>8, <2>10, <2>11, <2>12 DEF RequestsInv
<1> QED BY <1>5, <1>6

\* done: the deferred first, then what is complete.
LEMMA FinishInv ==
    ASSUME RequestsInv, jobs # <<>>, Head(jobs).job \in {"done", "succeed"},
           completed[Requests!R] # "true",
           NEW outcome \in {"resolved", "rejected"}, Requests!Finish(Requests!R, outcome),
           UNCHANGED <<requests, kind, global, active, lastGlobal, threw>>
    PROVE  RequestsInv'
<1>2. PICK r \in 1 .. requests : r = Requests!R
  BY HeadJob
<1>3. /\ jobs[1].job \in {"done", "succeed"} /\ jobs[1].r = r /\ r \in Ids
      /\ requests \in 0 .. MaxRequests /\ completed[r] # "true"
  BY <1>2, HeadJob
<1> DEFINE more == <<Requests!User("settled", r), Requests!Job("complete", r)>>
<1>4. /\ completed' = [completed EXCEPT ![r] = "true"]
      /\ state' = [state EXCEPT ![r] = outcome]
      /\ told' = [told EXCEPT ![r] = Append(@, <<outcome, container[r]>>)]
      /\ jobs' = more \o Tail(jobs)
  BY <1>2 DEF Requests!Finish, Requests!Then
<1>5. Requests!User("settled", r) \in JobSet /\ Requests!Job("complete", r) \in JobSet
  BY <1>3, JobsTyped DEF Kinds, Hooks
<1>6. /\ more \in Seq(JobSet) /\ Len(more) = 2
      /\ more[1].job = "user" /\ more[1].hook = "settled" /\ more[1].r = r
      /\ more[2].job = "complete" /\ more[2].r = r
  BY <1>5 DEF Requests!User, Requests!Job
<1> HIDE DEF more
<1>7. Shape(more, requests)
  BY <1>6 DEF Shape
<1>8. /\ \A q : ~Has(more, {"begin"}, q) /\ ~Has(more, {"release"}, q)
      /\ \A q : q # r => ~Has(more, {"complete"}, q) /\ ~Has(more, Closing, q)
      /\ Alone(more, Closing, r) /\ Has(more, Closing, r)
  BY <1>6 DEF Has, Is, Alone, Closing
<1>9. jobs' \in Seq(JobSet) /\ Shape(jobs', requests')
  BY <1>4, <1>6, <1>7, StepShape
<1>10. \A J, q : /\ Has(jobs', J, q) => Has(more, J, q) \/ Has(jobs, J, q)
                 /\ Has(more, J, q) => Has(jobs', J, q)
                 /\ Has(jobs, J, q) /\ ~Is(jobs[1], J, q) => Has(jobs', J, q)
                 /\ Alone(jobs, J, q) /\ ~Has(more, J, q) => Alone(jobs', J, q)
  BY <1>4, <1>6, StepHas
<1>11. /\ completed'[r] = "true" /\ \A q \in Ids : q # r => completed'[q] = completed[q]
       /\ completed' \in [Ids -> {"undefined", "false", "true"}]
       /\ state'[r] = outcome /\ \A q \in Ids : q # r => state'[q] = state[q]
       /\ state' \in [Ids -> {"pending", "resolved", "rejected"}]
  BY <1>3, <1>4 DEF RequestsInv, TypeInv
<1>12. /\ Alone(jobs, {"begin"}, r) /\ ~Has(jobs, Closing, r) /\ told[r] = <<>>
  BY <1>3 DEF RequestsInv, JobsInv, ToldInv
<1>13. /\ told'[r] = <<<<outcome, container[r]>>>> /\ \A q \in Ids : q # r => told'[q] = told[q]
       /\ Len(told'[r]) = 1 /\ told'[r][1][1] = outcome /\ told'[r] # <<>>
  <2>1. told'[r] = Append(<<>>, <<outcome, container[r]>>)
    BY <1>3, <1>4, <1>12 DEF RequestsInv, TypeInv
  <2>2. Append(<<>>, <<outcome, container[r]>>) = <<<<outcome, container[r]>>>>
    OBVIOUS
  <2>3. \A q \in Ids : q # r => told'[q] = told[q]
    BY <1>3, <1>4 DEF RequestsInv, TypeInv
  <2> QED BY <2>1, <2>2, <2>3
<1>14. ASSUME NEW q \in Ids
       PROVE  /\ Alone(jobs, {"begin"}, q) /\ Alone(jobs, Closing, q)
              /\ Has(jobs, {"begin"}, q) \/ q > requests => ~global[q]
              /\ Has(jobs, Closing, q) => completed[q] = "true"
              /\ Has(jobs, {"release"}, q) => global[q]
  BY DEF RequestsInv, JobsInv
<1>15. JobsInv'
  <2> SUFFICES ASSUME NEW q \in Ids
               PROVE  /\ Alone(jobs', {"begin"}, q) /\ Alone(jobs', Closing, q)
                      /\ Has(jobs', {"begin"}, q) \/ q > requests => ~global[q]
                      /\ Has(jobs', Closing, q) => completed'[q] = "true"
                      /\ Has(jobs', {"release"}, q) => global[q]
    BY <1>9 DEF JobsInv
  <2>1. /\ Has(jobs', {"begin"}, q) => Has(jobs, {"begin"}, q)
        /\ Has(jobs', {"release"}, q) => Has(jobs, {"release"}, q)
        /\ Alone(jobs', {"begin"}, q)
    BY <1>8, <1>10, <1>14
  <2>2. Has(jobs', Closing, q) => completed'[q] = "true"
    BY <1>8, <1>10, <1>11, <1>14
  <2>3. Alone(jobs', Closing, q)
    <3>1. CASE q # r
      BY <1>8, <1>10, <1>14, <3>1
    <3>2. CASE q = r
      <4>1. PICK new \in Seq(JobSet) : new = jobs' /\ Moves(jobs, more, 1, new)
        BY <1>4, <1>6, HeadJob, Thened
      <4>2. \A k \in 1 + 1 .. Len(jobs) : ~Is(jobs[k], Closing, r)
        BY <1>12, HeadJob DEF Has
      <4> QED BY <1>6, <1>8, <3>2, <4>1, <4>2, HeadJob, MovesAlone
    <3> QED BY <3>1, <3>2
  <2> QED BY <1>14, <2>1, <2>2, <2>3
<1>16. ToldInv'
  <2> SUFFICES ASSUME NEW q \in Ids
               PROVE  /\ Len(told'[q]) <= 2
                      /\ told'[q] # <<>> <=> completed'[q] = "true"
                      /\ told'[q] # <<>> => told'[q][1][1] = state'[q]
                      /\ Len(told'[q]) = 2 => told'[q][2][1] = "complete"
                      /\ Has(jobs', {"complete"}, q) => Len(told'[q]) = 1
    BY DEF ToldInv
  <2>1. CASE q = r
    <3>1. 1 <= 2 /\ 1 # 2
      OBVIOUS
    <3> QED BY <1>11, <1>13, <2>1, <3>1
  <2>2. CASE q # r
    <3>1. Has(jobs', {"complete"}, q) => Has(jobs, {"complete"}, q)
      BY <1>8, <1>10, <2>2
    <3> QED BY <1>11, <1>13, <2>2, <3>1 DEF RequestsInv, ToldInv
  <2> QED BY <2>1, <2>2
<1>17. CountInv'
  <2> SUFFICES ASSUME ~threw
               PROVE  /\ active = Cardinality(Counted')
                      /\ lastGlobal = "ajaxStart" <=> active > 0
                      /\ \A q \in Ids : global[q] /\ completed'[q] = "undefined"
                                        => Has(jobs', Sending, q)
    BY DEF CountInv
  <2>1. \A q \in Ids : (completed'[q] # "true" \/ Has(jobs', Closing, q))
                       <=> (completed[q] # "true" \/ Has(jobs, Closing, q))
    <3> SUFFICES ASSUME NEW q \in Ids
                 PROVE  (completed'[q] # "true" \/ Has(jobs', Closing, q))
                        <=> (completed[q] # "true" \/ Has(jobs, Closing, q))
      OBVIOUS
    <3>1. CASE q = r
      BY <1>3, <1>8, <1>10, <3>1
    <3>2. CASE q # r
      <4>1. ~Is(jobs[1], Closing, q)
        BY <1>3, <3>2 DEF Is
      <4> QED BY <1>8, <1>10, <1>11, <3>2, <4>1
    <3> QED BY <3>1, <3>2
  <2>2. Counted' = Counted
    BY <2>1 DEF Counted
  <2>3. ASSUME NEW q \in Ids, global[q], completed'[q] = "undefined"
        PROVE  Has(jobs', Sending, q)
    <3>1. q # r /\ completed[q] = "undefined"
      BY <1>11, <2>3
    <3>2. Has(jobs, Sending, q) /\ ~Is(jobs[1], Sending, q)
      BY <1>3, <2>3, <3>1 DEF Is, RequestsInv, CountInv
    <3> QED BY <1>10, <3>2
  <2> QED BY <2>2, <2>3 DEF RequestsInv, CountInv
<1>18. TypeInv'
  <2>1. told' \in [Ids -> Seq({"resolved", "rejected", "complete"} \X Nat)]
    BY <1>3, <1>4, <1>13 DEF RequestsInv, TypeInv
  <2>2. container' \in [Ids -> Nat]
    <3>1. container' = container \/ container' = [container EXCEPT ![r] = 0]
      BY <1>2 DEF Requests!Finish, Requests!jsonp
    <3>2. container \in [Ids -> Nat] /\ [container EXCEPT ![r] = 0] \in [Ids -> Nat]
      BY <1>3 DEF RequestsInv, TypeInv
    <3> QED BY <3>1, <3>2
  <2> QED BY <1>9, <1>11, <2>1, <2>2 DEF RequestsInv, TypeInv
<1> QED BY <1>15, <1>16, <1>17, <1>18 DEF RequestsInv

\* complete and ajaxComplete; the counter's turn comes next, if it counts it.
LEMMA CompleteInv == ASSUME RequestsInv, Requests!Complete PROVE RequestsInv'
<1>1. /\ jobs # <<>> /\ Head(jobs).job = "complete"
      /\ UNCHANGED <<requests, kind, global, completed, state, active, lastGlobal, threw, container>>
  BY DEF Requests!Complete, Requests!Doing, Requests!options, Requests!jsonp
<1>2. PICK r \in 1 .. requests : r = Requests!R
  BY <1>1, HeadJob
<1>3. /\ jobs[1].job = "complete" /\ jobs[1].r = r /\ r \in Ids /\ requests \in 0 .. MaxRequests
      /\ Len(jobs) \in Nat \ {0} /\ jobs \in Seq(JobSet)
  BY <1>1, <1>2, HeadJob
<1>4. PICK more :
         /\ more = <<Requests!User("complete", r)>>
                   \o (IF global[r] THEN <<Requests!Job("release", r)>> ELSE <<>>)
         /\ jobs' = more \o Tail(jobs)
         /\ told' = [told EXCEPT ![r] = Append(@, <<"complete", 0>>)]
  BY <1>2 DEF Requests!Complete, Requests!Then
<1>5. Requests!User("complete", r) \in JobSet /\ Requests!Job("release", r) \in JobSet
  BY <1>3, JobsTyped DEF Kinds, Hooks
<1>6. more = IF global[r] THEN <<Requests!User("complete", r), Requests!Job("release", r)>>
             ELSE <<Requests!User("complete", r)>>
  BY <1>4, <1>5, Two, ConcatEmptySeq
<1>7. /\ more \in Seq(JobSet) /\ Len(more) = IF global[r] THEN 2 ELSE 1
      /\ more[1].job = "user" /\ more[1].hook = "complete" /\ more[1].r = r
      /\ global[r] => more[2].job = "release" /\ more[2].r = r
  BY <1>5, <1>6 DEF Requests!User, Requests!Job
<1>8. Shape(more, requests)
  BY <1>7 DEF Shape
<1>9. /\ \A q : ~Has(more, {"begin"}, q) /\ ~Has(more, {"complete"}, q)
      /\ \A q : q # r => ~Has(more, {"release"}, q) /\ ~Has(more, Closing, q)
      /\ Alone(more, Closing, r)
      /\ Has(more, {"release"}, r) => global[r]
      /\ global[r] => Has(more, Closing, r)
  BY <1>7 DEF Has, Is, Alone, Closing
<1>10. jobs' \in Seq(JobSet) /\ Shape(jobs', requests')
  BY <1>1, <1>4, <1>7, <1>8, StepShape
<1>11. \A J, q : /\ Has(jobs', J, q) => Has(more, J, q) \/ Has(jobs, J, q)
                 /\ Has(more, J, q) => Has(jobs', J, q)
                 /\ Has(jobs, J, q) /\ ~Is(jobs[1], J, q) => Has(jobs', J, q)
                 /\ Alone(jobs, J, q) /\ ~Has(more, J, q) => Alone(jobs', J, q)
  BY <1>1, <1>4, <1>7, StepHas
<1>12. Is(jobs[1], Closing, r) /\ Is(jobs[1], {"complete"}, r)
  BY <1>3 DEF Is, Closing
<1>13. Has(jobs, Closing, r) /\ Has(jobs, {"complete"}, r)
  BY <1>3, <1>12 DEF Has
<1>14. ASSUME NEW q \in Ids
       PROVE  /\ Alone(jobs, {"begin"}, q) /\ Alone(jobs, Closing, q)
              /\ Has(jobs, {"begin"}, q) \/ q > requests => ~global[q]
              /\ Has(jobs, Closing, q) => completed[q] = "true"
              /\ Has(jobs, {"release"}, q) => global[q]
  BY DEF RequestsInv, JobsInv
<1>15. Alone(jobs, {"complete"}, r)
  BY <1>3, <1>14 DEF Alone, Is, Closing
<1>16. ~Has(jobs', {"complete"}, r)
  BY <1>1, <1>4, <1>7, <1>9, <1>12, <1>15, StepHas
<1>17. Alone(jobs', Closing, r)
  <2>1. Alone(jobs, Closing, r) /\ Is(jobs[1], Closing, r) /\ Alone(more, Closing, r)
    BY <1>3, <1>9, <1>12, <1>14
  <2> QED BY <1>1, <1>4, <1>7, <2>1, StepHas
<1>18. /\ Len(told[r]) = 1 /\ told[r] # <<>> /\ told[r][1][1] = state[r]
       /\ told[r] \in Seq({"resolved", "rejected", "complete"} \X Nat)
       /\ completed[r] = "true"
  BY <1>3, <1>13, <1>14 DEF RequestsInv, ToldInv, TypeInv
<1>19. /\ told'[r] = Append(told[r], <<"complete", 0>>)
       /\ \A q \in Ids : q # r => told'[q] = told[q]
  BY <1>3, <1>4 DEF RequestsInv, TypeInv
<1> DEFINE e == <<"complete", 0>>
<1>20. e \in {"resolved", "rejected", "complete"} \X Nat /\ e[1] = "complete"
  OBVIOUS
<1> HIDE DEF e
<1>21. /\ told'[r] \in Seq({"resolved", "rejected", "complete"} \X Nat)
       /\ Len(told'[r]) = 2 /\ told'[r][1] = told[r][1] /\ told'[r][2] = e
  <2>1. told'[r] = Append(told[r], e) /\ 1 \in 1 .. Len(told[r])
    BY <1>18, <1>19 DEF e
  <2> QED BY <1>18, <1>20, <2>1, AppendProperties
<1>22. told'[r] # <<>>
  BY <1>21, EmptySeq
<1>23. TypeInv'
  <2>1. told' \in [Ids -> Seq({"resolved", "rejected", "complete"} \X Nat)]
    BY <1>3, <1>4, <1>19, <1>21 DEF RequestsInv, TypeInv
  <2> QED BY <1>1, <1>10, <2>1 DEF RequestsInv, TypeInv
<1>24. JobsInv'
  <2> SUFFICES ASSUME NEW q \in Ids
               PROVE  /\ Alone(jobs', {"begin"}, q) /\ Alone(jobs', Closing, q)
                      /\ Has(jobs', {"begin"}, q) \/ q > requests => ~global[q]
                      /\ Has(jobs', Closing, q) => completed[q] = "true"
                      /\ Has(jobs', {"release"}, q) => global[q]
    BY <1>1, <1>10 DEF JobsInv
  <2>1. /\ Has(jobs', {"begin"}, q) => Has(jobs, {"begin"}, q)
        /\ Alone(jobs', {"begin"}, q)
    BY <1>9, <1>11, <1>14
  <2>2. Has(jobs', {"release"}, q) => global[q]
    BY <1>9, <1>11, <1>14
  <2>3. Has(jobs', Closing, q) => completed[q] = "true"
    BY <1>9, <1>11, <1>14, <1>18
  <2>4. Alone(jobs', Closing, q)
    BY <1>9, <1>11, <1>14, <1>17
  <2> QED BY <1>14, <2>1, <2>2, <2>3, <2>4
<1>25. ToldInv'
  <2> SUFFICES ASSUME NEW q \in Ids
               PROVE  /\ Len(told'[q]) <= 2
                      /\ told'[q] # <<>> <=> completed[q] = "true"
                      /\ told'[q] # <<>> => told'[q][1][1] = state[q]
                      /\ Len(told'[q]) = 2 => told'[q][2][1] = "complete"
                      /\ Has(jobs', {"complete"}, q) => Len(told'[q]) = 1
    BY <1>1 DEF ToldInv
  <2>1. CASE q = r
    <3>1. Len(told'[r]) <= 2 /\ told'[r] # <<>> /\ told'[r][1][1] = state[r]
          /\ told'[r][2][1] = "complete"
      BY <1>18, <1>20, <1>21, <1>22
    <3> QED BY <1>16, <1>18, <2>1, <3>1
  <2>2. CASE q # r
    <3>1. Has(jobs', {"complete"}, q) => Has(jobs, {"complete"}, q)
      BY <1>9, <1>11
    <3> QED BY <1>19, <2>2, <3>1 DEF RequestsInv, ToldInv
  <2> QED BY <2>1, <2>2
<1>26. CountInv'
  <2>1. \A q \in Ids : global[q] => (Has(jobs', Closing, q) <=> Has(jobs, Closing, q))
    <3> SUFFICES ASSUME NEW q \in Ids, global[q] PROVE Has(jobs', Closing, q) <=> Has(jobs, Closing, q)
      OBVIOUS
    <3>1. CASE q = r
      BY <1>9, <1>11, <1>13, <3>1
    <3>2. CASE q # r
      <4>1. ~Is(jobs[1], Closing, q)
        BY <1>3, <3>2 DEF Is
      <4> QED BY <1>9, <1>11, <3>2, <4>1
    <3> QED BY <3>1, <3>2
  <2>2. Counted' = Counted
    BY <1>1, <2>1 DEF Counted
  <2>3. \A q \in Ids : Has(jobs, Sending, q) => Has(jobs', Sending, q)
    <3> SUFFICES ASSUME NEW q \in Ids, Has(jobs, Sending, q) PROVE Has(jobs', Sending, q)
      OBVIOUS
    <3>1. ~Is(jobs[1], Sending, q)
      BY <1>3 DEF Is, Sending
    <3> QED BY <1>11, <3>1
  <2> QED BY <1>1, <2>2, <2>3 DEF RequestsInv, CountInv
<1> QED BY <1>23, <1>24, <1>25, <1>26 DEF RequestsInv

\* The counter goes down once for a request, after it is complete.
LEMMA ReleaseInv == ASSUME RequestsInv, Requests!Release PROVE RequestsInv'
<1>1. /\ jobs # <<>> /\ Head(jobs).job = "release" /\ active' = active - 1
      /\ UNCHANGED <<requests, kind, global, completed, state, told, threw, container>>
  BY DEF Requests!Release, Requests!Doing, Requests!options, Requests!jsonp
<1>2. PICK r \in 1 .. requests : r = Requests!R
  BY <1>1, HeadJob
<1>3. /\ jobs[1].job = "release" /\ jobs[1].r = r /\ r \in Ids /\ requests \in 0 .. MaxRequests
      /\ Len(jobs) \in Nat \ {0} /\ jobs \in Seq(JobSet)
  BY <1>1, <1>2, HeadJob
<1>4. PICK more :
         /\ jobs' = more \o Tail(jobs)
         /\ more = <<Requests!User("ajaxStop", r)>> \/ more = <<>>
         /\ lastGlobal' = IF active = 1 THEN "ajaxStop" ELSE lastGlobal
  BY <1>2 DEF Requests!Release, Requests!Then
<1>5. Requests!User("ajaxStop", r) \in JobSet
  BY <1>3, JobsTyped DEF Hooks
<1>6. /\ more \in Seq(JobSet) /\ Shape(more, requests)
      /\ \A k \in 1 .. Len(more) : more[k].job \notin Marked
  <2>1. CASE more = <<>>
    BY <2>1, EmptySeq DEF Shape
  <2>2. CASE more = <<Requests!User("ajaxStop", r)>>
    BY <1>3, <1>5, <2>2 DEF Shape, Marked, Requests!User
  <2> QED BY <1>4, <2>1, <2>2
<1>7. \A J, q : J \subseteq Marked => ~Has(more, J, q)
  BY <1>6 DEF Has, Is
<1>8. {"begin"} \subseteq Marked /\ {"complete"} \subseteq Marked
      /\ {"release"} \subseteq Marked /\ Closing \subseteq Marked
  BY DEF Marked, Closing
<1>9. \A J, q : J \subseteq Marked
         => /\ Has(jobs', J, q) => Has(jobs, J, q)
            /\ Alone(jobs, J, q) => Alone(jobs', J, q)
  BY <1>1, <1>4, <1>6, <1>7, StepHas
<1>10. jobs' \in Seq(JobSet) /\ Shape(jobs', requests')
  BY <1>1, <1>4, <1>6, StepShape
<1>11. ASSUME NEW q \in Ids
       PROVE  /\ Alone(jobs, {"begin"}, q) /\ Alone(jobs, Closing, q)
              /\ Has(jobs, {"begin"}, q) \/ q > requests => ~global[q]
              /\ Has(jobs, Closing, q) => completed[q] = "true"
              /\ Has(jobs, {"release"}, q) => global[q]
  BY DEF RequestsInv, JobsInv
<1>12. Is(jobs[1], Closing, r) /\ Is(jobs[1], {"release"}, r)
  BY <1>3 DEF Is, Closing
<1>13. /\ Has(jobs, Closing, r) /\ Has(jobs, {"release"}, r)
       /\ global[r] /\ completed[r] = "true" /\ ~Has(jobs', Closing, r)
  <2>1. Has(jobs, Closing, r) /\ Has(jobs, {"release"}, r)
    BY <1>3, <1>12 DEF Has
  <2>2. Alone(jobs, Closing, r) /\ ~Has(more, Closing, r)
    BY <1>3, <1>7, <1>8, <1>11
  <2> QED BY <1>1, <1>3, <1>4, <1>6, <1>11, <1>12, <2>1, <2>2, StepHas
<1>14. JobsInv'
  <2> SUFFICES ASSUME NEW q \in Ids
               PROVE  /\ Alone(jobs', {"begin"}, q) /\ Alone(jobs', Closing, q)
                      /\ Has(jobs', {"begin"}, q) \/ q > requests => ~global[q]
                      /\ Has(jobs', Closing, q) => completed[q] = "true"
                      /\ Has(jobs', {"release"}, q) => global[q]
    BY <1>1, <1>10 DEF JobsInv
  <2>1. /\ Has(jobs', {"begin"}, q) => Has(jobs, {"begin"}, q)
        /\ Has(jobs', Closing, q) => Has(jobs, Closing, q)
        /\ Has(jobs', {"release"}, q) => Has(jobs, {"release"}, q)
        /\ Alone(jobs', {"begin"}, q) /\ Alone(jobs', Closing, q)
    BY <1>8, <1>9, <1>11
  <2> QED BY <1>11, <2>1
<1>15. ToldInv'
  <2>1. \A q : Has(jobs', {"complete"}, q) => Has(jobs, {"complete"}, q)
    BY <1>8, <1>9
  <2> QED BY <1>1, <2>1 DEF RequestsInv, ToldInv
<1>16. TypeInv'
  BY <1>1, <1>4, <1>10 DEF RequestsInv, TypeInv
<1>17. CountInv'
  <2> SUFFICES ASSUME ~threw
               PROVE  /\ active' = Cardinality(Counted')
                      /\ lastGlobal' = "ajaxStart" <=> active' > 0
                      /\ \A q \in Ids : global[q] /\ completed[q] = "undefined"
                                        => Has(jobs', Sending, q)
    BY <1>1 DEF CountInv
  <2>1. /\ active = Cardinality(Counted) /\ active \in Int
        /\ lastGlobal = "ajaxStart" <=> active > 0
        /\ \A q \in Ids : global[q] /\ completed[q] = "undefined" => Has(jobs, Sending, q)
    BY DEF RequestsInv, CountInv, TypeInv
  <2>2. r \in Counted
    BY <1>3, <1>13 DEF Counted
  <2>3. ASSUME NEW q \in Ids, q # r PROVE Has(jobs', Closing, q) <=> Has(jobs, Closing, q)
    <3>1. ~Is(jobs[1], Closing, q)
      BY <1>3, <2>3 DEF Is
    <3> QED BY <1>1, <1>4, <1>6, <1>8, <1>9, <3>1, StepHas
  <2>4. Counted' = Counted \ {r}
    BY <1>1, <1>13, <2>3 DEF Counted
  <2>5. active' = Cardinality(Counted')
    BY <1>1, <2>1, <2>2, <2>4, CountedFinite, FS_RemoveElement
  <2>6. active' >= 0
    <3>1. IsFiniteSet(Counted')
      BY <2>4, CountedFinite, FS_RemoveElement
    <3> QED BY <2>5, <3>1, FS_CardinalityType
  <2>7. lastGlobal' = "ajaxStart" <=> active' > 0
    BY <1>1, <1>4, <2>1, <2>6
  <2>8. ASSUME NEW q \in Ids, global[q], completed[q] = "undefined" PROVE Has(jobs', Sending, q)
    <3>1. Has(jobs, Sending, q) /\ ~Is(jobs[1], Sending, q)
      BY <1>3, <2>1, <2>8 DEF Is, Sending
    <3> QED BY <1>1, <1>4, <1>6, <3>1, StepHas
  <2> QED BY <2>5, <2>7, <2>8
<1> QED BY <1>14, <1>15, <1>16, <1>17 DEF RequestsInv

LEMMA DoneInv == ASSUME RequestsInv, Requests!Done \/ Requests!Succeed PROVE RequestsInv'
<1>1. /\ jobs # <<>> /\ Head(jobs).job \in {"done", "succeed"}
      /\ UNCHANGED <<requests, kind, global, active, lastGlobal, threw>>
  BY DEF Requests!Done, Requests!Succeed, Requests!Doing, Requests!options
<1>2. CASE completed[Requests!R] = "true"
  <2>1. jobs' = <<>> \o Tail(jobs) /\ UNCHANGED <<completed, state, told, container>>
    BY <1>2 DEF Requests!Done, Requests!Succeed, Requests!Then, Requests!jsonp
  <2>2. Head(jobs).job \notin Closing
    BY <1>1 DEF Closing
  <2>3. Quiet
    BY <1>1, <1>2, <2>1, <2>2, OverQuiet
  <2> QED BY <2>3, QuietInv
<1>3. CASE completed[Requests!R] # "true"
  <2>1. PICK outcome \in {"resolved", "rejected"} : Requests!Finish(Requests!R, outcome)
    BY <1>3 DEF Requests!Done, Requests!Succeed
  <2> QED BY <1>1, <1>3, <2>1, FinishInv
<1> QED BY <1>2, <1>3

LEMMA RequestsInitInv == ASSUME Requests!Init PROVE RequestsInv
<1>1. /\ requests = 0 /\ active = 0 /\ jobs = <<>> /\ lastGlobal = "ajaxStop" /\ threw = FALSE
      /\ kind = [r \in Ids |-> "none"] /\ global = [r \in Ids |-> FALSE]
      /\ completed = [r \in Ids |-> "undefined"] /\ state = [r \in Ids |-> "pending"]
      /\ told = [r \in Ids |-> <<>>] /\ container = [r \in Ids |-> 0]
  BY DEF Requests!Init, Requests!Requests, Ids
<1>2. jobs \in Seq(JobSet) /\ Len(jobs) = 0
  BY <1>1, EmptySeq
<1>3. <<>> \in Seq({"resolved", "rejected", "complete"} \X Nat) /\ Len(<<>>) = 0
  BY EmptySeq
<1>4. TypeInv
  <2>1. requests \in 0 .. MaxRequests /\ active \in Int /\ threw \in BOOLEAN
        /\ lastGlobal \in {"ajaxStart", "ajaxStop"}
    <3>1. 0 \in 0 .. MaxRequests /\ 0 \in Int
      BY MaxRequestsAssumption
    <3> QED BY <1>1, <3>1
  <2>2. told \in [Ids -> Seq({"resolved", "rejected", "complete"} \X Nat)]
    BY <1>1, <1>3
  <2>3. /\ kind \in [Ids -> {"none", "xhr", "jsonp"}] /\ global \in [Ids -> BOOLEAN]
        /\ completed \in [Ids -> {"undefined", "false", "true"}]
        /\ state \in [Ids -> {"pending", "resolved", "rejected"}]
        /\ container \in [Ids -> Nat]
    BY <1>1
  <2> QED BY <1>2, <2>1, <2>2, <2>3 DEF TypeInv
<1>5. \A J, r : ~Has(jobs, J, r) /\ Alone(jobs, J, r)
  BY <1>2 DEF Has, Alone
<1>6. JobsInv
  BY <1>1, <1>2, <1>5 DEF JobsInv, Shape
<1>7. ToldInv
  BY <1>1, <1>3, <1>5 DEF ToldInv
<1>8. CountInv
  <2>1. Counted = {}
    BY <1>1 DEF Counted
  <2> QED BY <1>1, <2>1, FS_EmptySet DEF CountInv
<1> QED BY <1>4, <1>6, <1>7, <1>8 DEF RequestsInv

LEMMA RequestsNextInv == ASSUME RequestsInv, [Requests!Next]_Requests!vars PROVE RequestsInv'
<1>1. CASE UNCHANGED Requests!vars
  <2>1. /\ UNCHANGED <<requests, kind, global, completed, state, active, told, lastGlobal>>
        /\ UNCHANGED <<jobs, threw, container>>
    BY <1>1 DEF Requests!vars
  <2> QED BY <2>1 DEF RequestsInv, TypeInv, JobsInv, ToldInv, CountInv, Counted
<1>2. CASE Requests!Request
  BY <1>2, RequestInv
<1>3. CASE Requests!Abort \/ Requests!Return \/ Requests!ReturnFalse \/ Requests!Throw
  BY <1>3, AbortQuiet, ReturnQuiet, ReturnFalseQuiet, ThrowQuiet, QuietInv
<1>4. CASE Requests!Begin
  BY <1>4, BeginInv
<1>5. CASE Requests!Check \/ Requests!Transport \/ Requests!AbortTransport
  BY <1>5, CheckQuiet, TransportQuiet, AbortTransportQuiet, QuietInv
<1>6. CASE Requests!Send
  BY <1>6, SendInv
<1>7. CASE Requests!Done \/ Requests!Succeed
  BY <1>7, DoneInv
<1>8. CASE Requests!Complete
  BY <1>8, CompleteInv
<1>9. CASE Requests!Release
  BY <1>9, ReleaseInv
<1>10. ASSUME NEW r \in 1 .. requests,
              Requests!Answer(r) \/ Requests!Script(r) \/ Requests!Timeout(r)
       PROVE  RequestsInv'
  BY <1>10, BrowserQuiet, QuietInv
<1> QED BY <1>1, <1>2, <1>3, <1>4, <1>5, <1>6, <1>7, <1>8, <1>9, <1>10
        DEF Requests!Next, Requests!Engine

\* What is pending for each request agrees with what has become of it, after
\* any number of requests, aborts, answers and timeouts.
THEOREM RequestsInvariance == Requests!Spec => []RequestsInv
<1>1. Requests!Init => RequestsInv
  BY RequestsInitInv
<1>2. RequestsInv /\ [Requests!Next]_Requests!vars => RequestsInv'
  BY RequestsNextInv
<1> QED BY <1>1, <1>2, PTL DEF Requests!Spec

\* Whatever comes first of an answer, an abort and a timeout, and whatever
\* comes after it, a request succeeds or fails once and is complete once.
THEOREM EachIsToldOnce == Requests!Spec => []ToldOnce
<1>1. RequestsInv => ToldOnce
  BY DEF RequestsInv, ToldInv, ToldOnce, Requests!ToldOnce, Requests!Requests, Ids
<1> QED BY <1>1, RequestsInvariance, PTL

\* Between calls jQuery.active is the number of requests that wait for an
\* answer, and ajaxStart was the last global event when there are some.
THEOREM ActiveIsTheNumber == Requests!Spec => []ActiveCounts
<1>0. \A S : Requests!Cardinality(S) = Cardinality(S)
  BY DEF Requests!Cardinality, Cardinality
<1>1. RequestsInv => ActiveCounts
  <2> SUFFICES ASSUME RequestsInv, jobs = <<>>, ~threw
               PROVE  /\ active = Cardinality(Requests!InFlight)
                      /\ lastGlobal = "ajaxStart" <=> active > 0
    BY <1>0 DEF ActiveCounts, Requests!ActiveCounts
  <2>1. \A J, r : ~Has(jobs, J, r)
    BY DEF Has
  <2>2. \A r \in Ids : global[r] => completed[r] # "undefined"
    BY <2>1 DEF RequestsInv, CountInv
  <2>3. \A r \in Ids : global[r] => r \in 1 .. requests
    <3> SUFFICES ASSUME NEW r \in Ids, ~(r > requests) PROVE r \in 1 .. requests
      BY DEF RequestsInv, JobsInv
    <3> QED BY MaxRequestsAssumption DEF RequestsInv, TypeInv, Ids
  <2>4. 1 .. requests \subseteq Ids
    BY MaxRequestsAssumption DEF RequestsInv, TypeInv, Ids
  <2>5. \A r \in Ids : completed[r] \in {"undefined", "false", "true"}
    BY DEF RequestsInv, TypeInv
  <2>6. Counted = Requests!InFlight
    BY <2>1, <2>2, <2>3, <2>4, <2>5 DEF Counted, Requests!InFlight
  <2> QED BY <2>6 DEF RequestsInv, CountInv
<1> QED BY <1>1, RequestsInvariance, PTL
-----------------------------------------------------------------------------
(* Whose the answer is.                                                    *)

\* A request that waits did so before.
Later ==
    /\ UNCHANGED <<requests, kind>>
    /\ \A r \in Ids : completed'[r] # "true" => completed[r] # "true"

LEMMA NamesKept ==
    ASSUME NamesInv, Later, UNCHANGED <<name, installed, oldCallbacks, nonce>>
    PROVE  NamesInv'
<1>1. \A r \in Ids : Waits(r)' => Waits(r)
  BY DEF Waits, Later
<1> QED BY <1>1 DEF NamesInv, Later

LEMMA OwnersKept ==
    ASSUME OwnersInv, UNCHANGED <<requests, kind, name, installed, container>> PROVE OwnersInv'
BY DEF OwnersInv

LEMMA AnswersKept ==
    ASSUME RequestsInv, AnswersInv, Later, UNCHANGED <<state, name>>, silent \subseteq silent',
           \A r \in Ids : completed[r] = "true" => /\ completed'[r] = "true"
                                                   /\ told'[r][1] = told[r][1],
           \A k \in 1 .. Len(jobs') : jobs'[k].job = "succeed"
             => /\ k = 1
                /\ Waits(jobs'[k].r)
                   => container'[jobs'[k].r] = jobs'[k].r \/ jobs'[k].r \in silent',
           \A k \in 1 .. Len(jobs') : jobs'[k].r \in Ids
    PROVE  AnswersInv'
<1> DEFINE waits(r) == r <= requests' /\ kind'[r] = "jsonp" /\ completed'[r] # "true"
           answered(r) == container'[r] = r \/ r \in silent'
<1>1. \A r \in Ids : waits(r) => Waits(r)
  BY DEF Waits, Later
<1>2. \A r \in Ids : state'[r] # "pending" => completed'[r] = "true" /\ r <= requests'
  BY DEF AnswersInv, Later
<1>3. \A k \in 1 .. Len(jobs') : jobs'[k].job = "succeed"
         => k = 1 /\ (waits(jobs'[k].r) => answered(jobs'[k].r))
  <2>1. \A k \in 1 .. Len(jobs') : jobs'[k].job = "succeed"
           => k = 1 /\ (Waits(jobs'[k].r) => answered(jobs'[k].r))
    OBVIOUS
  <2> HIDE DEF waits, answered
  <2> QED BY <1>1, <2>1
<1>4. ASSUME NEW r \in 1 .. requests, state[r] = "resolved", kind[r] = "jsonp"
      PROVE  \/ told'[r][1][2] = r
             \/ /\ r \in silent' /\ told'[r][1][2] < r
                /\ name'[told'[r][1][2]] = name'[r]
  <2>1. r \in Ids
    BY MaxRequestsAssumption DEF RequestsInv, TypeInv, Ids
  <2>2. \/ told[r][1][2] = r
        \/ r \in silent /\ told[r][1][2] < r /\ name[told[r][1][2]] = name[r]
    BY <1>4 DEF AnswersInv, OwnAnswer, Requests!OwnAnswer
  <2>3. completed[r] = "true"
    BY <1>4, <2>1 DEF AnswersInv
  <2>4. told'[r][1][2] = told[r][1][2]
    BY <2>1, <2>3
  <2>5. r \in silent => r \in silent'
    OBVIOUS
  <2> QED BY <2>2, <2>4, <2>5
<1>5. OwnAnswer'
  BY <1>4 DEF OwnAnswer, Requests!OwnAnswer, Later
<1>7. ASSUME NEW r \in 1 .. requests, state[r] = "resolved", kind[r] = "jsonp"
      PROVE  told'[r][1][2] \in 1 .. r
  <2>1. r \in Ids
    BY MaxRequestsAssumption DEF RequestsInv, TypeInv, Ids
  <2>2. completed[r] = "true" /\ told[r][1][2] \in 1 .. r
    BY <1>7, <2>1 DEF AnswersInv
  <2> QED BY <2>1, <2>2
<1>8. \A r \in 1 .. requests' : state'[r] = "resolved" /\ kind'[r] = "jsonp"
        => told'[r][1][2] \in 1 .. r
  BY <1>7 DEF Later
<1> QED BY <1>2, <1>3, <1>5, <1>8 DEF AnswersInv, Waits, Answered

\* The jobs after a quiet step inside a call: no success is among them.
LEMMA QuietOwn ==
    ASSUME RequestsInv, OwnInv, Quiet, jobs # <<>>,
           UNCHANGED <<name, installed, oldCallbacks, nonce, container, silent>>
    PROVE  OwnInv'
<1>1. /\ UNCHANGED <<requests, kind, completed, state, told>>
      /\ jobs \in Seq(JobSet) /\ jobs' \in Seq(JobSet)
  BY DEF Quiet, RequestsInv, TypeInv
<1>2. PICK more \in Seq(JobSet) : \E d \in 0 .. Len(jobs) : Adds(more, d)
  BY DEF Quiet
<1>3. PICK d \in 0 .. Len(jobs) :
          /\ Moves(jobs, more, d, jobs')
          /\ \A k \in 1 .. Len(more) : more[k].job # "succeed"
          /\ jobs[1].job = "succeed" => d # 0
  BY <1>2 DEF Adds, Marked
<1>4. From(jobs, more, d, jobs')
  BY <1>1, <1>3, MovesFrom
<1>5. ASSUME NEW k \in 1 .. Len(jobs') PROVE jobs'[k].job # "succeed"
  <2>1. CASE k \in 1 .. Len(more) /\ jobs'[k] = more[k]
    BY <1>3, <2>1
  <2>2. CASE k - Len(more) + d \in d + 1 .. Len(jobs) /\ jobs'[k] = jobs[k - Len(more) + d]
    <3>1. PICK i \in d + 1 .. Len(jobs) : jobs'[k] = jobs[i]
      BY <2>2
    <3>2. i \in 1 .. Len(jobs) /\ i > d /\ d \in Nat
      BY <1>4 DEF From
    <3>3. jobs[i].job = "succeed" => i = 1
      BY <3>2 DEF OwnInv, AnswersInv
    <3> QED BY <1>3, <3>1, <3>2, <3>3
  <2> QED BY <1>4, <2>1, <2>2 DEF From
<1>6. \A k \in 1 .. Len(jobs') : jobs'[k].r \in Ids
  BY <1>1, JobsTyped
<1>7. Later
  BY <1>1 DEF Later
<1> QED BY <1>1, <1>5, <1>6, <1>7, NamesKept, OwnersKept, AnswersKept DEF OwnInv

\* A step that leaves something to do in place of the head leaves no success.
LEMMA NoSuccess ==
    ASSUME RequestsInv, AnswersInv, jobs # <<>>, NEW more \in Seq(JobSet),
           jobs' = more \o Tail(jobs), \A k \in 1 .. Len(more) : more[k].job # "succeed"
    PROVE  \A k \in 1 .. Len(jobs') : jobs'[k].job # "succeed" /\ jobs'[k].r \in Ids
<1>1. jobs \in Seq(JobSet) /\ Len(jobs) \in Nat \ {0}
  BY HeadJob
<1>2. PICK new \in Seq(JobSet) : new = jobs' /\ Moves(jobs, more, 1, new)
  BY <1>1, Thened
<1> DEFINE d == 1
<1>3. d = 1 /\ Moves(jobs, more, d, new)
  BY <1>2
<1> HIDE DEF d
<1>4. From(jobs, more, d, new)
  BY ONLY <1>1, <1>2, <1>3, MovesFrom
<1>5. ASSUME NEW k \in 1 .. Len(new) PROVE new[k].job # "succeed"
  <2>1. CASE k \in 1 .. Len(more) /\ new[k] = more[k]
    BY <2>1
  <2>2. CASE k - Len(more) + d \in d + 1 .. Len(jobs) /\ new[k] = jobs[k - Len(more) + d]
    <3>1. PICK i \in d + 1 .. Len(jobs) : new[k] = jobs[i]
      BY <2>2
    <3>2. i \in 1 .. Len(jobs) /\ i # 1
      BY <1>1, <1>3
    <3>3. jobs[i].job # "succeed"
      BY <3>2 DEF AnswersInv
    <3> QED BY <3>1, <3>3
  <2> QED BY <1>4, <2>1, <2>2 DEF From
<1>6. \A k \in 1 .. Len(new) : new[k].r \in Ids
  BY JobsTyped
<1> QED BY ONLY <1>2, <1>5, <1>6

\* A jsonp request takes a name that no request that waits has.
LEMMA RequestNames ==
    ASSUME RequestsInv, NamesInv, Requests!Request PROVE NamesInv'
<1>1. PICK r \in Ids : r = requests + 1
  BY MaxRequestsAssumption DEF Requests!Request, RequestsInv, TypeInv, Ids
<1>2. /\ requests \in Nat /\ requests' = r /\ r > requests
      /\ kind \in [Ids -> {"none", "xhr", "jsonp"}] /\ completed' = completed
      /\ name \in [Ids -> Nat] /\ installed \in [Ids -> Nat]
      /\ oldCallbacks \in Seq(Ids) /\ Len(oldCallbacks) \in Nat
  BY <1>1, LenProperties DEF Requests!Request, RequestsInv, TypeInv, NamesInv
<1>5. nonce \in Nat /\ 1 <= nonce /\ nonce <= r /\ r \in Nat /\ nonce \in Ids
  <2>1. nonce \in 1 .. requests + 1 /\ MaxRequests \in Nat
    BY MaxRequestsAssumption DEF NamesInv
  <2> QED BY <1>1, <1>2, <2>1 DEF Ids
<1>3. CASE kind' = [kind EXCEPT ![r] = "xhr"] /\ UNCHANGED Requests!jsonp
  <2>1. UNCHANGED <<name, installed, oldCallbacks, nonce>>
    BY <1>3 DEF Requests!jsonp
  <2>2. \A q \in Ids : Waits(q)' => Waits(q)
    <3> SUFFICES ASSUME NEW q \in Ids, q <= r, kind'[q] = "jsonp", completed[q] # "true"
                 PROVE  Waits(q)
      BY <1>2 DEF Waits
    <3>1. q # r /\ kind[q] = "jsonp"
      BY <1>2, <1>3
    <3>2. q <= requests
      BY <1>1, <1>2, <3>1 DEF Ids
    <3> QED BY <3>1, <3>2 DEF Waits
  <2>3. nonce \in 1 .. requests' + 1
    BY <1>2, <1>5
  <2> QED BY <2>1, <2>2, <2>3 DEF NamesInv
<1>4. CASE kind' = [kind EXCEPT ![r] = "jsonp"]
           /\ LET freed == Len(oldCallbacks)
                  n == IF freed > 0 THEN oldCallbacks[freed] ELSE nonce
              IN  /\ name' = [name EXCEPT ![r] = n]
                  /\ installed' = [installed EXCEPT ![n] = r]
                  /\ oldCallbacks' = SubSeq(oldCallbacks, 1, freed - 1)
                  /\ nonce' = IF freed > 0 THEN nonce ELSE nonce + 1
  <2> DEFINE freed == Len(oldCallbacks)
             n == IF freed > 0 THEN oldCallbacks[freed] ELSE nonce
             old == SubSeq(oldCallbacks, 1, freed - 1)
  <2>1. /\ name' = [name EXCEPT ![r] = n] /\ installed' = [installed EXCEPT ![n] = r]
        /\ oldCallbacks' = old /\ nonce' = IF freed > 0 THEN nonce ELSE nonce + 1
    BY <1>4
  <2>2. /\ old \in Seq(Ids) /\ Len(old) \in Nat
        /\ \A i \in 1 .. Len(old) : i \in 1 .. freed /\ i # freed /\ old[i] = oldCallbacks[i]
    <3>1. CASE freed > 0
      <4>1. /\ 1 \in Int /\ freed - 1 \in Int /\ freed - 1 - 1 + 1 = freed - 1
            /\ \A i \in 1 .. freed - 1 : oldCallbacks[i] \in Ids /\ 1 + i - 1 = i
            /\ (IF 1 <= freed - 1 THEN freed - 1 - 1 + 1 ELSE 0) = freed - 1
        <5>1. freed \in Nat /\ freed > 0 /\ \A i \in 1 .. freed : oldCallbacks[i] \in Ids
          BY <1>2, <3>1
        <5> HIDE DEF freed
        <5> QED BY <5>1
      <4>2. old \in Seq(Ids) /\ Len(old) = freed - 1
            /\ \A i \in 1 .. freed - 1 : old[i] = oldCallbacks[i]
        BY <4>1, SubSeqProperties
      <4> HIDE DEF old
      <4> QED BY <1>2, <3>1, <4>2
    <3>2. CASE ~(freed > 0)
      <4>1. 1 \in Int /\ freed - 1 \in Int /\ freed - 1 < 1
        BY <1>2, <3>2
      <4>2. old = <<>>
        BY <4>1, SubSeqEmpty
      <4> HIDE DEF old
      <4> QED BY <4>2, EmptySeq
    <3> QED BY <3>1, <3>2
  <2>3. /\ \A i \in 1 .. freed : oldCallbacks[i] \in Ids /\ oldCallbacks[i] < nonce
        /\ \A i, j \in 1 .. freed : oldCallbacks[i] = oldCallbacks[j] => i = j
    BY <1>2 DEF NamesInv
  <2>4. /\ n \in Ids /\ n \in 1 .. nonce' - 1 /\ nonce' \in 1 .. r + 1 /\ nonce <= nonce'
        /\ \A i \in 1 .. Len(old) : old[i] # n
    <3>1. CASE freed > 0
      <4>1. n = oldCallbacks[freed] /\ freed \in 1 .. freed /\ nonce' = nonce
        BY <1>2, <2>1, <3>1
      <4>2. \A i \in 1 .. Len(old) : old[i] # n
        BY <2>2, <2>3, <4>1
      <4> HIDE DEF n, old
      <4>3. n \in Ids /\ n < nonce
        BY <2>3, <4>1
      <4> QED BY <1>5, <4>1, <4>2, <4>3 DEF Ids
    <3>2. CASE ~(freed > 0)
      <4>1. n = nonce /\ nonce' = nonce + 1
        BY <2>1, <3>2
      <4> HIDE DEF n, old
      <4>2. \A i \in 1 .. Len(old) : old[i] < nonce /\ old[i] \in Ids
        BY <2>2, <2>3
      <4> QED BY <1>5, <4>1, <4>2 DEF Ids
    <3> QED BY <3>1, <3>2
  <2>5. ASSUME NEW q \in Ids, Waits(q)
        PROVE  /\ name[q] \in 1 .. nonce - 1 /\ installed[name[q]] = q /\ name[q] # n
               /\ \A i \in 1 .. freed : oldCallbacks[i] # name[q]
    <3>1. /\ name[q] \in 1 .. nonce - 1 /\ installed[name[q]] = q
          /\ \A i \in 1 .. freed : oldCallbacks[i] # name[q]
      BY <2>5 DEF NamesInv
    <3>2. CASE freed > 0
      BY <1>2, <3>1, <3>2
    <3>3. CASE ~(freed > 0)
      <4>1. n = nonce
        BY <3>3
      <4> HIDE DEF n
      <4> QED BY <1>2, <3>1, <4>1
    <3> QED BY <3>1, <3>2, <3>3
  <2> HIDE DEF n, old, freed
  <2>6. /\ name' \in [Ids -> Nat] /\ installed' \in [Ids -> Nat]
        /\ name'[r] = n /\ installed'[n] = r
        /\ \A q \in Ids : q # r => name'[q] = name[q]
        /\ \A m \in Ids : m # n => installed'[m] = installed[m]
    BY <1>1, <1>2, <2>1, <2>4 DEF Ids
  <2>7. ASSUME NEW q \in Ids, Waits(q)', q # r PROVE Waits(q)
    <3>1. q <= r /\ kind'[q] = "jsonp" /\ completed[q] # "true"
      BY <1>2, <2>7 DEF Waits
    <3>2. q <= requests
      BY <1>1, <1>2, <2>7, <3>1 DEF Ids
    <3>3. kind[q] = "jsonp"
      BY <1>2, <1>4, <2>7, <3>1
    <3> QED BY <3>1, <3>2, <3>3 DEF Waits
  <2>8. ASSUME NEW q \in Ids, Waits(q)'
        PROVE  /\ name'[q] \in 1 .. nonce' - 1 /\ installed'[name'[q]] = q
               /\ \A i \in 1 .. Len(old) : old[i] # name'[q]
    <3>1. CASE q = r
      BY <2>4, <2>6, <3>1
    <3>2. CASE q # r
      <4>1. /\ name[q] \in 1 .. nonce - 1 /\ installed[name[q]] = q /\ name[q] # n
            /\ \A i \in 1 .. freed : oldCallbacks[i] # name[q]
        BY <2>5, <2>7, <2>8, <3>2
      <4>2. name'[q] = name[q]
        BY <2>6, <3>2
      <4>3. name[q] \in Ids /\ name[q] \in 1 .. nonce' - 1
        <5>1. nonce' \in Int /\ nonce <= nonce' /\ MaxRequests \in Nat /\ r <= MaxRequests
          BY <1>1, <1>5, <2>4, MaxRequestsAssumption DEF Ids
        <5> QED BY <1>5, <4>1, <5>1 DEF Ids
      <4> QED BY <2>2, <2>6, <4>1, <4>2, <4>3
    <3> QED BY <3>1, <3>2
  <2>9. \A i \in 1 .. Len(old) :
           /\ old[i] < nonce' /\ \A j \in 1 .. Len(old) : old[i] = old[j] => i = j
    <3> SUFFICES ASSUME NEW i \in 1 .. Len(old)
                 PROVE  old[i] < nonce' /\ \A j \in 1 .. Len(old) : old[i] = old[j] => i = j
      OBVIOUS
    <3>1. old[i] < nonce /\ old[i] \in Ids
      BY <2>2, <2>3
    <3>2. old[i] < nonce'
      BY <1>5, <2>4, <3>1 DEF Ids
    <3> QED BY <2>2, <2>3, <3>2
  <2> QED BY <1>2, <2>1, <2>2, <2>4, <2>6, <2>8, <2>9 DEF NamesInv
<1> QED BY <1>1, <1>3, <1>4 DEF Requests!Request

\* The last to take the name is the new request.
LEMMA RequestOwners ==
    ASSUME RequestsInv, NamesInv, OwnersInv, Requests!Request PROVE OwnersInv'
<1>1. PICK r \in Ids : r = requests + 1
  BY MaxRequestsAssumption DEF Requests!Request, RequestsInv, TypeInv, Ids
<1>2. /\ requests \in Nat /\ requests' = r /\ r > requests /\ r \in Nat
      /\ kind \in [Ids -> {"none", "xhr", "jsonp"}]
      /\ name \in [Ids -> Nat] /\ installed \in [Ids -> Nat] /\ container \in [Ids -> Nat]
      /\ oldCallbacks \in Seq(Ids) /\ Len(oldCallbacks) \in Nat
      /\ container' = container
  BY <1>1, LenProperties DEF Requests!Request, RequestsInv, TypeInv, NamesInv, Requests!jsonp
<1>3. /\ \A n \in Ids : installed[n] # 0
            => installed[n] \in 1 .. requests /\ name[installed[n]] = n
      /\ \A q \in Ids : q <= requests /\ kind[q] = "jsonp"
            => name[q] \in Ids /\ (installed[name[q]] # 0 => q <= installed[name[q]])
      /\ \A q \in Ids : container[q] # 0
            => q <= requests /\ container[q] \in 1 .. q /\ name[container[q]] = name[q]
  BY DEF OwnersInv
<1>4. \A q \in Ids : q # r => (q <= r => q <= requests)
  BY <1>1, <1>2 DEF Ids
<1>5. \A q \in 1 .. requests : q \in Ids /\ q # r /\ q \in 1 .. r
  BY <1>1, <1>2, MaxRequestsAssumption DEF Ids
<1>6. ASSUME NEW q \in Ids, container[q] # 0, \A i \in 1 .. requests : name'[i] = name[i]
      PROVE  q <= r /\ container[q] \in 1 .. q /\ name'[container[q]] = name'[q]
  <2>1. q <= requests /\ container[q] \in 1 .. q /\ name[container[q]] = name[q]
    BY <1>3, <1>6
  <2>2. q \in 1 .. requests /\ container[q] \in 1 .. requests
    BY <1>2, <2>1, MaxRequestsAssumption DEF Ids
  <2> QED BY <1>2, <1>6, <2>1, <2>2
<1>7. CASE kind' = [kind EXCEPT ![r] = "xhr"] /\ UNCHANGED Requests!jsonp
  <2>1. UNCHANGED <<name, installed>>
    BY <1>7 DEF Requests!jsonp
  <2>2. \A q \in Ids : q <= r /\ kind'[q] = "jsonp" => q <= requests /\ kind[q] = "jsonp"
    BY <1>2, <1>4, <1>7
  <2>3. \A n \in Ids : installed[n] # 0 => installed[n] \in 1 .. r
    BY <1>3, <1>5
  <2> QED BY <1>2, <1>3, <1>6, <2>1, <2>2, <2>3 DEF OwnersInv
<1>8. CASE kind' = [kind EXCEPT ![r] = "jsonp"]
           /\ LET freed == Len(oldCallbacks)
                  n == IF freed > 0 THEN oldCallbacks[freed] ELSE nonce
              IN  /\ name' = [name EXCEPT ![r] = n]
                  /\ installed' = [installed EXCEPT ![n] = r]
  <2>1. PICK n : /\ n = IF Len(oldCallbacks) > 0 THEN oldCallbacks[Len(oldCallbacks)] ELSE nonce
                 /\ name' = [name EXCEPT ![r] = n] /\ installed' = [installed EXCEPT ![n] = r]
    BY <1>8
  <2>2. n \in Ids
    <3>1. nonce \in 1 .. requests + 1 /\ MaxRequests \in Nat
      BY MaxRequestsAssumption DEF NamesInv
    <3>2. nonce \in Ids
      BY <1>1, <1>2, <3>1 DEF Ids
    <3>3. Len(oldCallbacks) > 0 => oldCallbacks[Len(oldCallbacks)] \in Ids
      BY <1>2
    <3> QED BY <2>1, <3>2, <3>3
  <2>3. /\ name'[r] = n /\ installed'[n] = r
        /\ \A q \in Ids : q # r => name'[q] = name[q]
        /\ \A m \in Ids : m # n => installed'[m] = installed[m]
    BY <1>1, <1>2, <2>1, <2>2
  <2>4. ASSUME NEW m \in Ids, installed'[m] # 0
        PROVE  installed'[m] \in 1 .. r /\ name'[installed'[m]] = m
    <3>1. CASE m = n
      BY <1>1, <1>2, <2>3, <3>1 DEF Ids
    <3>2. CASE m # n
      <4>1. installed'[m] = installed[m]
        BY <2>3, <3>2
      <4> QED BY <1>3, <1>5, <2>3, <2>4, <4>1
    <3> QED BY <3>1, <3>2
  <2>5. ASSUME NEW q \in Ids, q <= r, kind'[q] = "jsonp"
        PROVE  name'[q] \in Ids /\ (installed'[name'[q]] # 0 => q <= installed'[name'[q]])
    <3>1. CASE q = r
      BY <1>2, <2>2, <2>3, <3>1
    <3>2. CASE q # r
      <4>1. q <= requests /\ kind[q] = "jsonp"
        BY <1>2, <1>4, <1>8, <2>5, <3>2
      <4>2. name[q] \in Ids /\ (installed[name[q]] # 0 => q <= installed[name[q]])
        BY <1>3, <4>1
      <4> QED BY <2>3, <2>5, <3>2, <4>2
    <3> QED BY <3>1, <3>2
  <2>6. \A i \in 1 .. requests : name'[i] = name[i]
    BY <1>5, <2>3
  <2> QED BY <1>2, <1>6, <2>4, <2>5, <2>6 DEF OwnersInv
<1> QED BY <1>1, <1>7, <1>8 DEF Requests!Request

LEMMA RequestAnswers ==
    ASSUME RequestsInv, NamesInv, AnswersInv, Requests!Request PROVE AnswersInv'
<1>1. PICK r \in Ids : r = requests + 1
  BY MaxRequestsAssumption DEF Requests!Request, RequestsInv, TypeInv, Ids
<1> DEFINE more == <<Requests!User("prefilter", r), Requests!Job("begin", r)>>
<1>2. /\ requests \in Nat /\ requests' = r /\ r > requests /\ jobs' = more \o jobs
      /\ kind \in [Ids -> {"none", "xhr", "jsonp"}] /\ jobs \in Seq(JobSet)
      /\ kind' \in {[kind EXCEPT ![r] = "xhr"], [kind EXCEPT ![r] = "jsonp"]}
      /\ UNCHANGED <<completed, state, told, silent>>
      /\ name' = name \/ \E n : name' = [name EXCEPT ![r] = n]
      /\ Requests!UserCode
  <2>1. /\ requests \in Nat /\ requests' = r /\ r > requests /\ jobs' = more \o jobs
        /\ kind \in [Ids -> {"none", "xhr", "jsonp"}] /\ jobs \in Seq(JobSet)
        /\ UNCHANGED <<completed, state, told>> /\ Requests!UserCode
    BY <1>1 DEF Requests!Request, RequestsInv, TypeInv
  <2>2. /\ kind' \in {[kind EXCEPT ![r] = "xhr"], [kind EXCEPT ![r] = "jsonp"]}
        /\ silent' = silent
        /\ name' = name \/ \E n : name' = [name EXCEPT ![r] = n]
    BY <1>1, Zenon DEF Requests!Request, Requests!jsonp
  <2> QED BY <2>1, <2>2
<1>3. Requests!User("prefilter", r) \in JobSet /\ Requests!Job("begin", r) \in JobSet
  BY <1>1, JobsTyped DEF Kinds, Hooks
<1>4. more \in Seq(JobSet) /\ \A k \in 1 .. Len(more) : more[k].job # "succeed"
  BY <1>3 DEF Requests!User, Requests!Job
<1> HIDE DEF more
<1>5. \A k \in 1 .. Len(jobs) : jobs[k].job # "succeed"
  <2>1. jobs # <<>> => jobs[1].job = "user"
    BY <1>2, HeadJob DEF Requests!UserCode, Requests!Doing
  <2>2. \A k \in 1 .. Len(jobs) : jobs # <<>>
    BY EmptySeq
  <2> QED BY <2>1, <2>2 DEF AnswersInv
<1>6. \A k \in 1 .. Len(jobs') : jobs'[k].job # "succeed"
  <2>1. PICK new \in Seq(JobSet) : new = jobs' /\ Moves(jobs, more, 0, new)
    BY <1>2, <1>4, Pushed
  <2> DEFINE d == 0
  <2>2. Moves(jobs, more, d, new) /\ \A k \in d + 1 .. Len(jobs) : k \in 1 .. Len(jobs)
    BY <2>1
  <2> HIDE DEF d
  <2>3. From(jobs, more, d, new)
    BY ONLY <1>2, <1>4, <2>1, <2>2, MovesFrom
  <2>4. ASSUME NEW k \in 1 .. Len(new) PROVE new[k].job # "succeed"
    <3>1. CASE k \in 1 .. Len(more) /\ new[k] = more[k]
      BY <1>4, <3>1
    <3>2. CASE k - Len(more) + d \in d + 1 .. Len(jobs) /\ new[k] = jobs[k - Len(more) + d]
      BY <1>5, <2>2, <3>2
    <3> QED BY <2>3, <3>1, <3>2 DEF From
  <2> QED BY <2>1, <2>4
<1>7. \A q \in Ids : state'[q] # "pending" => completed'[q] = "true" /\ q <= requests'
  BY <1>2 DEF AnswersInv, Ids
<1>8. OwnAnswer'
  <2> SUFFICES ASSUME NEW q \in 1 .. r, state[q] = "resolved", kind'[q] = "jsonp"
               PROVE  \/ told[q][1][2] = q
                      \/ /\ q \in silent /\ told[q][1][2] < q
                         /\ name'[told[q][1][2]] = name'[q]
    BY <1>2 DEF OwnAnswer, Requests!OwnAnswer
  <2>1. q \in Ids /\ q \in Nat
    BY <1>1, <1>2, MaxRequestsAssumption DEF Ids
  <2>2. q <= requests
    BY <2>1 DEF AnswersInv
  <2>3. kind[q] = "jsonp" /\ q \in 1 .. requests /\ q < r
    BY <1>1, <1>2, <2>1, <2>2
  <2>4. PICK a : a = told[q][1][2]
    OBVIOUS
  <2>5. /\ a \in 1 .. q
        /\ a = q \/ (q \in silent /\ a < q /\ name[a] = name[q])
    <3>1. told[q][1][2] \in 1 .. q
      BY <2>3 DEF AnswersInv
    <3>2. \/ told[q][1][2] = q
          \/ q \in silent /\ told[q][1][2] < q /\ name[told[q][1][2]] = name[q]
      BY <2>3 DEF AnswersInv, OwnAnswer, Requests!OwnAnswer
    <3> QED BY ONLY <2>4, <3>1, <3>2
  <2>6. a \in Ids /\ a # r /\ q # r
    BY ONLY <1>1, <2>1, <2>3, <2>5, MaxRequestsAssumption DEF Ids
  <2>7. \A i \in Ids : i # r => name'[i] = name[i]
    BY <1>2 DEF NamesInv
  <2>8. name'[a] = name[a] /\ name'[q] = name[q]
    BY ONLY <2>1, <2>6, <2>7
  <2>9. a = q \/ (q \in silent /\ a < q /\ name'[a] = name'[q])
    BY ONLY <2>5, <2>8
  <2> QED BY ONLY <2>4, <2>9
<1>9. \A q \in 1 .. requests' : state'[q] = "resolved" /\ kind'[q] = "jsonp"
        => told'[q][1][2] \in 1 .. q
  <2> SUFFICES ASSUME NEW q \in 1 .. r, state[q] = "resolved", kind'[q] = "jsonp"
               PROVE  told[q][1][2] \in 1 .. q
    BY <1>2
  <2>1. q \in Ids
    BY <1>1, <1>2, MaxRequestsAssumption DEF Ids
  <2>2. q <= requests
    BY <2>1 DEF AnswersInv
  <2>3. kind[q] = "jsonp" /\ q \in 1 .. requests
    BY <1>1, <1>2, <2>1, <2>2
  <2> QED BY <2>3 DEF AnswersInv
<1> QED BY <1>6, <1>7, <1>8, <1>9 DEF AnswersInv

\* The name of a jsonp request that is done is free again; what it is told is
\* what its script has left.
LEMMA FinishNames ==
    ASSUME RequestsInv, NamesInv, jobs # <<>>, completed[Requests!R] # "true",
           NEW outcome \in {"resolved", "rejected"}, Requests!Finish(Requests!R, outcome),
           UNCHANGED <<requests, kind>>
    PROVE  NamesInv'
<1>1. PICK r \in 1 .. requests : r = Requests!R
  BY HeadJob
<1>2. /\ r \in Ids /\ r <= requests /\ completed[r] # "true"
      /\ completed \in [Ids -> {"undefined", "false", "true"}]
      /\ completed' = [completed EXCEPT ![r] = "true"]
  BY <1>1, HeadJob DEF Requests!Finish, RequestsInv, TypeInv
<1>3. Later /\ \A q \in Ids : Waits(q)' => Waits(q) /\ q # r
  BY <1>2 DEF Later, Waits
<1>4. CASE kind[r] # "jsonp"
  <2>1. UNCHANGED <<name, installed, oldCallbacks, nonce>>
    BY <1>1, <1>4 DEF Requests!Finish, Requests!jsonp
  <2> QED BY <1>3, <2>1, NamesKept
<1>5. CASE kind[r] = "jsonp"
  <2> DEFINE n == name[r]
             len == Len(oldCallbacks)
  <2>1. /\ installed' = [installed EXCEPT ![n] = 0] /\ oldCallbacks' = Append(oldCallbacks, n)
        /\ UNCHANGED <<name, nonce>>
    BY <1>1, <1>5 DEF Requests!Finish
  <2>2. Waits(r)
    BY <1>2, <1>5 DEF Waits
  <2>3. /\ n \in 1 .. nonce - 1 /\ installed[n] = r /\ \A i \in 1 .. len : oldCallbacks[i] # n
        /\ oldCallbacks \in Seq(Ids) /\ nonce \in 1 .. requests + 1
        /\ name \in [Ids -> Nat] /\ installed \in [Ids -> Nat]
        /\ requests \in 0 .. MaxRequests
    BY <1>2, <2>2 DEF NamesInv, RequestsInv, TypeInv
  <2> HIDE DEF n
  <2>4. n \in Ids /\ n < nonce
    BY <2>3, MaxRequestsAssumption DEF Ids
  <2>5. PICK old \in Seq(Ids) :
           /\ old = Append(oldCallbacks, n) /\ Len(old) = len + 1 /\ len \in Nat /\ Len(old) \in Nat
           /\ \A i \in 1 .. len : old[i] = oldCallbacks[i]
           /\ old[len + 1] = n
    <3>1. /\ Append(oldCallbacks, n) \in Seq(Ids)
          /\ Len(Append(oldCallbacks, n)) = Len(oldCallbacks) + 1
          /\ \A i \in 1 .. Len(oldCallbacks) : Append(oldCallbacks, n)[i] = oldCallbacks[i]
          /\ Append(oldCallbacks, n)[Len(oldCallbacks) + 1] = n
      BY <2>3, <2>4, AppendProperties
    <3>2. Len(oldCallbacks) \in Nat
      BY <2>3, LenProperties
    <3> DEFINE old == Append(oldCallbacks, n)
    <3>3. /\ old \in Seq(Ids) /\ Len(old) = len + 1 /\ len \in Nat
          /\ \A i \in 1 .. len : old[i] = oldCallbacks[i]
          /\ old[len + 1] = n /\ old = Append(oldCallbacks, n)
      BY <3>1, <3>2
    <3> HIDE DEF old, len
    <3>4. Len(old) \in Nat
      BY ONLY <3>3
    <3> QED BY ONLY <3>3, <3>4
  <2>6. \A i \in 1 .. len : /\ oldCallbacks[i] < nonce
                            /\ \A j \in 1 .. len : oldCallbacks[i] = oldCallbacks[j] => i = j
    BY DEF NamesInv
  <2> HIDE DEF len
  <2>7. \A i \in 1 .. Len(old) : i \in 1 .. len \/ i = len + 1
    BY <2>5
  <2>8. \A i \in 1 .. Len(old) :
           /\ old[i] < nonce /\ \A j \in 1 .. Len(old) : old[i] = old[j] => i = j
    BY <2>3, <2>4, <2>5, <2>6, <2>7
  <2>9. ASSUME NEW q \in Ids, Waits(q)'
        PROVE  /\ name[q] \in 1 .. nonce - 1 /\ installed'[name[q]] = q
               /\ \A i \in 1 .. Len(old) : old[i] # name[q]
    <3>1. /\ name[q] \in 1 .. nonce - 1 /\ installed[name[q]] = q /\ q # r
          /\ \A i \in 1 .. len : oldCallbacks[i] # name[q]
      BY <1>3, <2>9 DEF NamesInv, len
    <3>2. name[q] # n
      BY <2>3, <3>1
    <3>3. installed'[name[q]] = q
      <4>1. name[q] \in Ids
        BY <2>3, <3>1, MaxRequestsAssumption DEF Ids
      <4> QED BY <2>1, <2>3, <3>1, <3>2, <4>1
    <3> QED BY <2>5, <2>7, <3>1, <3>2, <3>3
  <2>10. installed' \in [Ids -> Nat]
    BY <2>1, <2>3
  <2>11. /\ oldCallbacks' = old /\ name' = name /\ nonce' = nonce /\ requests' = requests
    BY <1>3, <2>1, <2>5 DEF Later
  <2>12. /\ name' \in [Ids -> Nat] /\ installed' \in [Ids -> Nat]
         /\ oldCallbacks' \in Seq(Ids) /\ nonce' \in 1 .. requests' + 1
    BY ONLY <2>3, <2>5, <2>10, <2>11
  <2>13. \A i \in 1 .. Len(oldCallbacks') :
            /\ oldCallbacks'[i] < nonce'
            /\ \A j \in 1 .. Len(oldCallbacks') :
                  oldCallbacks'[i] = oldCallbacks'[j] => i = j
    BY ONLY <2>8, <2>11
  <2>14. \A q \in Ids : Waits(q)'
            => /\ name'[q] \in 1 .. nonce' - 1 /\ installed'[name'[q]] = q
               /\ \A i \in 1 .. Len(oldCallbacks') : oldCallbacks'[i] # name'[q]
    BY <2>9, <2>11
  <2> QED BY <2>12, <2>13, <2>14 DEF NamesInv
<1> QED BY <1>4, <1>5

LEMMA FinishOwners ==
    ASSUME RequestsInv, NamesInv, OwnersInv, jobs # <<>>, completed[Requests!R] # "true",
           NEW outcome \in {"resolved", "rejected"}, Requests!Finish(Requests!R, outcome),
           UNCHANGED <<requests, kind>>
    PROVE  OwnersInv'
<1>1. PICK r \in 1 .. requests : r = Requests!R
  BY HeadJob
<1>2. /\ r \in Ids /\ installed \in [Ids -> Nat] /\ container \in [Ids -> Nat] /\ name' = name
  BY <1>1, HeadJob DEF Requests!Finish, Requests!jsonp, RequestsInv, TypeInv, NamesInv
<1>3. \/ UNCHANGED <<installed, container>>
      \/ /\ installed' = [installed EXCEPT ![name[r]] = 0]
         /\ container' = [container EXCEPT ![r] = 0]
  BY <1>1 DEF Requests!Finish, Requests!jsonp
<1>4. \A n \in Ids : installed'[n] = 0 \/ installed'[n] = installed[n]
  BY <1>2, <1>3
<1>5. \A q \in Ids : container'[q] = 0 \/ container'[q] = container[q]
  BY <1>2, <1>3
<1> QED BY <1>2, <1>4, <1>5 DEF OwnersInv

LEMMA FinishAnswers ==
    ASSUME RequestsInv, OwnersInv, AnswersInv, jobs # <<>>, completed[Requests!R] # "true",
           NEW outcome \in {"resolved", "rejected"}, Requests!Finish(Requests!R, outcome),
           outcome = "resolved"
             => /\ Head(jobs).job = "succeed"
                /\ kind[Requests!R] = "jsonp" => container[Requests!R] # 0,
           UNCHANGED <<requests, kind>>
    PROVE  AnswersInv'
<1>1. PICK r \in 1 .. requests : r = Requests!R
  BY HeadJob
<1> DEFINE more == <<Requests!User("settled", r), Requests!Job("complete", r)>>
<1>2. /\ r \in Ids /\ r <= requests /\ completed[r] # "true" /\ jobs[1].r = r
      /\ outcome = "resolved" => /\ jobs[1].job = "succeed"
                                 /\ kind[r] = "jsonp" => container[r] # 0
      /\ UNCHANGED <<name, silent>>
      /\ jobs' = more \o Tail(jobs) /\ Len(jobs) \in Nat \ {0} /\ requests \in 0 .. MaxRequests
  BY <1>1, HeadJob DEF Requests!Finish, Requests!Then, Requests!jsonp
<1>3. /\ state' = [state EXCEPT ![r] = outcome]
      /\ completed' = [completed EXCEPT ![r] = "true"]
      /\ told' = [told EXCEPT ![r] = Append(@, <<outcome, container[r]>>)]
      /\ state \in [Ids -> {"pending", "resolved", "rejected"}]
      /\ completed \in [Ids -> {"undefined", "false", "true"}]
      /\ told \in [Ids -> Seq({"resolved", "rejected", "complete"} \X Nat)]
      /\ told[r] = <<>>
  BY <1>1, <1>2 DEF Requests!Finish, RequestsInv, TypeInv, ToldInv
<1>4. Requests!User("settled", r) \in JobSet /\ Requests!Job("complete", r) \in JobSet
  BY <1>2, JobsTyped DEF Kinds, Hooks
<1>5. more \in Seq(JobSet) /\ \A k \in 1 .. Len(more) : more[k].job # "succeed"
  BY <1>4 DEF Requests!User, Requests!Job
<1> HIDE DEF more
<1>6. \A k \in 1 .. Len(jobs') : jobs'[k].job # "succeed"
  BY <1>2, <1>5, NoSuccess
<1>7. \A q \in Ids : state'[q] # "pending" => completed'[q] = "true" /\ q <= requests
  BY <1>2, <1>3 DEF AnswersInv
<1>8. ASSUME NEW q \in 1 .. requests, state'[q] = "resolved", kind[q] = "jsonp"
      PROVE  /\ told'[q][1][2] \in 1 .. q
             /\ \/ told'[q][1][2] = q
                \/ /\ q \in silent /\ told'[q][1][2] < q
                   /\ name[told'[q][1][2]] = name[q]
  <2>1. q \in Ids
    BY <1>2, MaxRequestsAssumption DEF Ids
  <2>2. CASE q # r
    <3>1. state[q] = "resolved" /\ told'[q] = told[q]
      BY <1>2, <1>3, <1>8, <2>1, <2>2
    <3> QED BY <1>8, <3>1 DEF AnswersInv, OwnAnswer, Requests!OwnAnswer
  <2>3. CASE q = r
    <3>1. jobs[1].job = "succeed" /\ Waits(r)
      BY <1>2, <1>3, <1>8, <2>3 DEF Waits
    <3>2. /\ container[r] \in 1 .. r
          /\ container[r] = r
             \/ (r \in silent /\ container[r] < r /\ name[container[r]] = name[r])
      <4>1. 1 \in 1 .. Len(jobs) /\ container[r] # 0
        BY <1>2, <1>3, <1>8, <2>3
      <4>2. container[r] = r \/ r \in silent
        <5>1. Answered(jobs[1].r)
          BY <1>2, <3>1, <4>1 DEF AnswersInv
        <5> QED BY <1>2, <5>1 DEF Answered
      <4>3. container[r] \in 1 .. r /\ name[container[r]] = name[r]
        BY <1>2, <4>1 DEF OwnersInv
      <4>4. PICK c : c = container[r]
        OBVIOUS
      <4>5. c \in 1 .. r /\ r \in Nat /\ (c = r \/ r \in silent) /\ name[c] = name[r]
        BY <1>2, <4>2, <4>3, <4>4
      <4>6. c = r \/ (r \in silent /\ c < r /\ name[c] = name[r])
        <5>1. c \in Int /\ r \in Int /\ c <= r
          BY ONLY <4>5
        <5>2. c = r \/ c < r
          BY ONLY <5>1
        <5> QED BY ONLY <4>5, <5>2
      <4> QED BY ONLY <4>4, <4>5, <4>6
    <3>3. told'[r] = Append(<<>>, <<outcome, container[r]>>)
      BY <1>2, <1>3
    <3>4. Append(<<>>, <<outcome, container[r]>>) = <<<<outcome, container[r]>>>>
      OBVIOUS
    <3> QED BY <2>3, <3>2, <3>3, <3>4
  <2> QED BY <2>2, <2>3
<1>9. OwnAnswer'
  BY <1>2, <1>8 DEF OwnAnswer, Requests!OwnAnswer
<1> QED BY <1>6, <1>7, <1>8, <1>9 DEF AnswersInv

\* The steps that change no name and no answer.
LEMMA InsideOwn ==
    ASSUME RequestsInv, OwnInv,
           \/ Requests!Abort \/ Requests!Return \/ Requests!ReturnFalse \/ Requests!Throw
           \/ Requests!Check \/ Requests!Transport \/ Requests!AbortTransport,
           jobs # <<>>
    PROVE  OwnInv'
<1>1. Quiet
  BY AbortQuiet, ReturnQuiet, ReturnFalseQuiet, ThrowQuiet, CheckQuiet, TransportQuiet,
     AbortTransportQuiet
<1>2. UNCHANGED Requests!jsonp
  BY DEF Requests!Abort, Requests!Return, Requests!ReturnFalse, Requests!Throw,
         Requests!Check, Requests!Transport, Requests!AbortTransport
<1> QED BY <1>1, <1>2, QuietOwn DEF Requests!jsonp

\* A script leaves its answer to the last that took the name.
LEMMA ScriptOwners ==
    ASSUME RequestsInv, OwnersInv, NEW r \in 1 .. requests, Requests!Script(r)
    PROVE  OwnersInv'
<1>1. /\ r \in Ids /\ r \in Nat /\ container \in [Ids -> Nat] /\ kind[r] = "jsonp" /\ r <= requests
      /\ UNCHANGED <<requests, kind, name, installed>>
  <2>1. kind[r] = "jsonp" /\ UNCHANGED <<requests, kind, name, installed>>
    BY DEF Requests!Script, Requests!options
  <2>2. requests \in 0 .. MaxRequests /\ container \in [Ids -> Nat]
    BY DEF RequestsInv, TypeInv
  <2> QED BY <2>1, <2>2, MaxRequestsAssumption DEF Ids
<1>2. PICK script \in {"calls", "silent", "error"} : container' = [q \in Ids |->
         IF script = "calls" /\ q = installed[name[r]] THEN r ELSE container[q]]
  BY DEF Requests!Script, Requests!Requests, Ids
<1>3. \A q \in Ids : \/ container'[q] = container[q]
                     \/ container'[q] = r /\ q = installed[name[r]]
  <2>1. PICK does \in BOOLEAN : does <=> script = "calls"
    OBVIOUS
  <2>2. PICK i : i = installed[name[r]]
    OBVIOUS
  <2>3. PICK new : /\ new = container'
                   /\ new = [q \in Ids |-> IF does /\ q = i THEN r ELSE container[q]]
    BY <1>2, <2>1, <2>2
  <2>4. \A q \in Ids : new[q] = container[q] \/ (new[q] = r /\ q = i)
    BY ONLY <2>3
  <2> QED BY <2>2, <2>3, <2>4
<1>4. /\ name[r] \in Ids
      /\ installed[name[r]] # 0
         => /\ r <= installed[name[r]] /\ installed[name[r]] \in 1 .. requests
            /\ name[installed[name[r]]] = name[r]
  BY <1>1 DEF OwnersInv
<1>5. ASSUME NEW q \in Ids, container'[q] # 0
      PROVE  q <= requests /\ container'[q] \in 1 .. q /\ name[container'[q]] = name[q]
  <2>1. CASE container'[q] = container[q]
    BY <1>5, <2>1 DEF OwnersInv
  <2>2. CASE container'[q] = r /\ q = installed[name[r]]
    <3>1. q # 0
      BY DEF Ids
    <3> QED BY <1>1, <1>4, <2>2, <3>1 DEF Ids
  <2> QED BY <1>3, <2>1, <2>2
<1> QED BY <1>1, <1>5 DEF OwnersInv

\* What the browser calls: an answer, a script or a timeout; or abort().
LEMMA OutsideOwn ==
    ASSUME RequestsInv, OwnInv, NEW r \in 1 .. requests, jobs = <<>>,
           Requests!Answer(r) \/ Requests!Script(r) \/ Requests!Timeout(r) \/ Requests!Abort
    PROVE  OwnInv'
<1>1. /\ UNCHANGED <<requests, kind, completed, state, told, name, installed, oldCallbacks, nonce>>
  BY DEF Requests!Answer, Requests!Script, Requests!Timeout, Requests!Abort, Requests!options,
         Requests!jsonp
<1>2. requests \in 0 .. MaxRequests /\ container \in [Ids -> Nat] /\ r \in Ids
  BY Fronts DEF RequestsInv, TypeInv
<1>3. \A q \in 1 .. requests : /\ Len(Requests!AbortJobs(q)) = 2 /\ q \in Ids
                               /\ Is(Requests!AbortJobs(q)[1], {"abort"}, q)
                               /\ Is(Requests!AbortJobs(q)[2], {"done"}, q)
  BY <1>2, Fronts
<1>4. \/ \E q \in 1 .. requests : jobs' = Requests!AbortJobs(q)
      \/ jobs' = <<>> \/ jobs' = <<Requests!Job("done", r)>>
      \/ jobs' = <<Requests!Job("succeed", r)>> /\ (Waits(r) => Answered(r)')
  <2>1. CASE Requests!Answer(r)
    BY <2>1 DEF Requests!Answer, Waits
  <2>2. CASE Requests!Timeout(r)
    BY <2>2 DEF Requests!Timeout
  <2>3. CASE Requests!Abort
    <3>1. PICK q \in 1 .. requests : jobs' = Requests!AbortJobs(q) \o jobs
      BY <2>3 DEF Requests!Abort
    <3>2. Requests!AbortJobs(q) \in Seq(JobSet)
      BY <1>2, Fronts
    <3>3. jobs' = Requests!AbortJobs(q)
      BY <3>1, <3>2, ConcatEmptySeq
    <3> QED BY <3>3
  <2>4. CASE Requests!Script(r)
    <3>1. PICK script \in {"calls", "silent", "error"} :
             /\ container' = [q \in Requests!Requests |->
                    IF script = "calls" /\ q = installed[name[r]] THEN r ELSE container[q]]
             /\ silent' = IF script = "silent" THEN silent \union {r} ELSE silent
             /\ jobs' = IF ajaxListening[r]
                        THEN <<Requests!Job(IF script = "error" THEN "done" ELSE "succeed", r)>>
                        ELSE <<>>
      BY <2>4 DEF Requests!Script
    <3>2. Waits(r) => installed[name[r]] = r
      BY <1>2 DEF OwnInv, NamesInv
    <3>3. script = "calls" /\ Waits(r) => container'[r] = r
      BY <1>2, <3>1, <3>2 DEF Requests!Requests, Ids
    <3>4. script # "error" => (Waits(r) => Answered(r)')
      BY <3>1, <3>3 DEF Answered
    <3> QED BY <3>1, <3>4
  <2> QED BY <2>1, <2>2, <2>3, <2>4
<1>5. \A k \in 1 .. Len(jobs') :
         /\ jobs'[k].job = "succeed"
            => /\ k = 1
               /\ Waits(jobs'[k].r)
                  => container'[jobs'[k].r] = jobs'[k].r \/ jobs'[k].r \in silent'
         /\ jobs'[k].r \in Ids
  <2>1. CASE \E q \in 1 .. requests : jobs' = Requests!AbortJobs(q)
    <3>1. PICK q \in 1 .. requests : jobs' = Requests!AbortJobs(q)
      BY <2>1
    <3>2. PICK js : js = jobs'
      OBVIOUS
    <3>3. \A k \in 1 .. Len(js) : js[k].job # "succeed" /\ js[k].r \in Ids
      BY <1>3, <3>1, <3>2 DEF Is
    <3> QED BY <3>2, <3>3
  <2>2. CASE jobs' = <<>>
    BY <2>2
  <2>3. CASE jobs' = <<Requests!Job("done", r)>>
    BY <1>2, <2>3 DEF Requests!Job
  <2>4. CASE jobs' = <<Requests!Job("succeed", r)>> /\ (Waits(r) => Answered(r)')
    <3>1. Len(jobs') = 1 /\ jobs'[1].r = r
      BY <2>4 DEF Requests!Job
    <3> QED BY <1>2, <2>4, <3>1 DEF Answered
  <2> QED BY <1>4, <2>1, <2>2, <2>3, <2>4
<1>6. Later
  BY <1>1 DEF Later
<1>7. silent \subseteq silent'
  BY DEF Requests!Answer, Requests!Script, Requests!Timeout, Requests!Abort, Requests!jsonp
<1>8. OwnersInv'
  <2>1. CASE Requests!Script(r)
    BY <2>1, ScriptOwners DEF OwnInv
  <2>2. CASE Requests!Answer(r) \/ Requests!Timeout(r) \/ Requests!Abort
    <3>1. container' = container
      BY <2>2 DEF Requests!Answer, Requests!Timeout, Requests!Abort, Requests!jsonp
    <3> QED BY <1>1, <3>1, OwnersKept DEF OwnInv
  <2> QED BY <2>1, <2>2
<1> QED BY <1>1, <1>5, <1>6, <1>7, <1>8, NamesKept, AnswersKept DEF OwnInv

\* The steps of jQuery.ajax that leave no success to do.
LEMMA BeginOwn ==
    ASSUME RequestsInv, OwnInv, Requests!Begin PROVE OwnInv'
<1>1. /\ jobs # <<>>
      /\ UNCHANGED <<requests, kind, completed, state, told, name, installed, oldCallbacks, nonce,
                     container, silent>>
  BY DEF Requests!Begin, Requests!Doing, Requests!options, Requests!jsonp
<1>2. PICK r \in 1 .. requests : r = Requests!R /\ requests \in 0 .. MaxRequests
  BY <1>1, HeadJob
<1>3. PICK more \in Seq(JobSet) :
         /\ jobs' = more \o Tail(jobs)
         /\ \A k \in 1 .. Len(more) : more[k].job # "succeed"
  <2>1. CASE jobs' = <<>> \o Tail(jobs)
    <3>1. <<>> \in Seq(JobSet) /\ \A k \in 1 .. Len(<<>>) : <<>>[k].job # "succeed"
      BY EmptySeq
    <3> QED BY <2>1, <3>1
  <2>2. CASE jobs' # <<>> \o Tail(jobs)
    <3>1. PICK starts \in BOOLEAN, beforeSend \in BOOLEAN :
             jobs' = (((IF starts THEN <<Requests!User("ajaxStart", r)>> ELSE <<>>)
                       \o (IF beforeSend
                           THEN <<Requests!User("beforeSend", r), Requests!Job("check", r)>>
                           ELSE <<>>))
                      \o <<Requests!Job("transport", r)>>) \o Tail(jobs)
      BY <1>2, <2>2 DEF Requests!Begin, Requests!Then
    <3>2. PICK js : js = ((IF starts THEN <<Requests!User("ajaxStart", r)>> ELSE <<>>)
                          \o (IF beforeSend
                              THEN <<Requests!User("beforeSend", r), Requests!Job("check", r)>>
                              ELSE <<>>))
                         \o <<Requests!Job("transport", r)>>
      OBVIOUS
    <3>3. js \in Seq(JobSet) /\ \A k \in 1 .. Len(js) : js[k].job \notin Marked
      <4>1. /\ r \in 1 .. requests /\ requests \in 0 .. MaxRequests
            /\ starts \in BOOLEAN /\ beforeSend \in BOOLEAN
        BY ONLY <1>2, <3>1
      <4> QED BY ONLY <3>2, <4>1, BeginJobs
    <3> QED BY <3>1, <3>2, <3>3 DEF Marked
  <2> QED BY <2>1, <2>2
<1>4. \A k \in 1 .. Len(jobs') : jobs'[k].job # "succeed" /\ jobs'[k].r \in Ids
  BY <1>1, <1>3, NoSuccess DEF OwnInv
<1>5. Later
  BY <1>1 DEF Later
<1> QED BY <1>1, <1>4, <1>5, NamesKept, OwnersKept, AnswersKept DEF OwnInv

LEMMA SendOwn ==
    ASSUME RequestsInv, OwnInv, Requests!Send PROVE OwnInv'
<1>1. /\ jobs # <<>>
      /\ UNCHANGED <<requests, kind, state, told, name, installed, oldCallbacks, nonce, container,
                     silent>>
  BY DEF Requests!Send, Requests!Doing, Requests!options, Requests!jsonp
<1>2. PICK r \in Ids : r = Requests!R
  BY <1>1, HeadJob
<1>3. Requests!Job("done", r) \in JobSet /\ Requests!Job("done", r).job = "done"
  BY JobsTyped DEF Kinds, Requests!Job
<1>4. PICK more \in Seq(JobSet) :
         /\ jobs' = more \o Tail(jobs)
         /\ \A k \in 1 .. Len(more) : more[k].job # "succeed"
  <2>1. \/ jobs' = <<>> \o Tail(jobs) \/ jobs' = <<Requests!Job("done", r)>> \o Tail(jobs)
    BY <1>2 DEF Requests!Send, Requests!Then
  <2>2. /\ <<>> \in Seq(JobSet) /\ \A k \in 1 .. Len(<<>>) : <<>>[k].job # "succeed"
    BY EmptySeq
  <2>3. PICK done \in JobSet : done = Requests!Job("done", r) /\ done.job # "succeed"
    BY <1>3
  <2>4. <<done>> \in Seq(JobSet) /\ \A k \in 1 .. Len(<<done>>) : <<done>>[k].job # "succeed"
    BY <2>3
  <2> QED BY <2>1, <2>2, <2>3, <2>4
<1>5. \A q \in Ids : /\ completed'[q] # "true" => completed[q] # "true"
                     /\ completed[q] = "true" => completed'[q] = "true"
  BY <1>2 DEF Requests!Send, RequestsInv, TypeInv
<1>6. \A k \in 1 .. Len(jobs') : jobs'[k].job # "succeed" /\ jobs'[k].r \in Ids
  BY <1>1, <1>4, NoSuccess DEF OwnInv
<1>7. Later
  BY <1>1, <1>5 DEF Later
<1> QED BY <1>1, <1>5, <1>6, <1>7, NamesKept, OwnersKept, AnswersKept DEF OwnInv

LEMMA CompleteOwn ==
    ASSUME RequestsInv, OwnInv, Requests!Complete PROVE OwnInv'
<1>1. /\ jobs # <<>>
      /\ UNCHANGED <<requests, kind, completed, state, name, installed, oldCallbacks, nonce, container,
                     silent>>
  BY DEF Requests!Complete, Requests!Doing, Requests!options, Requests!jsonp
<1>2. PICK r \in Ids : r = Requests!R
  BY <1>1, HeadJob
<1>3. /\ Requests!User("complete", r) \in JobSet /\ Requests!User("complete", r).job = "user"
      /\ Requests!Job("release", r) \in JobSet /\ Requests!Job("release", r).job = "release"
  BY JobsTyped DEF Kinds, Hooks, Requests!Job, Requests!User
<1>4. PICK more \in Seq(JobSet) :
         /\ jobs' = more \o Tail(jobs)
         /\ \A k \in 1 .. Len(more) : more[k].job # "succeed"
  <2>1. PICK u \in JobSet, j \in JobSet :
           /\ u = Requests!User("complete", r) /\ j = Requests!Job("release", r)
           /\ u.job # "succeed" /\ j.job # "succeed"
    BY <1>3
  <2>2. \/ jobs' = (<<u>> \o <<j>>) \o Tail(jobs) \/ jobs' = (<<u>> \o <<>>) \o Tail(jobs)
    BY <1>2, <2>1 DEF Requests!Complete, Requests!Then
  <2>3. <<u>> \o <<j>> = <<u, j>> /\ <<u>> \o <<>> = <<u>>
    <3>1. <<u>> \in Seq(JobSet)
      OBVIOUS
    <3> QED BY <3>1, Two, ConcatEmptySeq
  <2>4. /\ <<u>> \in Seq(JobSet) /\ \A k \in 1 .. Len(<<u>>) : <<u>>[k].job # "succeed"
        /\ <<u, j>> \in Seq(JobSet) /\ \A k \in 1 .. Len(<<u, j>>) : <<u, j>>[k].job # "succeed"
    BY <2>1
  <2> QED BY <2>2, <2>3, <2>4
<1>5. \A q \in Ids : completed[q] = "true" => told'[q][1] = told[q][1]
  <2>1. PICK x : told' = [told EXCEPT ![r] = Append(@, x)] /\ x = <<"complete", 0>>
    BY <1>2 DEF Requests!Complete
  <2>2. /\ told \in [Ids -> Seq({"resolved", "rejected", "complete"} \X Nat)]
        /\ \A q \in Ids : completed[q] = "true" => told[q] # <<>>
    BY DEF RequestsInv, TypeInv, ToldInv
  <2>3. x \in {"resolved", "rejected", "complete"} \X Nat
    BY <2>1
  <2> HIDE DEF OwnInv
  <2>4. ASSUME completed[r] = "true" PROVE Append(told[r], x)[1] = told[r][1]
    <3>1. told[r] \in Seq({"resolved", "rejected", "complete"} \X Nat) /\ told[r] # <<>>
      BY <2>2, <2>4
    <3>2. 1 \in 1 .. Len(told[r])
      BY <3>1, EmptySeq, LenProperties
    <3> QED BY <2>3, <3>1, <3>2, AppendProperties
  <2> QED BY <2>1, <2>2, <2>4
<1>6. \A k \in 1 .. Len(jobs') : jobs'[k].job # "succeed" /\ jobs'[k].r \in Ids
  BY <1>1, <1>4, NoSuccess DEF OwnInv
<1>7. Later
  BY <1>1 DEF Later
<1> QED BY <1>1, <1>5, <1>6, <1>7, NamesKept, OwnersKept, AnswersKept DEF OwnInv

LEMMA ReleaseOwn ==
    ASSUME RequestsInv, OwnInv, Requests!Release PROVE OwnInv'
<1>1. /\ jobs # <<>>
      /\ UNCHANGED <<requests, kind, completed, state, told, name, installed, oldCallbacks, nonce,
                     container, silent>>
  BY DEF Requests!Release, Requests!Doing, Requests!options, Requests!jsonp
<1>2. PICK r \in Ids : r = Requests!R
  BY <1>1, HeadJob
<1>3. PICK more \in Seq(JobSet) :
         /\ jobs' = more \o Tail(jobs)
         /\ \A k \in 1 .. Len(more) : more[k].job # "succeed"
  <2>1. PICK u \in JobSet : u = Requests!User("ajaxStop", r) /\ u.job # "succeed"
    BY JobsTyped DEF Hooks, Requests!User
  <2>2. \/ jobs' = <<>> \o Tail(jobs) \/ jobs' = <<u>> \o Tail(jobs)
    BY <1>2, <2>1 DEF Requests!Release, Requests!Then
  <2>3. /\ <<>> \in Seq(JobSet) /\ \A k \in 1 .. Len(<<>>) : <<>>[k].job # "succeed"
    BY EmptySeq
  <2>4. <<u>> \in Seq(JobSet) /\ \A k \in 1 .. Len(<<u>>) : <<u>>[k].job # "succeed"
    BY <2>1
  <2> QED BY <2>2, <2>3, <2>4
<1>4. \A k \in 1 .. Len(jobs') : jobs'[k].job # "succeed" /\ jobs'[k].r \in Ids
  BY <1>1, <1>3, NoSuccess DEF OwnInv
<1>5. Later
  BY <1>1 DEF Later
<1> QED BY <1>1, <1>4, <1>5, NamesKept, OwnersKept, AnswersKept DEF OwnInv

LEMMA DoneOwn ==
    ASSUME RequestsInv, OwnInv, Requests!Done \/ Requests!Succeed PROVE OwnInv'
<1>1. /\ jobs # <<>> /\ Head(jobs).job \in {"done", "succeed"}
      /\ UNCHANGED <<requests, kind, global, active, lastGlobal, threw>>
  BY DEF Requests!Done, Requests!Succeed, Requests!Doing, Requests!options
<1>2. CASE completed[Requests!R] = "true"
  <2>1. /\ jobs' = <<>> \o Tail(jobs)
        /\ UNCHANGED <<completed, state, told, container, silent>>
        /\ UNCHANGED <<name, installed, oldCallbacks, nonce>>
    BY <1>2 DEF Requests!Done, Requests!Succeed, Requests!Then, Requests!jsonp
  <2>2. Head(jobs).job \notin Closing
    BY <1>1 DEF Closing
  <2>3. Quiet
    BY <1>1, <1>2, <2>1, <2>2, OverQuiet
  <2> QED BY <1>1, <2>1, <2>3, QuietOwn
<1>3. CASE completed[Requests!R] # "true"
  <2>1. PICK outcome \in {"resolved", "rejected"} :
           /\ Requests!Finish(Requests!R, outcome)
           /\ outcome = "resolved"
              => /\ Head(jobs).job = "succeed"
                 /\ kind[Requests!R] = "jsonp" => container[Requests!R] # 0
    BY <1>3 DEF Requests!Done, Requests!Succeed, Requests!Doing
  <2>2. NamesInv' /\ OwnersInv'
    BY <1>1, <1>3, <2>1, FinishNames, FinishOwners DEF OwnInv
  <2>3. AnswersInv'
    BY <1>1, <1>3, <2>1, FinishAnswers DEF OwnInv
  <2> QED BY <2>2, <2>3 DEF OwnInv
<1> QED BY <1>2, <1>3

LEMMA OwnInit == ASSUME Requests!Init PROVE OwnInv
<1>1. /\ requests = 0 /\ jobs = <<>> /\ oldCallbacks = <<>> /\ nonce = 1
      /\ name = [r \in Ids |-> 0] /\ installed = [n \in Ids |-> 0]
      /\ state = [r \in Ids |-> "pending"] /\ container = [r \in Ids |-> 0]
  BY DEF Requests!Init, Requests!Requests, Requests!Names, Ids
<1>2. \A r \in Ids : ~Waits(r)
  BY <1>1, MaxRequestsAssumption DEF Waits, Ids
<1>3. Len(<<>>) = 0 /\ <<>> \in Seq(Ids)
  BY EmptySeq
<1>4. NamesInv
  BY <1>1, <1>2, <1>3 DEF NamesInv
<1>5. AnswersInv
  BY <1>1, <1>3 DEF AnswersInv, OwnAnswer, Requests!OwnAnswer
<1>6. OwnersInv
  BY <1>1, MaxRequestsAssumption DEF OwnersInv, Ids
<1> QED BY <1>4, <1>5, <1>6 DEF OwnInv

LEMMA OwnNext ==
    ASSUME RequestsInv, OwnInv, [Requests!Next]_Requests!vars PROVE OwnInv'
<1>1. CASE UNCHANGED Requests!vars
  <2>1. UNCHANGED <<requests, kind, completed, state, told, name, installed, oldCallbacks, nonce,
                    container, silent, jobs>>
    BY <1>1 DEF Requests!vars
  <2> QED BY <2>1 DEF OwnInv, NamesInv, OwnersInv, AnswersInv, Waits, Answered, OwnAnswer,
                      Requests!OwnAnswer
<1>2. CASE Requests!Request
  BY <1>2, RequestNames, RequestOwners, RequestAnswers DEF OwnInv
<1>3. CASE Requests!Abort
  <2>1. CASE jobs = <<>>
    <3>1. PICK r \in 1 .. requests : TRUE
      BY <1>3 DEF Requests!Abort
    <3> QED BY <1>3, <2>1, <3>1, OutsideOwn
  <2> QED BY <1>3, <2>1, InsideOwn
<1>4. CASE \/ Requests!Return \/ Requests!ReturnFalse \/ Requests!Throw
           \/ Requests!Check \/ Requests!Transport \/ Requests!AbortTransport
  <2>1. jobs # <<>>
    BY <1>4 DEF Requests!Return, Requests!ReturnFalse, Requests!Throw, Requests!Check,
                Requests!Transport, Requests!AbortTransport, Requests!Doing
  <2> QED BY <1>4, <2>1, InsideOwn
<1>5. CASE Requests!Begin \/ Requests!Send \/ Requests!Complete \/ Requests!Release
  BY <1>5, BeginOwn, SendOwn, CompleteOwn, ReleaseOwn
<1>6. CASE Requests!Done \/ Requests!Succeed
  BY <1>6, DoneOwn
<1>7. ASSUME NEW r \in 1 .. requests,
             Requests!Answer(r) \/ Requests!Script(r) \/ Requests!Timeout(r)
      PROVE  OwnInv'
  <2>1. jobs = <<>>
    BY <1>7 DEF Requests!Answer, Requests!Script, Requests!Timeout
  <2> QED BY <1>7, <2>1, OutsideOwn
<1> QED BY <1>1, <1>2, <1>3, <1>4, <1>5, <1>6, <1>7 DEF Requests!Next, Requests!Engine

\* A jsonp request that succeeds has the answer to it, though the name of its
\* callback was another's whose script may come late.  If its own script did not
\* call the callback, it may have the answer to one that had the name before it.
THEOREM AnswersAreOwn == Requests!Spec => []OwnAnswer
<1>1. Requests!Init => RequestsInv /\ OwnInv
  BY RequestsInitInv, OwnInit
<1>2. RequestsInv /\ OwnInv /\ [Requests!Next]_Requests!vars => RequestsInv' /\ OwnInv'
  BY RequestsNextInv, OwnNext
<1>3. OwnInv => OwnAnswer
  BY DEF OwnInv, AnswersInv
<1> QED BY <1>1, <1>2, <1>3, PTL DEF Requests!Spec
===============================================================================
