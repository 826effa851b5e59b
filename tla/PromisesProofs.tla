--------------------------- MODULE PromisesProofs ---------------------------
(***************************************************************************)
(* then() and when keep the rules of Promises/A+, for any number of        *)
(* deferreds, promises and calls: what Then does implements PromisesAPlus. *)
(*                                                                         *)
(* What decides a promise is a chain of things that are still to be done:  *)
(* a reaction of the promise before it, a timer, a handler that runs, a    *)
(* synchronous call.  The invariant says that there is one such thing for  *)
(* a promise nobody has resolved yet, and that of all the others, which a  *)
(* promise that follows another may have left behind, only those that      *)
(* speak for the one it follows now are heard.                             *)
(*                                                                         *)
(* The second half is about the list under it: for any number of callbacks *)
(* and calls, CallbackList implements Subscribers.  Whoever is behind      *)
(* firingIndex is still to hear, and an add, a remove, an emptying or an   *)
(* exception in the middle of an execution keeps it so.                    *)
(***************************************************************************)
EXTENDS MCPromises, SequenceTheorems, FiniteSetTheorems, WellFoundedInduction, TLAPS

-----------------------------------------------------------------------------
(* Sequences of anything.                                                  *)

IsSeq(s) == s \in Seq({s[i] : i \in DOMAIN s})

\* What is a sequence of some elements is one of its own.
LEMMA SeqOwn ==
    ASSUME NEW S, NEW s \in Seq(S)
    PROVE  IsSeq(s)
<1>1. Len(s) \in Nat /\ DOMAIN s = 1 .. Len(s) /\ s \in [1 .. Len(s) -> S]
  BY LenProperties
<1> DEFINE T == {s[i] : i \in DOMAIN s}
<1>2. s \in [1 .. Len(s) -> T]
  BY <1>1
<1>3. Seq(T) = UNION {[1 .. n -> T] : n \in Nat}
  BY SeqDef
<1>4. s \in Seq(T)
  BY <1>1, <1>2, <1>3
<1> QED BY <1>4 DEF IsSeq

LEMMA SeqFacts ==
    ASSUME NEW s, IsSeq(s)
    PROVE  /\ Len(s) \in Nat /\ DOMAIN s = 1 .. Len(s)
           /\ s # <<>> => /\ 1 \in 1 .. Len(s) /\ Head(s) = s[1]
                          /\ IsSeq(Tail(s)) /\ Len(Tail(s)) = Len(s) - 1
                          /\ \A i \in 1 .. Len(s) - 1 : Tail(s)[i] = s[i + 1]
<1> DEFINE S == {s[i] : i \in DOMAIN s}
<1>1. s \in Seq(S)
  BY DEF IsSeq
<1>2. Len(s) \in Nat /\ DOMAIN s = 1 .. Len(s)
  BY <1>1, LenProperties
<1>3. ASSUME s # <<>>
      PROVE  /\ 1 \in 1 .. Len(s) /\ IsSeq(Tail(s)) /\ Len(Tail(s)) = Len(s) - 1
             /\ \A i \in 1 .. Len(s) - 1 : Tail(s)[i] = s[i + 1]
  <2>1. Len(s) \in Nat \ {0}
    BY <1>1, <1>3, EmptySeq
  <2>2. Tail(s) \in Seq(S) /\ Len(Tail(s)) = Len(s) - 1
        /\ \A i \in 1 .. Len(Tail(s)) : Tail(s)[i] = s[i + 1]
    BY <1>1, <1>3, HeadTailProperties
  <2>3. IsSeq(Tail(s))
    BY <2>2, SeqOwn
  <2> QED BY <2>1, <2>2, <2>3
<1>4. s # <<>> => Head(s) = s[1]
  BY <1>1
<1> QED BY <1>2, <1>3, <1>4

LEMMA SeqAppend ==
    ASSUME NEW s, IsSeq(s), NEW e
    PROVE  /\ IsSeq(Append(s, e)) /\ Len(Append(s, e)) = Len(s) + 1
           /\ \A i \in 1 .. Len(s) : Append(s, e)[i] = s[i]
           /\ Append(s, e)[Len(s) + 1] = e
<1> DEFINE S == {s[i] : i \in DOMAIN s} \cup {e}
<1>1. s \in Seq(S)
  BY SeqMonotonic DEF IsSeq
<1>2. /\ Append(s, e) \in Seq(S) /\ Len(Append(s, e)) = Len(s) + 1
      /\ \A i \in 1 .. Len(s) : Append(s, e)[i] = s[i]
      /\ Append(s, e)[Len(s) + 1] = e
  BY <1>1, AppendProperties
<1> QED BY <1>2, SeqOwn

LEMMA SeqConcat ==
    ASSUME NEW s, IsSeq(s), NEW t, IsSeq(t)
    PROVE  /\ IsSeq(s \o t) /\ Len(s \o t) = Len(s) + Len(t)
           /\ \A i \in 1 .. Len(s) : (s \o t)[i] = s[i]
           /\ \A i \in 1 .. Len(t) : (s \o t)[Len(s) + i] = t[i]
           /\ \A i \in 1 .. Len(s \o t) :
                 i \in 1 .. Len(s) \/ \E k \in 1 .. Len(t) : i = Len(s) + k
<1> DEFINE S == {s[i] : i \in DOMAIN s} \cup {t[i] : i \in DOMAIN t}
<1>1. s \in Seq(S) /\ t \in Seq(S)
  BY SeqMonotonic DEF IsSeq
<1>0. Len(s) \in Nat /\ Len(t) \in Nat
  BY SeqFacts
<1>2. /\ s \o t \in Seq(S) /\ Len(s \o t) = Len(s) + Len(t)
      /\ \A i \in 1 .. Len(s) + Len(t) : (s \o t)[i] = IF i <= Len(s) THEN s[i] ELSE t[i - Len(s)]
  BY <1>1, ConcatProperties
<1>3. \A i \in 1 .. Len(s) : (s \o t)[i] = s[i]
  BY <1>0, <1>2
<1>4. ASSUME NEW i \in 1 .. Len(t) PROVE (s \o t)[Len(s) + i] = t[i]
  <2>1. Len(s) + i \in 1 .. Len(s) + Len(t) /\ ~(Len(s) + i <= Len(s)) /\ Len(s) + i - Len(s) = i
    BY <1>0
  <2> QED BY <2>1, <1>2
<1>5. ASSUME NEW i \in 1 .. Len(s \o t), i \notin 1 .. Len(s)
      PROVE  \E k \in 1 .. Len(t) : i = Len(s) + k
  <2>1. i - Len(s) \in 1 .. Len(t) /\ i = Len(s) + (i - Len(s))
    BY <1>0, <1>2, <1>5
  <2> QED BY <2>1
<1> QED BY <1>2, <1>3, <1>4, <1>5, SeqOwn

LEMMA SeqShort ==
    /\ IsSeq(<<>>) /\ Len(<<>>) = 0
    /\ \A e : IsSeq(<<e>>) /\ Len(<<e>>) = 1 /\ <<e>>[1] = e /\ <<e>> # <<>>
<1>1. <<>> \in Seq({}) /\ Len(<<>>) = 0
  BY EmptySeq
<1>2. ASSUME NEW e PROVE IsSeq(<<e>>) /\ Len(<<e>>) = 1 /\ <<e>>[1] = e /\ <<e>> # <<>>
  <2>1. <<e>> \in Seq({e}) /\ Len(<<e>>) = 1 /\ <<e>>[1] = e
    OBVIOUS
  <2> QED BY <2>1, SeqOwn, <1>1
<1> QED BY <1>1, <1>2, SeqOwn

\* A function of 1 to n.
LEMMA SeqFunction ==
    ASSUME NEW n \in Nat, NEW h, h = [i \in 1 .. n |-> h[i]]
    PROVE  IsSeq(h) /\ Len(h) = n
<1> DEFINE T == {h[i] : i \in 1 .. n}
<1>1. h \in [1 .. n -> T]
  OBVIOUS
<1>2. Seq(T) = UNION {[1 .. k -> T] : k \in Nat}
  BY SeqDef
<1>3. h \in Seq(T)
  BY <1>1, <1>2
<1>4. Len(h) \in Nat /\ DOMAIN h = 1 .. Len(h) /\ DOMAIN h = 1 .. n
  BY <1>3, <1>1, LenProperties
<1>5. Len(h) = n
  BY <1>4
<1> QED BY <1>3, <1>5, SeqOwn

-----------------------------------------------------------------------------
(* What the state says of promises.                                        *)

Ps == Many!Promises
Settled(p) == state[p] # "pending"
Follows(c) == following[c] # <<>> /\ following[c][1] = "promise"
Valued(v) == v[1] = "promise" => v[2] \in 1 .. count /\ v = Many!PromiseOf(v[2])

PromiseTypes ==
    /\ count \in Roots .. MaxPromises
    /\ state \in [Ps -> {"pending", "resolved", "rejected"}]
    /\ maxDepth \in [Ps -> Nat]
    /\ parent \in [Ps -> 0 .. MaxPromises]
    /\ DOMAIN val = Ps /\ DOMAIN following = Ps
    /\ DOMAIN reactions = Ps /\ DOMAIN listeners = Ps
    /\ \A d \in Ps : IsSeq(reactions[d]) /\ IsSeq(listeners[d])

\* Only a child, whose parent has settled, has a depth; only with a depth it
\* follows something.  A thenable has the word until the child goes deeper.
PromiseOK(c) ==
    /\ c > count => ~Settled(c) /\ maxDepth[c] = 0 /\ parent[c] = 0
    /\ parent[c] # 0 => c > Roots /\ parent[c] \in 1 .. count
    /\ maxDepth[c] # 0 => parent[c] # 0 /\ Settled(parent[c])
    /\ following[c] # <<>> => maxDepth[c] # 0
    /\ Follows(c) => following[c][2] \in Ps
    /\ Settled(c) => Valued(val[c])
    /\ c \in given =>
          /\ maxDepth[c] # 0
          /\ ~Settled(c) /\ maxDepth[c] = 1 => following[c] = <<"thenable", 1>>
PromisesInv == PromiseTypes /\ given \subseteq Ps /\ \A c \in Ps : PromiseOK(c)

\* A child that nothing has resolved yet.
Fresh(c) == c \in Ps /\ parent[c] # 0 /\ ~Settled(c) /\ maxDepth[c] = 0

\* If c follows a promise, this is the outcome of that one.
Told(c, outcome, v) ==
    ~Settled(c) /\ Follows(c) => state[following[c][2]] = outcome /\ val[following[c][2]] = v

-----------------------------------------------------------------------------
(* What is still to be done for them.                                      *)

\* What is registered on d: the handlers of a child, or two of the functions
\* with which d is to resolve c, those of the last depth if c follows d.
ChildReaction(d, r) ==
    /\ \/ r[2] = <<"user">> /\ r[3] = <<"user">>
       \/ r[2] = <<"identity">> /\ r[3] = <<"thrower">>
    /\ r[1] \in Ps /\ parent[r[1]] = d
    /\ ~Settled(d) => Fresh(r[1])
FollowReaction(d, r) ==
    /\ r[1] = 0
    /\ \E c \in Ps : \E k \in 1 .. maxDepth[c] :
        /\ r[2] = <<"resolve", c, k>> /\ r[3] = <<"reject", c, k>>
        /\ ~Settled(c) /\ k = maxDepth[c] => following[c] = Many!PromiseOf(d)
ReactionOK(d, r) == ChildReaction(d, r) \/ FollowReaction(d, r)
Distinct(s) == \A i, j \in 1 .. Len(s) : s[i][1] = s[j][1] /\ s[i][1] # 0 => i = j
ReactionsInv ==
    \A d \in Ps : /\ \A i \in 1 .. Len(reactions[d]) : ReactionOK(d, reactions[d][i])
                  /\ Distinct(reactions[d])

ChildTimer(t) ==
    /\ t.handler \in {<<"user">>, <<"identity">>, <<"thrower">>}
    /\ Fresh(t.child) /\ Settled(parent[t.child])
FollowTimer(t) ==
    /\ t.child = 0
    /\ \E c \in Ps : \E k \in 1 .. maxDepth[c] :
        \/ t.handler = <<"resolve", c, k>> /\ (k = maxDepth[c] => Told(c, "resolved", t.arg))
        \/ t.handler = <<"reject", c, k>> /\ (k = maxDepth[c] => Told(c, "rejected", t.arg))
TimerOK(t) == Valued(t.arg) /\ (ChildTimer(t) \/ FollowTimer(t))
TimersInv ==
    /\ IsSeq(timers)
    /\ \A i \in 1 .. Len(timers) : TimerOK(timers[i])
    /\ \A i, j \in 1 .. Len(timers) :
          timers[i].child = timers[j].child /\ timers[i].child # 0 => i = j

NotTimed(c) == \A i \in 1 .. Len(timers) : timers[i].child # c
Handles(c) == current # Idle /\ current.code = "handler" /\ current.of = c
CurrentInv ==
    current # Idle =>
       \/ /\ current.code = "handler" /\ Fresh(current.of)
          /\ Settled(parent[current.of]) /\ NotTimed(current.of)
       \/ current.code = "thenable" /\ current.of \in given /\ current.depth = 1

\* The turn of the child has come, and its handler, if it has one, has returned.
Begun(c) == Settled(parent[c]) /\ NotTimed(c)
Spent(c) == Begun(c) /\ ~Handles(c)

\* A child settles as the promise that it follows, but not with itself.
SettleOK(c, outcome, v) ==
    ~Settled(c) /\ Follows(c) =>
        \/ /\ state[following[c][2]] = outcome /\ val[following[c][2]] = v
           /\ outcome = "resolved" => v[1] # "promise"
        \/ /\ outcome = "rejected" /\ state[following[c][2]] = "resolved"
           /\ val[following[c][2]] = Many!PromiseOf(c)

\* A call for a deferred of the user or one of when().
FreeJob(j) ==
    /\ j.target \in 1 .. count /\ parent[j.target] = 0
    /\ Valued(j.arg)
    /\ j.job = "update" \/ (j.job = "settle" /\ j.outcome \in {"resolved", "rejected"})

\* A call for a child is alone.
OutcomeOf(j) == IF j.job = "resolve" THEN "resolved" ELSE "rejected"
ChildJob(j) ==
    /\ j.target \in Ps /\ parent[j.target] # 0 /\ Spent(j.target)
    /\ Valued(j.arg)
    /\ \/ j.job = "settle" /\ j.outcome \in {"resolved", "rejected"}
          /\ SettleOK(j.target, j.outcome, j.arg)
       \/ j.job = "return" /\ Told(j.target, "resolved", j.arg)
       \/ /\ j.job \in {"resolve", "reject"} /\ maxDepth[j.target] # 0 /\ j.depth \in Nat
          /\ j.depth >= maxDepth[j.target] => Told(j.target, OutcomeOf(j), j.arg)
AllFree(s) == \A i \in 1 .. Len(s) : FreeJob(s[i])
JobsInv ==
    /\ IsSeq(jobs)
    /\ AllFree(jobs) \/ (Len(jobs) = 1 /\ ChildJob(jobs[1]))

ListenerOK(l) ==
    \E m \in 1 .. count, k \in {1, 2} :
        l = <<Many!UpdateJob(m, k), Many!SettleJob(m, "rejected", <<>>)>> /\ parent[m] = 0
ListenersInv == \A d \in Ps : \A i \in 1 .. Len(listeners[d]) : ListenerOK(listeners[d][i])

PendingInv == ReactionsInv /\ TimersInv /\ CurrentInv /\ JobsInv /\ ListenersInv
ThenInv == PromisesInv /\ PendingInv

-----------------------------------------------------------------------------
(* What a step leaves as it is.                                            *)

\* Promises only move on: what has settled stays, and what a promise follows
\* changes only with its depth.
Onward ==
    /\ count <= count'
    /\ \A p \in Ps : Settled(p) => state'[p] = state[p] /\ val'[p] = val[p]
    /\ \A c \in 1 .. count : parent'[c] = parent[c]
    /\ \A c \in Ps : maxDepth[c] <= maxDepth'[c]
    /\ \A c \in Ps : ~Settled(c)' /\ maxDepth'[c] = maxDepth[c] => following'[c] = following[c]
    /\ \A c \in Ps : Fresh(c) => Fresh(c)' \/ Begun(c)
Moves == PromisesInv /\ PromiseTypes' /\ Onward

LEMMA Parented ==
    ASSUME PromisesInv, NEW c \in Ps, parent[c] # 0
    PROVE  c \in 1 .. count /\ parent[c] \in 1 .. count /\ parent[c] \in Ps
<1>1. PromiseOK(c) /\ count \in Roots .. MaxPromises /\ Roots \in Nat /\ MaxPromises \in Nat
  BY RootsAssumption DEF PromisesInv, PromiseTypes
<1>2. c \in 1 .. count
  BY <1>1 DEF PromiseOK, Ps, Many!Promises
<1>3. parent[c] \in 1 .. count
  BY <1>1 DEF PromiseOK
<1> QED BY <1>1, <1>2, <1>3 DEF Ps, Many!Promises

LEMMA Counts ==
    ASSUME PromiseTypes
    PROVE  /\ count \in Nat /\ count <= MaxPromises /\ Roots <= count /\ 1 .. count \subseteq Ps
           /\ Roots \in Nat /\ MaxPromises \in Nat /\ Ps = 1 .. MaxPromises
BY RootsAssumption DEF PromiseTypes, Ps, Many!Promises

LEMMA ValuedOnward ==
    ASSUME Moves, NEW v, Valued(v)
    PROVE  Valued(v)'
<1>1. count \in Nat /\ count <= count' /\ count' \in Nat
  BY RootsAssumption DEF Moves, Onward, PromisesInv, PromiseTypes
<1> QED BY <1>1 DEF Valued

LEMMA SettledOnward ==
    ASSUME Moves, NEW p \in Ps, Settled(p)
    PROVE  Settled(p)' /\ state'[p] = state[p] /\ val'[p] = val[p]
BY DEF Moves, Onward, Settled

LEMMA ToldOnward ==
    ASSUME Moves, NEW c \in Ps, maxDepth'[c] = maxDepth[c],
           NEW outcome \in {"resolved", "rejected"}, NEW v, Told(c, outcome, v)
    PROVE  Told(c, outcome, v)'
<1> SUFFICES ASSUME ~Settled(c)', Follows(c)'
             PROVE  state'[following'[c][2]] = outcome /\ val'[following'[c][2]] = v
  BY DEF Told
<1>1. following'[c] = following[c] /\ Follows(c)
  BY DEF Moves, Onward, Follows
<1>2. ~Settled(c)
  BY SettledOnward
<1>3. following[c][2] \in Ps
  BY <1>1 DEF Moves, PromisesInv, PromiseOK
<1>4. state[following[c][2]] = outcome /\ val[following[c][2]] = v
  BY <1>1, <1>2 DEF Told
<1>5. Settled(following[c][2])
  BY <1>4 DEF Settled
<1> QED BY <1>1, <1>3, <1>4, <1>5, SettledOnward

\* The depth of a child that is not passed by.
LEMMA DepthOnward ==
    ASSUME Moves, NEW c \in Ps, NEW k \in 1 .. maxDepth[c]
    PROVE  /\ k \in 1 .. maxDepth'[c]
           /\ k = maxDepth'[c] => k = maxDepth[c] /\ maxDepth'[c] = maxDepth[c]
<1>1. maxDepth[c] \in Nat /\ maxDepth'[c] \in Nat /\ maxDepth[c] <= maxDepth'[c]
  BY DEF Moves, Onward, PromisesInv, PromiseTypes
<1> QED BY <1>1

LEMMA FreshOnward ==
    ASSUME Moves, NEW c, Fresh(c), ~Begun(c)
    PROVE  Fresh(c)'
BY DEF Moves, Onward, Fresh

LEMMA ReactionOnward ==
    ASSUME Moves, NEW d \in Ps, NEW r, ReactionOK(d, r)
    PROVE  ReactionOK(d, r)'
<1>1. CASE ChildReaction(d, r)
  <2>1. r[1] \in Ps /\ parent[r[1]] = d /\ d # 0
    BY <1>1, Counts DEF ChildReaction, Moves, PromisesInv
  <2>2. parent'[r[1]] = d
    BY <2>1, Parented DEF Moves, Onward
  <2>3. ASSUME ~Settled(d)' PROVE Fresh(r[1])'
    <3>1. ~Settled(d)
      BY <2>3, SettledOnward
    <3>2. Fresh(r[1]) /\ ~Begun(r[1])
      BY <1>1, <2>1, <3>1 DEF ChildReaction, Begun
    <3> QED BY <3>2, FreshOnward
  <2>4. ChildReaction(d, r)'
    BY <1>1, <2>1, <2>2, <2>3 DEF ChildReaction
  <2> QED BY <2>4 DEF ReactionOK
<1>2. CASE FollowReaction(d, r)
  <2>1. PICK c \in Ps : \E k \in 1 .. maxDepth[c] :
          /\ r[2] = <<"resolve", c, k>> /\ r[3] = <<"reject", c, k>>
          /\ ~Settled(c) /\ k = maxDepth[c] => following[c] = Many!PromiseOf(d)
    BY <1>2 DEF FollowReaction
  <2>2. PICK k \in 1 .. maxDepth[c] :
          /\ r[2] = <<"resolve", c, k>> /\ r[3] = <<"reject", c, k>>
          /\ ~Settled(c) /\ k = maxDepth[c] => following[c] = Many!PromiseOf(d)
    BY <2>1
  <2>3. /\ k \in 1 .. maxDepth'[c]
        /\ k = maxDepth'[c] => k = maxDepth[c] /\ maxDepth'[c] = maxDepth[c]
    BY DepthOnward
  <2>4. ASSUME ~Settled(c)', k = maxDepth'[c] PROVE following'[c] = Many!PromiseOf(d)
    <3>1. ~Settled(c) /\ k = maxDepth[c] /\ following'[c] = following[c]
      BY <2>3, <2>4, SettledOnward DEF Moves, Onward
    <3> QED BY <3>1, <2>2
  <2>5. FollowReaction(d, r)'
    BY <1>2, <2>2, <2>3, <2>4 DEF FollowReaction, Many!PromiseOf
  <2> QED BY <2>5 DEF ReactionOK
<1> QED BY <1>1, <1>2 DEF ReactionOK

LEMMA TimerOnward ==
    ASSUME Moves, NEW t, TimerOK(t), t.child # 0 => ~NotTimed(t.child)
    PROVE  TimerOK(t)'
<1>0. Valued(t.arg)'
  BY ValuedOnward DEF TimerOK
<1>1. CASE ChildTimer(t)
  <2>1. Fresh(t.child) /\ t.child \in Ps /\ parent[t.child] # 0 /\ t.child # 0
    BY <1>1, Counts DEF ChildTimer, Fresh, Moves, PromisesInv
  <2>2. Fresh(t.child)'
    BY <2>1, FreshOnward DEF Begun
  <2>3. parent'[t.child] = parent[t.child] /\ parent[t.child] \in Ps
    BY <2>1, Parented DEF Moves, Onward
  <2>4. Settled(parent[t.child])
    BY <1>1 DEF ChildTimer
  <2>5. state'[parent[t.child]] = state[parent[t.child]]
    BY <2>3, <2>4 DEF Moves, Onward
  <2>6. Settled(parent[t.child])'
    BY <2>3, <2>4, <2>5 DEF Settled
  <2>7. ChildTimer(t)'
    BY <1>1, <2>2, <2>6 DEF ChildTimer
  <2> QED BY <1>0, <2>7 DEF TimerOK
<1>2. CASE FollowTimer(t)
  <2>1. PICK c \in Ps : \E k \in 1 .. maxDepth[c] :
          \/ t.handler = <<"resolve", c, k>> /\ (k = maxDepth[c] => Told(c, "resolved", t.arg))
          \/ t.handler = <<"reject", c, k>> /\ (k = maxDepth[c] => Told(c, "rejected", t.arg))
    BY <1>2 DEF FollowTimer
  <2>2. PICK k \in 1 .. maxDepth[c] :
          \/ t.handler = <<"resolve", c, k>> /\ (k = maxDepth[c] => Told(c, "resolved", t.arg))
          \/ t.handler = <<"reject", c, k>> /\ (k = maxDepth[c] => Told(c, "rejected", t.arg))
    BY <2>1
  <2>3. /\ k \in 1 .. maxDepth'[c]
        /\ k = maxDepth'[c] => k = maxDepth[c] /\ maxDepth'[c] = maxDepth[c]
    BY DepthOnward
  <2>4. ASSUME NEW o \in {"resolved", "rejected"}, k = maxDepth[c] => Told(c, o, t.arg)
        PROVE  k = maxDepth'[c] => Told(c, o, t.arg)'
    BY <2>3, <2>4, ToldOnward
  <2>5. \/ t.handler = <<"resolve", c, k>> /\ (k = maxDepth'[c] => Told(c, "resolved", t.arg)')
        \/ t.handler = <<"reject", c, k>> /\ (k = maxDepth'[c] => Told(c, "rejected", t.arg)')
    BY <2>2, <2>4
  <2>6. FollowTimer(t)'
    BY <1>2, <2>3, <2>5 DEF FollowTimer
  <2> QED BY <1>0, <2>6 DEF TimerOK
<1> QED BY <1>1, <1>2 DEF TimerOK

LEMMA FreeOnward ==
    ASSUME Moves, NEW j, FreeJob(j)
    PROVE  FreeJob(j)'
<1>1. Valued(j.arg)' /\ j.target \in 1 .. count'
  <2>1. count \in Nat /\ count' \in Nat /\ count <= count'
    BY Counts, RootsAssumption DEF Moves, PromisesInv, Onward, PromiseTypes
  <2> QED BY <2>1, ValuedOnward DEF FreeJob
<1>2. parent'[j.target] = 0
  BY DEF FreeJob, Moves, Onward
<1> QED BY <1>1, <1>2 DEF FreeJob

LEMMA ListenersOnward ==
    ASSUME Moves, NEW l, ListenerOK(l)
    PROVE  ListenerOK(l)'
<1>1. PICK m \in 1 .. count, k \in {1, 2} :
         l = <<Many!UpdateJob(m, k), Many!SettleJob(m, "rejected", <<>>)>> /\ parent[m] = 0
  BY DEF ListenerOK
<1>2. m \in 1 .. count' /\ parent'[m] = 0
  <2>1. count \in Nat /\ count' \in Nat /\ count <= count'
    BY Counts, RootsAssumption DEF Moves, PromisesInv, Onward, PromiseTypes
  <2> QED BY <2>1, <1>1 DEF Moves, Onward
<1> QED BY <1>1, <1>2 DEF ListenerOK, Many!UpdateJob, Many!SettleJob

-----------------------------------------------------------------------------
(* Steps that leave the promises alone.                                    *)

Quiet == UNCHANGED <<count, state, val, maxDepth, parent, following, given>>

LEMMA QuietMoves ==
    ASSUME PromisesInv, Quiet, PromiseTypes'
    PROVE  Moves /\ PromisesInv'
<1>1. \A c : Fresh(c) => Fresh(c)'
  BY DEF Fresh, Settled, Quiet
<1>2. Onward
  BY <1>1, RootsAssumption DEF Onward, Settled, Quiet, PromisesInv, PromiseTypes
<1>3. ASSUME NEW c \in Ps PROVE PromiseOK(c)'
  <2>1. PromiseOK(c)
    BY DEF PromisesInv
  <2> QED BY <2>1 DEF Quiet, PromiseOK, Settled, Follows, Valued
<1>4. given' \subseteq Ps
  BY DEF PromisesInv, Quiet
<1> QED BY <1>2, <1>3, <1>4 DEF Moves, PromisesInv

LEMMA QuietSame ==
    ASSUME Quiet
    PROVE  /\ \A c : (Fresh(c)' <=> Fresh(c)) /\ (Settled(c)' <=> Settled(c))
           /\ \A v : Valued(v)' <=> Valued(v)
           /\ \A c, o, v : Told(c, o, v)' <=> Told(c, o, v)
           /\ \A c, o, v : SettleOK(c, o, v)' <=> SettleOK(c, o, v)
           /\ \A d, r : ReactionOK(d, r)' <=> ReactionOK(d, r)
           /\ \A t : TimerOK(t)' <=> TimerOK(t)
           /\ \A j : FreeJob(j)' <=> FreeJob(j)
<1> USE DEF Quiet
<1>1. \A c : (Fresh(c)' <=> Fresh(c)) /\ (Settled(c)' <=> Settled(c))
  BY DEF Fresh, Settled
<1>2. \A v : Valued(v)' <=> Valued(v)
  BY DEF Valued
<1>3. \A c, o, v : Told(c, o, v)' <=> Told(c, o, v)
  BY DEF Told, Settled, Follows
<1>4. \A c, o, v : SettleOK(c, o, v)' <=> SettleOK(c, o, v)
  BY DEF SettleOK, Settled, Follows
<1>5. \A d, r : ReactionOK(d, r)' <=> ReactionOK(d, r)
  BY DEF ReactionOK, ChildReaction, FollowReaction, Fresh, Settled
<1>6. \A t : TimerOK(t)' <=> TimerOK(t)
  BY DEF TimerOK, ChildTimer, FollowTimer, Fresh, Settled, Told, Follows, Valued
<1>7. \A j : FreeJob(j)' <=> FreeJob(j)
  BY DEF FreeJob, Valued
<1> QED BY <1>1, <1>2, <1>3, <1>4, <1>5, <1>6, <1>7

Registered == UNCHANGED <<reactions, listeners>>

\* With nothing registered there are the timers, the user code and the calls
\* left to look at.
LEMMA QuietKeeps ==
    ASSUME ThenInv, Quiet, Registered
    PROVE  PromisesInv' /\ ReactionsInv' /\ ListenersInv' /\ Moves
<1>1. PromiseTypes'
  BY DEF ThenInv, PromisesInv, PromiseTypes, Quiet, Registered
<1>2. PromisesInv' /\ Moves
  BY <1>1, QuietMoves DEF ThenInv
<1>3. ReactionsInv'
  BY QuietSame DEF ThenInv, PendingInv, ReactionsInv, Registered
<1>4. ListenersInv'
  BY DEF ThenInv, PendingInv, ListenersInv, ListenerOK, Registered, Quiet, Many!UpdateJob, Many!SettleJob
<1> QED BY <1>2, <1>3, <1>4

\* When the timers stay.
LEMMA QuietTimers ==
    ASSUME ThenInv, Quiet, UNCHANGED timers
    PROVE  TimersInv' /\ \A c : NotTimed(c)' <=> NotTimed(c)
<1>1. \A t : TimerOK(t)' <=> TimerOK(t)
  BY QuietSame
<1>2. TimersInv'
  BY <1>1 DEF ThenInv, PendingInv, TimersInv
<1>3. \A c : NotTimed(c)' <=> NotTimed(c)
  BY DEF NotTimed
<1> QED BY <1>2, <1>3

\* And the user code that runs.
LEMMA QuietCurrent ==
    ASSUME ThenInv, Quiet, UNCHANGED timers, current' = current \/ current' = Idle
    PROVE  /\ CurrentInv'
           /\ \A c : Spent(c) => Spent(c)'
<1>1. \A c : (Fresh(c)' <=> Fresh(c)) /\ (Settled(c)' <=> Settled(c)) /\ (NotTimed(c)' <=> NotTimed(c))
  BY QuietSame, QuietTimers
<1>2. parent' = parent /\ given' = given
  BY DEF Quiet
<1>3. CurrentInv'
  BY <1>1, <1>2 DEF ThenInv, PendingInv, CurrentInv, Settled
<1>4. \A c : Spent(c) => Spent(c)'
  BY <1>1, <1>2 DEF Spent, Begun, Handles, Settled
<1> QED BY <1>3, <1>4

-----------------------------------------------------------------------------
(* Calls.                                                                  *)

\* The first call is for a child and alone, or all are free.
LEMMA FirstJob ==
    ASSUME JobsInv, jobs # <<>>
    PROVE  /\ IsSeq(Tail(jobs)) /\ Head(jobs) = jobs[1]
           /\ \/ FreeJob(Head(jobs)) /\ AllFree(Tail(jobs))
              \/ ChildJob(Head(jobs)) /\ Len(Tail(jobs)) = 0
           /\ AllFree(Tail(jobs))
<1>1. /\ Len(jobs) \in Nat /\ 1 \in 1 .. Len(jobs) /\ Head(jobs) = jobs[1]
      /\ IsSeq(Tail(jobs)) /\ Len(Tail(jobs)) = Len(jobs) - 1
      /\ \A i \in 1 .. Len(jobs) - 1 : Tail(jobs)[i] = jobs[i + 1]
  BY SeqFacts DEF JobsInv
<1>2. CASE AllFree(jobs)
  <2>1. ASSUME NEW i \in 1 .. Len(Tail(jobs)) PROVE FreeJob(Tail(jobs)[i])
    <3>1. i \in 1 .. Len(jobs) - 1 /\ i + 1 \in 1 .. Len(jobs)
      BY <1>1
    <3> QED BY <1>1, <1>2, <3>1 DEF AllFree
  <2>2. AllFree(Tail(jobs)) /\ FreeJob(Head(jobs))
    BY <1>1, <1>2, <2>1 DEF AllFree
  <2> QED BY <1>1, <2>2
<1>3. CASE Len(jobs) = 1 /\ ChildJob(jobs[1])
  <2>1. Len(Tail(jobs)) = 0
    BY <1>1, <1>3
  <2>2. AllFree(Tail(jobs))
    <3>1. \A n : n = 0 => 1 .. n = {}
      OBVIOUS
    <3> QED BY <2>1, <3>1, Zenon DEF AllFree
  <2>3. Head(jobs) = jobs[1]
    BY <1>1
  <2>4. ChildJob(Head(jobs))
    BY <1>3, <2>3, Zenon
  <2> QED BY <1>1, <2>1, <2>2, <2>4
<1> QED BY <1>2, <1>3 DEF JobsInv

LEMMA FreeStays ==
    ASSUME Moves, NEW s, AllFree(s)
    PROVE  AllFree(s)'
BY FreeOnward DEF AllFree

\* What is left of the calls after the first one.
LEMMA RestJobs ==
    ASSUME JobsInv, Moves, jobs # <<>>, jobs' = Tail(jobs)
    PROVE  JobsInv'
<1>1. PICK s : s = Tail(jobs)
  OBVIOUS
<1>2. IsSeq(s) /\ AllFree(s)
  BY <1>1, FirstJob
<1>3. AllFree(s)'
  BY <1>2, FreeStays
<1>4. jobs' = s
  BY <1>1
<1> QED BY <1>2, <1>3, <1>4 DEF JobsInv, AllFree

\* One call and nothing behind it.
LEMMA OneJob ==
    ASSUME NEW j, jobs' = <<j>>, FreeJob(j)' \/ ChildJob(j)'
    PROVE  JobsInv'
<1>1. IsSeq(jobs') /\ Len(jobs') = 1 /\ jobs'[1] = j
  BY SeqShort
<1> QED BY <1>1 DEF JobsInv, AllFree

LEMMA NoJob ==
    ASSUME jobs' = <<>>
    PROVE  JobsInv'
<1>1. IsSeq(jobs') /\ Len(jobs') = 0
  BY SeqShort
<1> QED BY <1>1 DEF JobsInv, AllFree

\* A call takes the place of the first one, for the same target.
LEMMA NextJob ==
    ASSUME JobsInv, Moves, jobs # <<>>, NEW j, jobs' = <<j>> \o Tail(jobs),
           FreeJob(Head(jobs)) => FreeJob(j)',
           ChildJob(Head(jobs)) => ChildJob(j)'
    PROVE  JobsInv'
<1>1. PICK s : s = Tail(jobs)
  OBVIOUS
<1>2. /\ IsSeq(s) /\ AllFree(s)
      /\ FreeJob(Head(jobs)) \/ (ChildJob(Head(jobs)) /\ Len(s) = 0)
  BY <1>1, FirstJob
<1>3. AllFree(s)'
  BY <1>2, FreeStays
<1>4. /\ IsSeq(jobs') /\ Len(jobs') = 1 + Len(s) /\ jobs'[1] = j
      /\ \A i \in 1 .. Len(s) : jobs'[1 + i] = s[i]
      /\ \A i \in 1 .. Len(jobs') : i = 1 \/ \E k \in 1 .. Len(s) : i = 1 + k
  <2>1. IsSeq(<<j>>) /\ Len(<<j>>) = 1 /\ <<j>>[1] = j
    BY SeqShort
  <2>2. jobs' = <<j>> \o s
    BY <1>1
  <2>3. 1 \in 1 .. 1 /\ 1 .. 1 = {1}
    OBVIOUS
  <2>4. /\ IsSeq(<<j>> \o s) /\ Len(<<j>> \o s) = 1 + Len(s) /\ (<<j>> \o s)[1] = j
        /\ \A i \in 1 .. Len(s) : (<<j>> \o s)[1 + i] = s[i]
        /\ \A i \in 1 .. Len(<<j>> \o s) : i \in 1 .. 1 \/ \E k \in 1 .. Len(s) : i = 1 + k
    BY <1>2, <2>1, <2>3, SeqConcat
  <2> QED BY <2>2, <2>3, <2>4
<1>5. CASE FreeJob(Head(jobs))
  <2>1. PICK q : q = jobs'
    OBVIOUS
  <2>2. ASSUME NEW i \in 1 .. Len(q) PROVE FreeJob(q[i])'
    <3>1. CASE i = 1
      BY <1>4, <1>5, <2>1, <3>1
    <3>2. CASE \E k \in 1 .. Len(s) : i = 1 + k
      BY <1>3, <1>4, <2>1, <3>2 DEF AllFree
    <3> QED BY <1>4, <2>1, <2>2, <3>1, <3>2
  <2> QED BY <1>4, <2>1, <2>2 DEF JobsInv, AllFree
<1>6. CASE ChildJob(Head(jobs)) /\ Len(s) = 0
  BY <1>4, <1>6 DEF JobsInv
<1> QED BY <1>2, <1>5, <1>6

-----------------------------------------------------------------------------
(* The quiet actions, one after the other.                                 *)

\* What the quiet calls have in common.
QuietCall == Quiet /\ Registered /\ UNCHANGED <<timers, current>>

LEMMA QuietCallKeeps ==
    ASSUME ThenInv, QuietCall, JobsInv'
    PROVE  ThenInv'
<1>1. Quiet /\ Registered /\ timers' = timers /\ current' = current
  BY DEF QuietCall
<1> QED BY <1>1, QuietKeeps, QuietTimers, QuietCurrent DEF ThenInv, PendingInv

\* The first call for a child changes into another one for the same child.
LEMMA QuietNext ==
    ASSUME ThenInv, QuietCall, jobs # <<>>, NEW j, jobs' = <<j>> \o Tail(jobs),
           ~FreeJob(Head(jobs)), j.target = Head(jobs).target, Valued(j.arg),
           \/ j.job = "return" /\ Told(j.target, "resolved", j.arg)
           \/ j.job = "settle" /\ j.outcome \in {"resolved", "rejected"}
                  /\ SettleOK(j.target, j.outcome, j.arg)
    PROVE  ThenInv'
<1>1. Moves /\ JobsInv
  BY QuietKeeps DEF QuietCall, ThenInv, PendingInv
<1>2. ChildJob(Head(jobs))
  BY <1>1, FirstJob
<1>3. Spent(j.target)' /\ Valued(j.arg)' /\ parent'[j.target] # 0 /\ j.target \in Ps
  <2>1. Spent(j.target) /\ parent[j.target] # 0 /\ j.target \in Ps
    BY <1>2 DEF ChildJob
  <2>2. Spent(j.target)'
    BY <2>1, QuietCurrent DEF QuietCall
  <2>3. parent' = parent
    BY DEF QuietCall, Quiet
  <2> QED BY <1>1, <2>1, <2>2, <2>3, ValuedOnward
<1>4. \/ j.job = "return" /\ Told(j.target, "resolved", j.arg)'
      \/ j.job = "settle" /\ j.outcome \in {"resolved", "rejected"}
             /\ SettleOK(j.target, j.outcome, j.arg)'
  BY QuietSame DEF QuietCall
<1>5. ChildJob(j)'
  BY <1>3, <1>4 DEF ChildJob
<1>6. JobsInv'
  BY <1>1, <1>5, NextJob
<1> QED BY <1>6, QuietCallKeeps

LEMMA ResolveKeeps == ThenInv /\ Many!Resolve => ThenInv'
<1> SUFFICES ASSUME ThenInv, Many!Resolve PROVE ThenInv'
  OBVIOUS
<1>1. PICK j : j = Head(jobs)
  OBVIOUS
<1>2. /\ jobs # <<>> /\ j.job = "resolve" /\ QuietCall
      /\ jobs' = IF Many!Stale(j) THEN Tail(jobs)
                 ELSE <<Many!ReturnJob(j.target, j.depth, j.arg)>> \o Tail(jobs)
  BY <1>1 DEF Many!Resolve, Many!Job, QuietCall, Quiet, Registered, Many!unsettled, Many!whens
<1>3. ChildJob(j) /\ ~FreeJob(j) /\ JobsInv
  <2>1. ~FreeJob(j)
    BY <1>2 DEF FreeJob
  <2>2. JobsInv
    BY DEF ThenInv, PendingInv
  <2> QED BY <1>1, <1>2, <2>1, <2>2, FirstJob
<1>4. CASE Many!Stale(j)
  <2>1. Moves
    BY <1>2, QuietKeeps DEF QuietCall
  <2>2. JobsInv'
    BY <1>2, <1>3, <1>4, <2>1, RestJobs
  <2> QED BY <1>2, <2>2, QuietCallKeeps
<1>5. CASE ~Many!Stale(j)
  <2>1. PICK n : n = Many!ReturnJob(j.target, j.depth, j.arg)
    OBVIOUS
  <2>2. n.job = "return" /\ n.target = j.target /\ n.arg = j.arg
    BY <2>1 DEF Many!ReturnJob
  <2>3. j.depth \in Nat /\ maxDepth[j.target] \in Nat
    BY <1>2, <1>3 DEF ChildJob, ThenInv, PromisesInv, PromiseTypes
  <2>4. j.depth >= maxDepth[j.target]
    BY <1>5, <2>3 DEF Many!Stale
  <2>5. Told(n.target, "resolved", n.arg) /\ Valued(n.arg)
    BY <1>2, <1>3, <2>2, <2>4 DEF ChildJob, OutcomeOf
  <2>6. jobs' = <<n>> \o Tail(jobs)
    BY <1>2, <1>5, <2>1
  <2> QED BY <1>1, <1>2, <1>3, <2>2, <2>5, <2>6, QuietNext
<1> QED BY <1>4, <1>5

LEMMA RejectKeeps == ThenInv /\ Many!Reject => ThenInv'
<1> SUFFICES ASSUME ThenInv, Many!Reject PROVE ThenInv'
  OBVIOUS
<1>1. PICK j : j = Head(jobs)
  OBVIOUS
<1>2. /\ jobs # <<>> /\ j.job = "reject" /\ QuietCall
      /\ jobs' = IF Many!Stale(j) THEN Tail(jobs)
                 ELSE <<Many!SettleJob(j.target, "rejected", j.arg)>> \o Tail(jobs)
  BY <1>1 DEF Many!Reject, Many!Job, QuietCall, Quiet, Registered, Many!unsettled, Many!whens
<1>3. ChildJob(j) /\ ~FreeJob(j) /\ JobsInv
  <2>1. ~FreeJob(j)
    BY <1>2 DEF FreeJob
  <2>2. JobsInv
    BY DEF ThenInv, PendingInv
  <2> QED BY <1>1, <1>2, <2>1, <2>2, FirstJob
<1>4. CASE Many!Stale(j)
  <2>1. Moves
    BY <1>2, QuietKeeps DEF QuietCall
  <2>2. JobsInv'
    BY <1>2, <1>3, <1>4, <2>1, RestJobs
  <2> QED BY <1>2, <2>2, QuietCallKeeps
<1>5. CASE ~Many!Stale(j)
  <2>1. PICK n : n = Many!SettleJob(j.target, "rejected", j.arg)
    OBVIOUS
  <2>2. n.job = "settle" /\ n.target = j.target /\ n.arg = j.arg /\ n.outcome = "rejected"
    BY <2>1 DEF Many!SettleJob
  <2>3. j.depth \in Nat /\ maxDepth[j.target] \in Nat
    BY <1>2, <1>3 DEF ChildJob, ThenInv, PromisesInv, PromiseTypes
  <2>4. j.depth >= maxDepth[j.target]
    BY <1>5, <2>3 DEF Many!Stale
  <2>5. Told(n.target, "rejected", n.arg) /\ Valued(n.arg)
    BY <1>2, <1>3, <2>2, <2>4 DEF ChildJob, OutcomeOf
  <2>6. SettleOK(n.target, "rejected", n.arg)
    BY <2>5 DEF Told, SettleOK
  <2>7. jobs' = <<n>> \o Tail(jobs)
    BY <1>2, <1>5, <2>1
  <2> QED BY <1>1, <1>2, <1>3, <2>2, <2>5, <2>6, <2>7, QuietNext
<1> QED BY <1>4, <1>5

LEMMA ReturnPlainKeeps == ThenInv /\ Many!ReturnPlain => ThenInv'
<1> SUFFICES ASSUME ThenInv, Many!ReturnPlain PROVE ThenInv'
  OBVIOUS
<1>1. PICK j : j = Head(jobs)
  OBVIOUS
<1>2. /\ jobs # <<>> /\ j.job = "return" /\ QuietCall
      /\ \/ j.arg[1] # "promise"
            /\ jobs' = <<Many!SettleJob(j.target, "resolved", j.arg)>> \o Tail(jobs)
         \/ j.arg = Many!PromiseOf(j.target)
            /\ jobs' = <<Many!SettleJob(j.target, "rejected", Many!Undefined)>> \o Tail(jobs)
  BY <1>1 DEF Many!ReturnPlain, Many!Job, QuietCall, Quiet, Registered, Many!unsettled, Many!whens
<1>3. ChildJob(j) /\ ~FreeJob(j) /\ Told(j.target, "resolved", j.arg) /\ Valued(j.arg)
  <2>1. ~FreeJob(j)
    BY <1>2 DEF FreeJob
  <2>2. JobsInv
    BY DEF ThenInv, PendingInv
  <2>3. ChildJob(j)
    BY <1>1, <1>2, <2>1, <2>2, FirstJob
  <2> QED BY <1>2, <2>1, <2>3 DEF ChildJob
<1>4. CASE j.arg[1] # "promise" /\ jobs' = <<Many!SettleJob(j.target, "resolved", j.arg)>> \o Tail(jobs)
  <2>1. PICK n : n = Many!SettleJob(j.target, "resolved", j.arg)
    OBVIOUS
  <2>2. n.job = "settle" /\ n.target = j.target /\ n.arg = j.arg /\ n.outcome = "resolved"
    BY <2>1 DEF Many!SettleJob
  <2>3. SettleOK(n.target, "resolved", n.arg)
    BY <1>3, <1>4, <2>2 DEF Told, SettleOK
  <2>4. jobs' = <<n>> \o Tail(jobs)
    BY <1>4, <2>1
  <2> QED BY <1>1, <1>2, <1>3, <2>2, <2>3, <2>4, QuietNext
<1>5. CASE j.arg = Many!PromiseOf(j.target)
           /\ jobs' = <<Many!SettleJob(j.target, "rejected", Many!Undefined)>> \o Tail(jobs)
  <2>1. PICK n : n = Many!SettleJob(j.target, "rejected", Many!Undefined)
    OBVIOUS
  <2>2. n.job = "settle" /\ n.target = j.target /\ n.arg = Many!Undefined /\ n.outcome = "rejected"
    BY <2>1 DEF Many!SettleJob
  <2>3. SettleOK(n.target, "rejected", n.arg)
    BY <1>3, <1>5, <2>2 DEF Told, SettleOK
  <2>4. Valued(n.arg)
    BY <2>2 DEF Valued, Many!Undefined
  <2>5. jobs' = <<n>> \o Tail(jobs)
    BY <1>5, <2>1
  <2> QED BY <1>1, <1>2, <1>3, <2>2, <2>3, <2>4, <2>5, QuietNext
<1> QED BY <1>2, <1>4, <1>5

LEMMA UpdateKeeps == ThenInv /\ Many!Update => ThenInv'
<1> SUFFICES ASSUME ThenInv, Many!Update PROVE ThenInv'
  OBVIOUS
<1>1. PICK j : j = Head(jobs)
  OBVIOUS
<1>2. /\ jobs # <<>> /\ j.job = "update" /\ QuietCall
  BY <1>1 DEF Many!Update, Many!Job, QuietCall, Quiet, Registered, Many!unsettled
<1>3. PICK all : jobs' = IF remaining[j.target] = 1
                         THEN <<Many!SettleJob(j.target, "resolved", <<"all", all>>)>> \o Tail(jobs)
                         ELSE Tail(jobs)
  BY <1>1 DEF Many!Update
<1>4. Moves /\ JobsInv
  BY <1>2, QuietKeeps DEF QuietCall, ThenInv, PendingInv
<1>5. FreeJob(j) /\ ~ChildJob(j)
  <2>1. ~ChildJob(j)
    BY <1>2 DEF ChildJob
  <2> QED BY <1>1, <1>2, <1>4, <2>1, FirstJob
<1>6. CASE jobs' = Tail(jobs)
  <2>1. JobsInv'
    BY <1>2, <1>4, <1>6, RestJobs
  <2> QED BY <1>2, <2>1, QuietCallKeeps
<1>7. CASE jobs' = <<Many!SettleJob(j.target, "resolved", <<"all", all>>)>> \o Tail(jobs)
  <2>1. PICK n : n = Many!SettleJob(j.target, "resolved", <<"all", all>>)
    OBVIOUS
  <2>2. n.job = "settle" /\ n.target = j.target /\ n.arg = <<"all", all>> /\ n.outcome = "resolved"
    BY <2>1 DEF Many!SettleJob
  <2>3. FreeJob(n)
    BY <1>5, <2>2 DEF FreeJob, Valued
  <2>4. FreeJob(n)'
    BY <1>4, <2>3, FreeOnward
  <2>5. JobsInv'
    BY <1>1, <1>2, <1>4, <1>5, <1>7, <2>1, <2>4, NextJob
  <2> QED BY <1>2, <2>5, QuietCallKeeps
<1> QED BY <1>3, <1>6, <1>7

-----------------------------------------------------------------------------
(* User code and timers.                                                   *)

LEMMA FreshFollowsNothing ==
    ASSUME PromisesInv, NEW c, Fresh(c)
    PROVE  c \in Ps /\ following[c] = <<>> /\ ~Follows(c)
BY DEF PromisesInv, PromiseOK, Fresh, Follows

\* Nothing begins any more for a child that has been resolved.
LEMMA DeepSpent ==
    ASSUME ThenInv, NEW c \in Ps, maxDepth[c] # 0
    PROVE  parent[c] # 0 /\ Spent(c)
<1>1. parent[c] # 0 /\ Settled(parent[c]) /\ ~Fresh(c) /\ c # 0
  <2>1. PromiseOK(c) /\ c # 0
    BY Counts DEF ThenInv, PromisesInv
  <2> QED BY <2>1 DEF PromiseOK, Fresh
<1>2. ASSUME NEW i \in 1 .. Len(timers), timers[i].child = c PROVE FALSE
  <2>1. TimerOK(timers[i])
    BY DEF ThenInv, PendingInv, TimersInv
  <2> QED BY <1>1, <1>2, <2>1 DEF TimerOK, ChildTimer, FollowTimer
<1>3. ~Handles(c)
  BY <1>1 DEF Handles, ThenInv, PendingInv, CurrentInv
<1> QED BY <1>1, <1>2, <1>3 DEF Spent, Begun, NotTimed

LEMMA SettleRootKeeps == ThenInv /\ Many!SettleRoot => ThenInv'
<1> SUFFICES ASSUME ThenInv, Many!SettleRoot PROVE ThenInv'
  OBVIOUS
<1>1. QuietCall
  BY DEF Many!SettleRoot, QuietCall, Quiet, Registered, Many!unsettled, Many!whens
<1>2. PICK d \in 1 .. Roots :
         \/ jobs' = <<Many!SettleJob(d, "resolved", Many!Plain)>>
         \/ jobs' = <<Many!SettleJob(d, "rejected", Many!Plain)>>
         \/ \E p \in (d + 1) .. count : jobs' = <<Many!SettleJob(d, "resolved", Many!PromiseOf(p))>>
  BY DEF Many!SettleRoot
<1>3. /\ d \in 1 .. count /\ parent[d] = 0
      /\ \A p \in (d + 1) .. count : p \in 1 .. count
  <2>1. /\ count \in Nat /\ Roots \in Nat /\ Roots <= count /\ 1 .. count \subseteq Ps
        /\ Ps = 1 .. MaxPromises
    BY Counts DEF ThenInv, PromisesInv
  <2>2. d \in 1 .. count /\ ~(d > Roots) /\ \A p \in (d + 1) .. count : p \in 1 .. count
    BY <2>1
  <2>3. PromiseOK(d)
    BY <2>1, <2>2 DEF ThenInv, PromisesInv
  <2> QED BY <2>2, <2>3 DEF PromiseOK
<1>4. PICK o, v : /\ o \in {"resolved", "rejected"} /\ Valued(v)
                    /\ jobs' = <<Many!SettleJob(d, o, v)>>
  <2>1. Valued(Many!Plain) /\ \A p \in (d + 1) .. count : Valued(Many!PromiseOf(p))
    BY <1>3 DEF Valued, Many!Plain, Many!PromiseOf
  <2> QED BY <1>2, <2>1
<1>5. PICK n : n = Many!SettleJob(d, o, v)
  OBVIOUS
<1>6. FreeJob(n)
  BY <1>3, <1>4, <1>5 DEF FreeJob, Many!SettleJob
<1>7. Moves
  BY <1>1, QuietKeeps DEF QuietCall
<1>8. JobsInv'
  BY <1>4, <1>5, <1>6, <1>7, FreeOnward, OneJob
<1> QED BY <1>1, <1>8, QuietCallKeeps

\* A thenable that is called back without having been resolved since.
LEMMA GivenTold ==
    ASSUME PromisesInv, NEW c \in given, 1 >= maxDepth[c], NEW o, NEW v
    PROVE  Told(c, o, v) /\ SettleOK(c, o, v)
<1>1. c \in Ps /\ PromiseOK(c) /\ maxDepth[c] \in Nat
  BY DEF PromisesInv, PromiseTypes
<1>2. ~Settled(c) => following[c] = <<"thenable", 1>>
  BY <1>1 DEF PromiseOK
<1>3. ~Settled(c) => ~Follows(c)
  BY <1>2 DEF Follows
<1> QED BY <1>3 DEF Told, SettleOK

LEMMA ThenableCallsKeeps == ThenInv /\ Many!ThenableCalls => ThenInv'
<1> SUFFICES ASSUME ThenInv, Many!ThenableCalls PROVE ThenInv'
  OBVIOUS
<1>1. QuietCall
  BY DEF Many!ThenableCalls, QuietCall, Quiet, Registered, Many!unsettled, Many!whens
<1>2. PICK c \in given :
         \/ jobs' = <<Many!ResolveJob(c, 1, Many!Plain)>>
         \/ jobs' = <<Many!RejectJob(c, 1, Many!Plain)>>
         \/ \E p \in 1 .. count : jobs' = <<Many!ResolveJob(c, 1, Many!PromiseOf(p))>>
  BY DEF Many!ThenableCalls
<1>3. PICK n : /\ jobs' = <<n>> /\ n.job \in {"resolve", "reject"} /\ n.target = c /\ n.depth = 1
               /\ Valued(n.arg)
  <2>1. Valued(Many!Plain) /\ \A p \in 1 .. count : Valued(Many!PromiseOf(p))
    BY DEF Valued, Many!Plain, Many!PromiseOf
  <2> QED BY <1>2, <2>1 DEF Many!ResolveJob, Many!RejectJob
<1>4. PromisesInv /\ c \in Ps /\ maxDepth[c] # 0 /\ maxDepth[c] \in Nat
  BY DEF ThenInv, PromisesInv, PromiseOK, PromiseTypes
<1>5. parent[c] # 0 /\ Spent(c)
  BY <1>4, DeepSpent
<1>6. n.depth >= maxDepth[c] => Told(c, OutcomeOf(n), n.arg)
  BY <1>3, <1>4, GivenTold
<1>7. Moves /\ Spent(c)' /\ parent'[c] # 0 /\ maxDepth' = maxDepth
  <2>1. Moves
    BY <1>1, QuietKeeps DEF QuietCall
  <2>2. Spent(c)'
    BY <1>1, <1>5, QuietCurrent DEF QuietCall
  <2> QED BY <1>1, <1>5, <2>1, <2>2 DEF QuietCall, Quiet
<1>8. n.depth >= maxDepth'[c] => Told(c, OutcomeOf(n), n.arg)'
  BY <1>1, <1>6, <1>7, QuietSame DEF QuietCall
<1>9. Valued(n.arg)'
  BY <1>3, <1>7, ValuedOnward
<1>10. ChildJob(n)'
  BY <1>3, <1>4, <1>7, <1>8, <1>9 DEF ChildJob
<1>11. JobsInv'
  BY <1>3, <1>10, OneJob
<1> QED BY <1>1, <1>11, QuietCallKeeps

\* The user code returns, and there may be a call for its child.
LEMMA ReturnKeeps ==
    ASSUME ThenInv, Quiet, Registered, UNCHANGED timers, current # Idle, current' = Idle,
           NEW n, n.target = current.of, Valued(n.arg),
           jobs' = <<>> \/ jobs' = <<n>>,
           \/ n.job = "return" /\ Told(n.target, "resolved", n.arg)
           \/ n.job = "settle" /\ n.outcome = "rejected" /\ SettleOK(n.target, "rejected", n.arg)
    PROVE  ThenInv'
<1> DEFINE c == n.target
<1>1. /\ PromisesInv' /\ ReactionsInv' /\ ListenersInv' /\ Moves
      /\ TimersInv' /\ CurrentInv'
  BY QuietKeeps, QuietTimers, QuietCurrent
<1>2. c \in Ps /\ parent[c] # 0 /\ Settled(parent[c]) /\ NotTimed(c)
  <2>1. CASE Fresh(current.of) /\ Settled(parent[current.of]) /\ NotTimed(current.of)
    BY <2>1 DEF Fresh
  <2>2. CASE current.of \in given
    <3>1. c \in Ps /\ maxDepth[c] # 0
      BY <2>2 DEF ThenInv, PromisesInv, PromiseOK
    <3> QED BY <3>1, DeepSpent DEF Spent, Begun
  <2> QED BY <2>1, <2>2 DEF ThenInv, PendingInv, CurrentInv
<1>3. Spent(c)' /\ parent'[c] # 0 /\ c \in Ps
  <2>1. ~Handles(c)'
    BY DEF Handles
  <2>2. parent' = parent
    BY DEF Quiet
  <2>3. Settled(parent[c])' /\ NotTimed(c)'
    BY <1>2, <2>2, QuietSame, QuietTimers DEF Settled, Quiet
  <2> QED BY <1>2, <2>1, <2>2, <2>3 DEF Spent, Begun
<1>4. /\ Valued(n.arg)'
      /\ \/ n.job = "return" /\ Told(c, "resolved", n.arg)'
         \/ n.job = "settle" /\ n.outcome = "rejected" /\ SettleOK(c, "rejected", n.arg)'
  BY QuietSame
<1>5. ChildJob(n)'
  BY <1>3, <1>4 DEF ChildJob
<1>6. JobsInv'
  BY <1>5, OneJob, NoJob
<1> QED BY <1>1, <1>6 DEF ThenInv, PendingInv

\* Or none.
LEMMA NoCallKeeps ==
    ASSUME ThenInv, Quiet, Registered, UNCHANGED timers, current' = Idle, jobs' = <<>>
    PROVE  ThenInv'
BY QuietKeeps, QuietTimers, QuietCurrent, NoJob DEF ThenInv, PendingInv

LEMMA HandlerReturnsKeeps == ThenInv /\ Many!HandlerReturns => ThenInv'
<1> SUFFICES ASSUME ThenInv, Many!HandlerReturns PROVE ThenInv'
  OBVIOUS
<1>1. /\ Quiet /\ Registered /\ timers' = timers /\ current # Idle /\ current' = Idle
      /\ current.code = "handler"
  BY DEF Many!HandlerReturns, Quiet, Registered, Many!unsettled, Many!whens
<1>2. Fresh(current.of)
  BY <1>1 DEF ThenInv, PendingInv, CurrentInv
<1>3. PICK v : jobs' = <<Many!ReturnJob(current.of, 0, v)>> /\ Valued(v)
  <2>1. Valued(<<"plain", 9>>) /\ \A p \in 1 .. count : Valued(Many!PromiseOf(p))
    BY DEF Valued, Many!PromiseOf
  <2>2. \/ jobs' = <<Many!ReturnJob(current.of, 0, <<"plain", 9>>)>>
        \/ \E p \in 1 .. count : jobs' = <<Many!ReturnJob(current.of, 0, Many!PromiseOf(p))>>
    BY DEF Many!HandlerReturns
  <2> QED BY <2>1, <2>2
<1>4. PICK n : n = Many!ReturnJob(current.of, 0, v)
  OBVIOUS
<1>5. n.job = "return" /\ n.target = current.of /\ n.arg = v
  BY <1>4 DEF Many!ReturnJob
<1>6. Told(n.target, "resolved", n.arg)
  BY <1>2, <1>5, FreshFollowsNothing DEF ThenInv, Told
<1>7. jobs' = <<n>>
  BY <1>3, <1>4
<1> QED BY <1>1, <1>3, <1>5, <1>6, <1>7, ReturnKeeps

LEMMA ThrowsKeeps == ThenInv /\ Many!Throws => ThenInv'
<1> SUFFICES ASSUME ThenInv, Many!Throws PROVE ThenInv'
  OBVIOUS
<1>1. Quiet /\ Registered /\ timers' = timers /\ current # Idle /\ current' = Idle
  BY DEF Many!Throws, Quiet, Registered, Many!unsettled, Many!whens
<1>2. PICK n : n = Many!SettleJob(current.of, "rejected", <<"plain", 8>>)
  OBVIOUS
<1>3. n.job = "settle" /\ n.target = current.of /\ n.arg = <<"plain", 8>> /\ n.outcome = "rejected"
  BY <1>2 DEF Many!SettleJob
<1>4. Valued(n.arg)
  BY <1>3 DEF Valued
<1>5. CASE current.code = "handler"
  <2>1. Fresh(current.of)
    BY <1>1, <1>5 DEF ThenInv, PendingInv, CurrentInv
  <2>2. SettleOK(n.target, "rejected", n.arg)
    BY <1>3, <2>1, FreshFollowsNothing DEF ThenInv, SettleOK
  <2>3. jobs' = <<>> \/ jobs' = <<n>>
    BY <1>2 DEF Many!Throws
  <2> QED BY <1>1, <1>3, <1>4, <2>2, <2>3, ReturnKeeps
<1>6. CASE current.code = "thenable"
  <2>1. current.of \in given /\ current.depth = 1
    BY <1>1, <1>6 DEF ThenInv, PendingInv, CurrentInv
  <2>2. jobs' = IF 1 >= maxDepth[current.of] THEN <<n>> ELSE <<>>
    BY <1>2, <1>6, <2>1 DEF Many!Throws
  <2>3. CASE 1 >= maxDepth[current.of]
    <3>1. SettleOK(n.target, "rejected", n.arg)
      BY <1>3, <2>1, <2>3, GivenTold DEF ThenInv
    <3> QED BY <1>1, <1>3, <1>4, <2>2, <2>3, <3>1, ReturnKeeps
  <2>4. CASE ~(1 >= maxDepth[current.of])
    <3>1. jobs' = <<>>
      BY <2>2, <2>4
    <3> QED BY <1>1, <3>1, NoCallKeeps
  <2> QED BY <2>3, <2>4
<1> QED BY <1>1, <1>5, <1>6 DEF ThenInv, PendingInv, CurrentInv

LEMMA ThenableReturnsKeeps == ThenInv /\ Many!ThenableReturns => ThenInv'
<1> SUFFICES ASSUME ThenInv, Many!ThenableReturns PROVE ThenInv'
  OBVIOUS
<1>1. Quiet /\ Registered /\ timers' = timers /\ current' = Idle /\ jobs' = <<>>
  BY DEF Many!ThenableReturns, Quiet, Registered, Many!unsettled, Many!whens
<1> QED BY <1>1, NoCallKeeps

-----------------------------------------------------------------------------
(* Timers.                                                                 *)

\* The first timer is taken.
LEMMA TimerTaken ==
    ASSUME ThenInv, Quiet, timers # <<>>, timers' = Tail(timers)
    PROVE  /\ TimersInv'
           /\ \A c : NotTimed(c) => NotTimed(c)'
           /\ TimerOK(Head(timers))
           /\ \A c : c = Head(timers).child /\ c # 0 => NotTimed(c)'
<1>1. /\ IsSeq(timers) /\ \A i \in 1 .. Len(timers) : TimerOK(timers[i])
      /\ \A i, j \in 1 .. Len(timers) :
            timers[i].child = timers[j].child /\ timers[i].child # 0 => i = j
  BY DEF ThenInv, PendingInv, TimersInv
<1>2. /\ Len(timers) \in Nat /\ 1 \in 1 .. Len(timers) /\ Head(timers) = timers[1]
      /\ IsSeq(timers') /\ Len(timers') = Len(timers) - 1
      /\ \A i \in 1 .. Len(timers) - 1 : timers'[i] = timers[i + 1]
  BY <1>1, SeqFacts
<1>3. \A i \in 1 .. Len(timers') : /\ i + 1 \in 1 .. Len(timers) /\ i + 1 # 1
                                   /\ timers'[i] = timers[i + 1]
  BY <1>2
<1>4. PICK q : q = timers'
  OBVIOUS
<1>5. ASSUME NEW i \in 1 .. Len(q) PROVE TimerOK(q[i])'
  <2>1. TimerOK(q[i])
    BY <1>1, <1>3, <1>4
  <2> QED BY <2>1, QuietSame
<1>6. \A i, j \in 1 .. Len(q) : q[i].child = q[j].child /\ q[i].child # 0 => i = j
  BY <1>1, <1>3, <1>4
<1>7. TimersInv'
  BY <1>2, <1>4, <1>5, <1>6 DEF TimersInv
<1>8. \A c : NotTimed(c) => NotTimed(c)'
  BY <1>3 DEF NotTimed
<1>9. ASSUME NEW h, h = Head(timers).child, h # 0 PROVE NotTimed(h)'
  <2>1. \A i \in 1 .. Len(q) : q[i].child # h
    BY <1>1, <1>2, <1>3, <1>4, <1>9
  <2> QED BY <1>4, <2>1 DEF NotTimed
<1> QED BY <1>1, <1>2, <1>7, <1>8, <1>9

\* With a call for a child.
LEMMA TimerCalls ==
    ASSUME ThenInv, Quiet, Registered, timers # <<>>, timers' = Tail(timers),
           current = Idle, current' = Idle,
           NEW n, jobs' = <<n>>, n.target \in Ps, parent[n.target] # 0, Settled(parent[n.target]),
           NotTimed(n.target)', Valued(n.arg),
           \/ n.job = "return" /\ Told(n.target, "resolved", n.arg)
           \/ n.job = "settle" /\ n.outcome = "rejected" /\ SettleOK(n.target, "rejected", n.arg)
           \/ /\ n.job \in {"resolve", "reject"} /\ maxDepth[n.target] # 0 /\ n.depth \in Nat
              /\ n.depth >= maxDepth[n.target] => Told(n.target, OutcomeOf(n), n.arg)
    PROVE  ThenInv'
<1>1. PromisesInv' /\ ReactionsInv' /\ ListenersInv' /\ TimersInv'
  BY QuietKeeps, TimerTaken
<1>2. CurrentInv'
  BY DEF CurrentInv
<1>3. Spent(n.target)'
  BY QuietSame DEF Spent, Begun, Handles, Settled, Quiet
<1>4. Valued(n.arg)' /\ parent' = parent /\ maxDepth' = maxDepth
  BY QuietSame DEF Quiet
<1>5. \/ n.job = "return" /\ Told(n.target, "resolved", n.arg)'
      \/ n.job = "settle" /\ n.outcome = "rejected" /\ SettleOK(n.target, "rejected", n.arg)'
      \/ /\ n.job \in {"resolve", "reject"} /\ maxDepth'[n.target] # 0 /\ n.depth \in Nat
         /\ n.depth >= maxDepth'[n.target] => Told(n.target, OutcomeOf(n), n.arg)'
  <2>1. \A o : /\ Told(n.target, o, n.arg)' <=> Told(n.target, o, n.arg)
               /\ SettleOK(n.target, o, n.arg)' <=> SettleOK(n.target, o, n.arg)
    BY QuietSame
  <2> QED BY <1>4, <2>1
<1>6. ChildJob(n)'
  BY <1>3, <1>4, <1>5 DEF ChildJob
<1>7. JobsInv'
  BY <1>6, OneJob
<1> QED BY <1>1, <1>2, <1>7 DEF ThenInv, PendingInv

LEMMA TimerKeeps == ThenInv /\ Many!Timer => ThenInv'
<1> SUFFICES ASSUME ThenInv, Many!Timer PROVE ThenInv'
  OBVIOUS
<1>1. PICK p : p = Head(timers)
  OBVIOUS
<1>2. /\ Quiet /\ Registered /\ timers # <<>> /\ timers' = Tail(timers)
      /\ current = Idle /\ jobs = <<>>
  BY DEF Many!Timer, Quiet, Registered, Many!unsettled, Many!whens
<1>3. /\ TimerOK(p) /\ (p.child # 0 => NotTimed(p.child)')
      /\ TimersInv' /\ \A c : NotTimed(c) => NotTimed(c)'
  BY <1>1, <1>2, TimerTaken
<1>4. Valued(p.arg)
  BY <1>3 DEF TimerOK
<1>5. CASE ChildTimer(p)
  <2>1. /\ p.child \in Ps /\ parent[p.child] # 0 /\ Settled(parent[p.child]) /\ Fresh(p.child)
        /\ p.child # 0
    BY <1>5, Counts DEF ChildTimer, Fresh, ThenInv, PromisesInv
  <2>2. ~Follows(p.child)
    BY <2>1, FreshFollowsNothing DEF ThenInv
  <2>3. CASE p.handler = <<"user">>
    <3>1. current' = [code |-> "handler", of |-> p.child, depth |-> 0] /\ jobs' = <<>>
      BY <1>1, <1>2, <2>3 DEF Many!Timer
    <3>2. PromisesInv' /\ ReactionsInv' /\ ListenersInv' /\ JobsInv'
      BY <1>2, <3>1, QuietKeeps, NoJob
    <3>3. Fresh(p.child)' /\ Settled(parent[p.child])' /\ NotTimed(p.child)'
      BY <1>2, <1>3, <2>1, QuietSame DEF Settled, Quiet
    <3>4. CurrentInv'
      BY <3>1, <3>3 DEF CurrentInv
    <3> QED BY <1>3, <3>2, <3>4 DEF ThenInv, PendingInv
  <2>4. CASE p.handler = <<"identity">>
    <3>1. current' = Idle /\ jobs' = <<Many!ReturnJob(p.child, 0, p.arg)>>
      BY <1>1, <1>2, <2>4 DEF Many!Timer
    <3>2. PICK n : n = Many!ReturnJob(p.child, 0, p.arg)
      OBVIOUS
    <3>3. n.job = "return" /\ n.target = p.child /\ n.arg = p.arg
      BY <3>2 DEF Many!ReturnJob
    <3>4. Told(n.target, "resolved", n.arg)
      BY <2>2, <3>3 DEF Told
    <3> QED BY <1>2, <1>3, <1>4, <2>1, <3>1, <3>2, <3>3, <3>4, TimerCalls
  <2>5. CASE p.handler = <<"thrower">>
    <3>1. current' = Idle /\ jobs' = <<Many!SettleJob(p.child, "rejected", p.arg)>>
      BY <1>1, <1>2, <2>5 DEF Many!Timer
    <3>2. PICK n : n = Many!SettleJob(p.child, "rejected", p.arg)
      OBVIOUS
    <3>3. n.job = "settle" /\ n.target = p.child /\ n.arg = p.arg /\ n.outcome = "rejected"
      BY <3>2 DEF Many!SettleJob
    <3>4. SettleOK(n.target, "rejected", n.arg)
      BY <2>2, <3>3 DEF SettleOK
    <3> QED BY <1>2, <1>3, <1>4, <2>1, <3>1, <3>2, <3>3, <3>4, TimerCalls
  <2> QED BY <1>5, <2>3, <2>4, <2>5 DEF ChildTimer
<1>6. CASE FollowTimer(p)
  <2>1. PICK c \in Ps : \E k \in 1 .. maxDepth[c] :
          \/ p.handler = <<"resolve", c, k>> /\ (k = maxDepth[c] => Told(c, "resolved", p.arg))
          \/ p.handler = <<"reject", c, k>> /\ (k = maxDepth[c] => Told(c, "rejected", p.arg))
    BY <1>6 DEF FollowTimer
  <2>2. PICK k \in 1 .. maxDepth[c] :
          \/ p.handler = <<"resolve", c, k>> /\ (k = maxDepth[c] => Told(c, "resolved", p.arg))
          \/ p.handler = <<"reject", c, k>> /\ (k = maxDepth[c] => Told(c, "rejected", p.arg))
    BY <2>1
  <2>3. /\ p.handler[1] \in {"resolve", "reject"} /\ p.handler[2] = c /\ p.handler[3] = k
        /\ k = maxDepth[c] =>
              Told(c, IF p.handler[1] = "resolve" THEN "resolved" ELSE "rejected", p.arg)
    BY <2>2
  <2>4. /\ current' = Idle
        /\ jobs' = << [job |-> p.handler[1], target |-> p.handler[2], depth |-> p.handler[3],
                       arg |-> p.arg] >>
    BY <1>1, <1>2, <2>3 DEF Many!Timer
  <2>5. PICK n : n = [job |-> p.handler[1], target |-> p.handler[2], depth |-> p.handler[3],
                      arg |-> p.arg]
    OBVIOUS
  <2>6. /\ n.job = p.handler[1] /\ n.target = c /\ n.depth = k /\ n.arg = p.arg
        /\ n.job \in {"resolve", "reject"}
    BY <2>3, <2>5
  <2>7. maxDepth[c] \in Nat /\ maxDepth[c] # 0 /\ k \in Nat /\ (k >= maxDepth[c] => k = maxDepth[c])
    BY DEF ThenInv, PromisesInv, PromiseTypes
  <2>8. n.depth >= maxDepth[n.target] => Told(n.target, OutcomeOf(n), n.arg)
    BY <2>3, <2>6, <2>7 DEF OutcomeOf
  <2>9. parent[c] # 0 /\ Settled(parent[c]) /\ NotTimed(c)'
    BY <1>3, <2>7, DeepSpent DEF Spent, Begun
  <2> QED BY <1>2, <1>4, <2>4, <2>5, <2>6, <2>7, <2>8, <2>9, TimerCalls
<1> QED BY <1>3, <1>5, <1>6 DEF TimerOK

-----------------------------------------------------------------------------
(* What has to be looked at again when promises move on.                   *)

\* The process of a reaction to a promise that has settled.
LEMMA Processed ==
    ASSUME NEW d \in Ps, NEW r, ReactionOK(d, r)', r[1] # 0 => Fresh(r[1])',
           NEW o \in {"resolved", "rejected"}, NEW v, state'[d] = o, val'[d] = v, Valued(v)',
           NEW t, t = Many!Process(r, o, v)
    PROVE  TimerOK(t)' /\ t.child = r[1]
<1>1. t.child = r[1] /\ t.handler = r[IF o = "resolved" THEN 2 ELSE 3] /\ t.arg = v
  BY DEF Many!Process
<1>2. CASE ChildReaction(d, r)'
  <2>1. r[1] \in Ps /\ r[1] # 0 /\ parent'[r[1]] = d
    BY <1>2 DEF ChildReaction, Ps, Many!Promises
  <2>2. t.handler \in {<<"user">>, <<"identity">>, <<"thrower">>}
    BY <1>1, <1>2 DEF ChildReaction
  <2>3. Fresh(t.child)' /\ state'[parent'[t.child]] # "pending"
    BY <1>1, <2>1
  <2>4. ChildTimer(t)'
    BY <2>2, <2>3 DEF ChildTimer, Settled
  <2> QED BY <1>1, <2>4 DEF TimerOK
<1>3. CASE FollowReaction(d, r)'
  <2>1. r[1] = 0
    BY <1>3 DEF FollowReaction
  <2>2. PICK c \in Ps : \E k \in 1 .. maxDepth'[c] :
          /\ r[2] = <<"resolve", c, k>> /\ r[3] = <<"reject", c, k>>
          /\ ~Settled(c)' /\ k = maxDepth'[c] => following'[c] = Many!PromiseOf(d)
    BY <1>3 DEF FollowReaction, Many!PromiseOf
  <2>3. PICK k \in 1 .. maxDepth'[c] :
          /\ r[2] = <<"resolve", c, k>> /\ r[3] = <<"reject", c, k>>
          /\ ~Settled(c)' /\ k = maxDepth'[c] => following'[c] = Many!PromiseOf(d)
    BY <2>2
  <2>4. k = maxDepth'[c] => Told(c, o, v)'
    <3>1. SUFFICES ASSUME k = maxDepth'[c], ~Settled(c)'
                   PROVE  state'[following'[c][2]] = o /\ val'[following'[c][2]] = v
      BY DEF Told
    <3>2. following'[c][2] = d
      BY <2>3, <3>1 DEF Many!PromiseOf
    <3> QED BY <3>2
  <2>5. \/ o = "resolved" /\ t.handler = <<"resolve", c, k>>
        \/ o = "rejected" /\ t.handler = <<"reject", c, k>>
    BY <1>1, <2>3
  <2>6. FollowTimer(t)'
    BY <1>1, <2>1, <2>4, <2>5 DEF FollowTimer
  <2> QED BY <1>1, <2>6 DEF TimerOK
<1> QED BY <1>2, <1>3 DEF ReactionOK

LEMMA ReactionsKept ==
    ASSUME ThenInv, Moves, reactions' = reactions
    PROVE  ReactionsInv'
<1>1. ASSUME NEW d \in Ps, NEW i \in 1 .. Len(reactions[d]) PROVE ReactionOK(d, reactions[d][i])'
  <2>1. PICK r : r = reactions[d][i]
    OBVIOUS
  <2>2. ReactionOK(d, r)
    BY <2>1 DEF ThenInv, PendingInv, ReactionsInv
  <2>3. ReactionOK(d, r)'
    BY <2>2, ReactionOnward
  <2> QED BY <2>1, <2>3
<1>2. \A d \in Ps : Distinct(reactions[d])'
  BY DEF ThenInv, PendingInv, ReactionsInv, Distinct
<1> QED BY <1>1, <1>2 DEF ReactionsInv

\* A timer that is left.
LEMMA TimerKept ==
    ASSUME ThenInv, Moves, NEW i \in 1 .. Len(timers), NEW t, t = timers[i]
    PROVE  TimerOK(t)'
<1>1. TimerOK(t) /\ ~NotTimed(t.child)
  BY DEF ThenInv, PendingInv, TimersInv, NotTimed
<1> QED BY <1>1, TimerOnward

LEMMA TimersKept ==
    ASSUME ThenInv, Moves, timers' = timers
    PROVE  TimersInv' /\ \A c : NotTimed(c) => NotTimed(c)'
<1>1. ASSUME NEW i \in 1 .. Len(timers) PROVE TimerOK(timers[i])'
  <2>1. PICK t : t = timers[i]
    OBVIOUS
  <2>2. TimerOK(t)'
    BY <2>1, TimerKept
  <2> QED BY <2>1, <2>2
<1>2. TimersInv'
  BY <1>1 DEF ThenInv, PendingInv, TimersInv
<1>3. \A c : NotTimed(c) => NotTimed(c)'
  BY DEF NotTimed
<1> QED BY <1>2, <1>3

LEMMA ListenersKept ==
    ASSUME ThenInv, Moves, listeners' = listeners
    PROVE  ListenersInv'
<1>1. ASSUME NEW d \in Ps, NEW i \in 1 .. Len(listeners[d]) PROVE ListenerOK(listeners[d][i])'
  <2>1. PICK l : l = listeners[d][i]
    OBVIOUS
  <2>2. ListenerOK(l)
    BY <2>1 DEF ThenInv, PendingInv, ListenersInv
  <2>3. ListenerOK(l)'
    BY <2>2, ListenersOnward
  <2> QED BY <2>1, <2>3
<1> QED BY <1>1 DEF ListenersInv

LEMMA CurrentKept ==
    ASSUME ThenInv, Moves, current' = current, given' = given,
           \A c \in Ps : Fresh(c) /\ ~Spent(c) => Fresh(c)',
           \A c \in 1 .. count : Begun(c) => NotTimed(c)'
    PROVE  CurrentInv'
<1> SUFFICES ASSUME current # Idle PROVE CurrentInv'
  BY DEF CurrentInv
<1>1. CASE current.code = "handler" /\ Fresh(current.of) /\ Settled(parent[current.of])
              /\ NotTimed(current.of)
  <2>1. PICK c : c = current.of
    OBVIOUS
  <2>2. c \in Ps /\ parent[c] # 0 /\ Begun(c) /\ Handles(c) /\ Fresh(c)
    BY <1>1, <2>1 DEF Fresh, Begun, Handles
  <2>3. c \in 1 .. count /\ parent[c] \in Ps /\ parent'[c] = parent[c]
    BY <2>2, Parented DEF Moves, Onward
  <2>4. Fresh(c)' /\ NotTimed(c)'
    BY <2>2, <2>3 DEF Spent
  <2>5. state'[parent'[c]] # "pending"
    BY <1>1, <2>1, <2>3 DEF Moves, Onward, Settled
  <2>6. c = current'.of /\ current'.code = "handler"
    BY <1>1, <2>1
  <2> QED BY <2>4, <2>5, <2>6 DEF CurrentInv, Settled
<1>2. CASE current.code = "thenable" /\ current.of \in given /\ current.depth = 1
  BY <1>2 DEF CurrentInv
<1> QED BY <1>1, <1>2 DEF ThenInv, PendingInv, CurrentInv

\* Calls that are free, all of them.
LEMMA FreeJobs ==
    ASSUME Moves, NEW s, NEW t, IsSeq(s), IsSeq(t), AllFree(s)', AllFree(t)', jobs' = s \o t
    PROVE  JobsInv'
<1>1. PICK q : q = s \o t
  OBVIOUS
<1>2. /\ IsSeq(q)
      /\ \A i \in 1 .. Len(s) : q[i] = s[i]
      /\ \A i \in 1 .. Len(t) : q[Len(s) + i] = t[i]
      /\ \A i \in 1 .. Len(q) : i \in 1 .. Len(s) \/ \E k \in 1 .. Len(t) : i = Len(s) + k
  BY <1>1, SeqConcat
<1>3. ASSUME NEW i \in 1 .. Len(q) PROVE FreeJob(q[i])'
  <2>1. CASE i \in 1 .. Len(s)
    <3>1. q[i] = s[i]
      BY <1>2, <2>1
    <3> QED BY <2>1, <3>1 DEF AllFree
  <2>2. CASE \E k \in 1 .. Len(t) : i = Len(s) + k
    <3>1. PICK k \in 1 .. Len(t) : i = Len(s) + k
      BY <2>2
    <3>2. q[i] = t[k]
      BY <1>2, <3>1
    <3> QED BY <3>1, <3>2 DEF AllFree
  <2> QED BY <1>2, <2>1, <2>2
<1>4. jobs' = q
  BY <1>1
<1> QED BY <1>2, <1>3, <1>4 DEF JobsInv, AllFree

\* What updateFunc or reject of when() are called with.
LEMMA ListenerCall ==
    ASSUME NEW l, ListenerOK(l), NEW v, Valued(v), NEW n \in {1, 2},
           NEW j, j = [l[n] EXCEPT !.arg = v]
    PROVE  FreeJob(j)
<1>1. PICK m \in 1 .. count, k \in {1, 2} :
         l = <<Many!UpdateJob(m, k), Many!SettleJob(m, "rejected", <<>>)>> /\ parent[m] = 0
  BY DEF ListenerOK
<1>2. l[1] = Many!UpdateJob(m, k) /\ l[2] = Many!SettleJob(m, "rejected", <<>>)
  BY <1>1
<1>3. CASE n = 1
  <2>1. j = [job |-> "update", target |-> m, depth |-> k, arg |-> v]
    BY <1>2, <1>3 DEF Many!UpdateJob
  <2> QED BY <1>1, <2>1 DEF FreeJob
<1>4. CASE n = 2
  <2>1. j = [job |-> "settle", target |-> m, outcome |-> "rejected", arg |-> v]
    BY <1>2, <1>4 DEF Many!SettleJob
  <2> QED BY <1>1, <2>1 DEF FreeJob
<1> QED BY <1>3, <1>4

-----------------------------------------------------------------------------
(* A promise settles.                                                      *)

Settling(d, o, v) ==
    /\ d \in 1 .. count /\ ~Settled(d) /\ o \in {"resolved", "rejected"} /\ Valued(v)
    /\ parent[d] # 0 => Spent(d)
    /\ state' = [state EXCEPT ![d] = o]
    /\ val' = [val EXCEPT ![d] = v]
    /\ UNCHANGED <<count, maxDepth, parent, following, given, reactions, listeners, current>>

LEMMA SettlingMoves ==
    ASSUME ThenInv, NEW d, NEW o, NEW v, Settling(d, o, v)
    PROVE  Moves /\ PromisesInv' /\ d \in Ps /\ state'[d] = o /\ val'[d] = v
<1>1. PromisesInv /\ PromiseTypes /\ d \in Ps /\ count \in Nat
  BY Counts DEF ThenInv, PromisesInv, Settling
<1>2. /\ state'[d] = o /\ val'[d] = v /\ DOMAIN val' = Ps
      /\ \A p \in Ps : p # d => state'[p] = state[p] /\ val'[p] = val[p]
      /\ count' = count /\ maxDepth' = maxDepth /\ parent' = parent /\ following' = following
      /\ given' = given /\ reactions' = reactions /\ listeners' = listeners
      /\ ~Settled(d) /\ o # "pending"
  BY <1>1 DEF Settling, PromiseTypes
<1>3. PromiseTypes'
  <2>1. state' \in [Ps -> {"pending", "resolved", "rejected"}]
    BY <1>1 DEF Settling, PromiseTypes
  <2> QED BY <1>1, <1>2, <2>1 DEF PromiseTypes
<1>4. \A p \in Ps : Settled(p) => state'[p] = state[p] /\ val'[p] = val[p]
  BY <1>2
<1>5. ASSUME NEW c \in Ps, Fresh(c) PROVE Fresh(c)' \/ Begun(c)
  <2>1. CASE c = d
    BY <1>5, <2>1 DEF Fresh, Settling, Spent
  <2>2. CASE c # d
    BY <1>2, <1>5, <2>2 DEF Fresh, Settled
  <2> QED BY <2>1, <2>2
<1>6. Moves
  <2>1. \A c \in Ps : maxDepth[c] \in Nat
    BY <1>1 DEF PromiseTypes
  <2> QED BY <1>1, <1>2, <1>3, <1>4, <1>5, <2>1 DEF Moves, Onward
<1>7. ASSUME NEW c \in Ps PROVE PromiseOK(c)'
  <2>1. PromiseOK(c)
    BY <1>1 DEF PromisesInv
  <2>2. c > count => ~Settled(c)'
    <3>1. c > count => c # d
      BY <1>1 DEF Settling
    <3> QED BY <1>2, <2>1, <3>1 DEF PromiseOK, Settled
  <2>3. maxDepth[c] # 0 => Settled(parent[c])'
    <3>1. maxDepth[c] # 0 => parent[c] \in Ps /\ Settled(parent[c])
      BY <1>1, <2>1, Parented DEF PromiseOK
    <3> QED BY <1>2, <1>4, <3>1 DEF Settled
  <2>4. Settled(c)' => Valued(val[c])'
    <3>1. c = d => Valued(val'[c])
      BY <1>2 DEF Settling
    <3>2. c # d /\ Settled(c)' => Valued(val'[c])
      BY <1>2, <2>1 DEF PromiseOK, Settled
    <3> QED BY <1>2, <3>1, <3>2 DEF Valued
  <2>5. ~Settled(c)' => ~Settled(c)
    BY <1>2 DEF Settled
  <2>6. Follows(c)' <=> Follows(c)
    BY <1>2 DEF Follows
  <2> QED BY <1>2, <2>1, <2>2, <2>3, <2>4, <2>5, <2>6 DEF PromiseOK
<1> QED BY <1>1, <1>2, <1>3, <1>6, <1>7 DEF PromisesInv

\* The processes that were waiting are in the timers now.
LEMMA SettlingTimers ==
    ASSUME ThenInv, NEW d, NEW o, NEW v, Settling(d, o, v),
           timers' = timers \o [i \in DOMAIN reactions[d] |-> Many!Process(reactions[d][i], o, v)]
    PROVE  TimersInv' /\ \A c \in Ps : Begun(c) => NotTimed(c)'
<1>1. /\ Moves /\ d \in Ps /\ state'[d] = o /\ val'[d] = v /\ ~Settled(d)
      /\ o \in {"resolved", "rejected"} /\ Valued(v)
  BY SettlingMoves DEF Settling
<1>2. PICK s : s = [i \in DOMAIN reactions[d] |-> Many!Process(reactions[d][i], o, v)]
  OBVIOUS
<1>3. /\ IsSeq(s) /\ Len(s) = Len(reactions[d])
      /\ \A i \in 1 .. Len(s) : s[i] = Many!Process(reactions[d][i], o, v)
  <2>1. Len(reactions[d]) \in Nat /\ DOMAIN reactions[d] = 1 .. Len(reactions[d])
    BY <1>1, SeqFacts DEF Moves, PromisesInv, PromiseTypes
  <2>2. s = [i \in 1 .. Len(reactions[d]) |-> Many!Process(reactions[d][i], o, v)]
    BY <1>2, <2>1
  <2>3. \A i \in 1 .. Len(reactions[d]) : s[i] = Many!Process(reactions[d][i], o, v)
    BY <2>2
  <2>4. s = [i \in 1 .. Len(reactions[d]) |-> s[i]]
    BY <2>2
  <2>5. IsSeq(s) /\ Len(s) = Len(reactions[d])
    BY <2>1, <2>4, SeqFunction
  <2> QED BY <2>3, <2>5
<1>4. ASSUME NEW i \in 1 .. Len(s)
      PROVE  /\ TimerOK(s[i])' /\ s[i].child = reactions[d][i][1]
             /\ s[i].child # 0 => s[i].child \in Ps /\ parent[s[i].child] = d
  <2>1. PICK r, t : r = reactions[d][i] /\ t = s[i]
    OBVIOUS
  <2>2. ReactionOK(d, r) /\ t = Many!Process(r, o, v)
    BY <1>1, <1>3, <2>1 DEF ThenInv, PendingInv, ReactionsInv
  <2>3. ReactionOK(d, r)' /\ Valued(v)'
    BY <1>1, <2>2, ReactionOnward, ValuedOnward
  <2>4. r[1] # 0 => Fresh(r[1]) /\ r[1] \in Ps /\ parent[r[1]] = d
    BY <1>1, <2>2 DEF ReactionOK, ChildReaction, FollowReaction
  <2>5. r[1] # 0 => Fresh(r[1])'
    <3>1. r[1] # 0 => ~Begun(r[1])
      BY <1>1, <2>4 DEF Begun
    <3> QED BY <1>1, <2>4, <3>1, FreshOnward
  <2>6. TimerOK(t)' /\ t.child = r[1]
    BY <1>1, <2>2, <2>3, <2>5, Processed
  <2> QED BY <2>1, <2>4, <2>6
<1>5. PICK q : q = timers \o s
  OBVIOUS
<1>6. IsSeq(timers)
  BY DEF ThenInv, PendingInv, TimersInv
<1>7. /\ IsSeq(q)
      /\ \A i \in 1 .. Len(timers) : q[i] = timers[i]
      /\ \A i \in 1 .. Len(s) : q[Len(timers) + i] = s[i]
      /\ \A i \in 1 .. Len(q) : i \in 1 .. Len(timers) \/ \E k \in 1 .. Len(s) : i = Len(timers) + k
  BY <1>3, <1>5, <1>6, SeqConcat
<1>8. ASSUME NEW i \in 1 .. Len(q) PROVE TimerOK(q[i])'
  <2>1. PICK t : t = q[i]
    OBVIOUS
  <2>2. CASE i \in 1 .. Len(timers)
    <3>1. t = timers[i]
      BY <1>7, <2>1, <2>2
    <3>2. TimerOK(t)'
      BY <1>1, <2>2, <3>1, TimerKept
    <3> QED BY <2>1, <3>2
  <2>3. CASE \E k \in 1 .. Len(s) : i = Len(timers) + k
    <3>1. PICK k \in 1 .. Len(s) : i = Len(timers) + k
      BY <2>3
    <3>2. t = s[k]
      BY <1>7, <2>1, <3>1
    <3> QED BY <1>4, <2>1, <3>1, <3>2
  <2> QED BY <1>7, <2>2, <2>3
<1>9. ASSUME NEW i \in 1 .. Len(timers), timers[i].child # 0
      PROVE  timers[i].child \in Ps /\ Settled(parent[timers[i].child])
  <2>1. TimerOK(timers[i])
    BY DEF ThenInv, PendingInv, TimersInv
  <2> QED BY <1>9, <2>1 DEF TimerOK, ChildTimer, FollowTimer, Fresh
<1>10. ASSUME NEW i \in 1 .. Len(q), NEW j \in 1 .. Len(q), q[i].child = q[j].child, q[i].child # 0
       PROVE  i = j
  <2>1. CASE i \in 1 .. Len(timers) /\ j \in 1 .. Len(timers)
    BY <1>7, <1>10, <2>1 DEF ThenInv, PendingInv, TimersInv
  <2>2. CASE \E k, l \in 1 .. Len(s) : i = Len(timers) + k /\ j = Len(timers) + l
    <3>1. PICK k \in 1 .. Len(s) : \E l \in 1 .. Len(s) : i = Len(timers) + k /\ j = Len(timers) + l
      BY <2>2
    <3>2. PICK l \in 1 .. Len(s) : i = Len(timers) + k /\ j = Len(timers) + l
      BY <3>1
    <3>3. /\ q[i] = s[k] /\ q[j] = s[l]
          /\ s[k].child = reactions[d][k][1] /\ s[l].child = reactions[d][l][1]
      BY <1>4, <1>7, <3>2
    <3>4. Distinct(reactions[d])
      BY <1>1 DEF ThenInv, PendingInv, ReactionsInv
    <3>5. k = l
      BY <1>3, <1>10, <3>3, <3>4 DEF Distinct
    <3> QED BY <3>2, <3>5
  <2>3. CASE i \in 1 .. Len(timers) /\ \E l \in 1 .. Len(s) : j = Len(timers) + l
    BY <1>1, <1>4, <1>7, <1>9, <1>10, <2>3
  <2>4. CASE j \in 1 .. Len(timers) /\ \E l \in 1 .. Len(s) : i = Len(timers) + l
    <3>1. PICK l \in 1 .. Len(s) : i = Len(timers) + l
      BY <2>4
    <3>2. q[j] = timers[j] /\ q[i] = s[l]
      BY <1>7, <2>4, <3>1
    <3>3. Settled(parent[q[j].child])
      BY <1>9, <1>10, <2>4, <3>2
    <3>4. parent[q[i].child] = d
      BY <1>4, <1>10, <3>2
    <3> QED BY <1>1, <1>10, <3>3, <3>4
  <2>5. /\ i \in 1 .. Len(timers) \/ \E k \in 1 .. Len(s) : i = Len(timers) + k
        /\ j \in 1 .. Len(timers) \/ \E k \in 1 .. Len(s) : j = Len(timers) + k
    BY <1>7
  <2> QED BY <2>1, <2>2, <2>3, <2>4, <2>5, Zenon
<1>11. timers' = q
  BY <1>2, <1>5
<1>12. TimersInv'
  BY <1>7, <1>8, <1>10, <1>11 DEF TimersInv
<1>13. ASSUME NEW c \in Ps, Begun(c) PROVE NotTimed(c)'
  <2>1. ASSUME NEW i \in 1 .. Len(q), q[i].child = c PROVE FALSE
    <3>1. CASE i \in 1 .. Len(timers)
      BY <1>7, <1>13, <2>1, <3>1 DEF Begun, NotTimed
    <3>2. CASE \E k \in 1 .. Len(s) : i = Len(timers) + k
      <4>1. c # 0
        BY DEF Ps, Many!Promises
      <4>2. PICK k \in 1 .. Len(s) : i = Len(timers) + k
        BY <3>2
      <4>3. s[k].child = c
        BY <1>7, <2>1, <4>2
      <4>4. parent[c] = d
        BY <1>4, <4>1, <4>3
      <4> QED BY <1>1, <1>13, <4>4 DEF Begun
    <3> QED BY <1>7, <2>1, <3>1, <3>2
  <2> QED BY <1>11, <2>1 DEF NotTimed
<1> QED BY <1>12, <1>13

\* And the calls of when() are made now.
Heard(d, n, v) == [i \in DOMAIN listeners[d] |-> [listeners[d][i][n] EXCEPT !.arg = v]]

LEMMA SettlingJobs ==
    ASSUME ThenInv, NEW d, NEW o, NEW v, Settling(d, o, v), jobs # <<>>, NEW n \in {1, 2},
           jobs' = Heard(d, n, v) \o Tail(jobs)
    PROVE  JobsInv'
<1>1. Moves /\ d \in Ps /\ Valued(v)
  BY SettlingMoves DEF Settling
<1>2. PICK s, t : s = Heard(d, n, v) /\ t = Tail(jobs)
  OBVIOUS
<1>3. IsSeq(t) /\ AllFree(t)
  BY <1>2, FirstJob DEF ThenInv, PendingInv
<1>4. /\ IsSeq(s) /\ Len(s) = Len(listeners[d])
      /\ \A i \in 1 .. Len(s) : s[i] = [listeners[d][i][n] EXCEPT !.arg = v]
  <2>1. Len(listeners[d]) \in Nat /\ DOMAIN listeners[d] = 1 .. Len(listeners[d])
    BY <1>1, SeqFacts DEF Moves, PromisesInv, PromiseTypes
  <2>2. s = [i \in 1 .. Len(listeners[d]) |-> [listeners[d][i][n] EXCEPT !.arg = v]]
    BY <1>2, <2>1 DEF Heard
  <2>3. \A i \in 1 .. Len(listeners[d]) : s[i] = [listeners[d][i][n] EXCEPT !.arg = v]
    BY <2>2
  <2>4. s = [i \in 1 .. Len(listeners[d]) |-> s[i]]
    BY <2>2
  <2>5. IsSeq(s) /\ Len(s) = Len(listeners[d])
    BY <2>1, <2>4, SeqFunction
  <2> QED BY <2>3, <2>5
<1>5. ASSUME NEW i \in 1 .. Len(s) PROVE FreeJob(s[i])
  <2>1. PICK l, j : l = listeners[d][i] /\ j = s[i]
    OBVIOUS
  <2>2. ListenerOK(l)
    BY <1>1, <1>4, <2>1 DEF ThenInv, PendingInv, ListenersInv
  <2>3. j = [l[n] EXCEPT !.arg = v]
    BY <1>4, <2>1
  <2>4. FreeJob(j)
    BY <1>1, <2>2, <2>3, ListenerCall
  <2> QED BY <2>1, <2>4
<1>6. AllFree(s)' /\ AllFree(t)'
  BY <1>1, <1>3, <1>5, FreeStays DEF AllFree
<1>7. jobs' = s \o t
  BY <1>2
<1> QED BY <1>1, <1>3, <1>4, <1>6, <1>7, FreeJobs

\* The first call, to settle d.
LEMMA SettleCall ==
    ASSUME ThenInv, jobs # <<>>, NEW j, j = Head(jobs), j.job = "settle"
    PROVE  /\ j.target \in 1 .. count /\ j.outcome \in {"resolved", "rejected"} /\ Valued(j.arg)
           /\ parent[j.target] # 0 => Spent(j.target) /\ SettleOK(j.target, j.outcome, j.arg)
<1>1. FreeJob(j) \/ ChildJob(j)
  BY FirstJob DEF ThenInv, PendingInv
<1>2. CASE FreeJob(j)
  BY <1>2 DEF FreeJob
<1>3. CASE ChildJob(j)
  BY <1>3, Parented DEF ChildJob, ThenInv
<1> QED BY <1>1, <1>2, <1>3

LEMMA SettleKeeps == ThenInv /\ Many!Settle => ThenInv'
<1> SUFFICES ASSUME ThenInv, Many!Settle PROVE ThenInv'
  OBVIOUS
<1>1. PICK j, d : j = Head(jobs) /\ d = j.target
  OBVIOUS
<1>2. jobs # <<>> /\ j.job = "settle"
  BY <1>1 DEF Many!Settle, Many!Job
<1>3. CASE Settled(d)
  <2>1. QuietCall /\ jobs' = Tail(jobs)
    BY <1>1, <1>3 DEF Many!Settle, Settled, QuietCall, Quiet, Registered, Many!whens
  <2>2. Moves /\ JobsInv
    BY <2>1, QuietKeeps DEF QuietCall, ThenInv, PendingInv
  <2>3. JobsInv'
    BY <1>2, <2>1, <2>2, RestJobs
  <2> QED BY <2>1, <2>3, QuietCallKeeps
<1>4. CASE ~Settled(d)
  <2>1. PICK o, v, n : o = j.outcome /\ v = j.arg /\ n = IF o = "resolved" THEN 1 ELSE 2
    OBVIOUS
  <2>2. /\ state' = [state EXCEPT ![d] = o] /\ val' = [val EXCEPT ![d] = v]
        /\ timers' = timers \o [i \in DOMAIN reactions[d] |-> Many!Process(reactions[d][i], o, v)]
        /\ jobs' = Heard(d, n, v) \o Tail(jobs)
        /\ UNCHANGED <<count, maxDepth, parent, following, given, reactions, listeners, current>>
    BY <1>1, <1>4, <2>1 DEF Many!Settle, Settled, Many!whens, Heard
  <2>3. Settling(d, o, v) /\ n \in {1, 2}
    BY <1>1, <1>2, <1>4, <2>1, <2>2, SettleCall DEF Settling
  <2>4. Moves /\ PromisesInv'
    BY <2>3, SettlingMoves
  <2>5. TimersInv' /\ \A c \in Ps : Begun(c) => NotTimed(c)'
    BY <2>2, <2>3, SettlingTimers
  <2>6. JobsInv'
    BY <1>2, <2>2, <2>3, SettlingJobs
  <2>7. ReactionsInv' /\ ListenersInv'
    BY <2>2, <2>4, ReactionsKept, ListenersKept
  <2>8. CurrentInv'
    <3>1. ASSUME NEW c \in Ps, Fresh(c), ~Spent(c) PROVE Fresh(c)'
      <4>1. c # d
        BY <2>3, <3>1 DEF Settling, Fresh
      <4>2. state'[c] = state[c]
        BY <2>2, <4>1 DEF ThenInv, PromisesInv, PromiseTypes
      <4> QED BY <2>2, <3>1, <4>2 DEF Fresh, Settled
    <3>2. 1 .. count \subseteq Ps
      BY Counts DEF ThenInv, PromisesInv
    <3> QED BY <2>2, <2>4, <2>5, <3>1, <3>2, CurrentKept
  <2> QED BY <2>4, <2>5, <2>6, <2>7, <2>8 DEF ThenInv, PendingInv
<1> QED BY <1>3, <1>4

-----------------------------------------------------------------------------
(* A reaction is registered.                                               *)

\* With a new child, or none.
Reacting(d, r) ==
    /\ d \in Ps /\ Many!React(d, r)
    /\ UNCHANGED <<state, val, listeners, given, current>>
    /\ r[1] = 0 \/ (r[1] \in Ps /\ parent[r[1]] = 0 /\ r[1] \notin 1 .. count)

LEMMA ReactTypes ==
    ASSUME PromiseTypes, NEW d, NEW r, Reacting(d, r)
    PROVE  /\ DOMAIN reactions' = Ps
           /\ \A e \in Ps : IsSeq(reactions'[e])
           /\ \A e \in Ps : e # d => reactions'[e] = reactions[e]
           /\ Len(reactions[d]) \in Nat /\ Len(reactions'[d]) = Len(reactions[d]) + 1
           /\ \A i \in 1 .. Len(reactions[d]) : reactions'[d][i] = reactions[d][i]
           /\ reactions'[d][Len(reactions[d]) + 1] = r
<1>1. /\ d \in Ps /\ DOMAIN reactions = Ps /\ \A e \in Ps : IsSeq(reactions[e])
      /\ reactions' = [reactions EXCEPT ![d] = Append(reactions[d], r)]
  BY DEF PromiseTypes, Reacting, Many!React
<1>2. /\ DOMAIN reactions' = Ps /\ reactions'[d] = Append(reactions[d], r)
      /\ \A e \in Ps : e # d => reactions'[e] = reactions[e]
  BY <1>1
<1>3. IsSeq(reactions[d])
  BY <1>1
<1>4. /\ IsSeq(reactions'[d]) /\ Len(reactions'[d]) = Len(reactions[d]) + 1
      /\ \A i \in 1 .. Len(reactions[d]) : reactions'[d][i] = reactions[d][i]
      /\ reactions'[d][Len(reactions[d]) + 1] = r
      /\ Len(reactions[d]) \in Nat
  BY <1>2, <1>3, SeqAppend, SeqFacts
<1>5. \A e \in Ps : IsSeq(reactions'[e])
  BY <1>1, <1>2, <1>4
<1> QED BY <1>2, <1>4, <1>5

LEMMA ReactingReactions ==
    ASSUME ThenInv, Moves, NEW d, NEW r, Reacting(d, r), ReactionOK(d, r)'
    PROVE  ReactionsInv'
<1>0. d \in Ps /\ PromisesInv /\ PromiseTypes
  BY DEF Reacting, ThenInv, PromisesInv
<1>1. /\ \A e \in Ps : e # d => reactions'[e] = reactions[e]
      /\ Len(reactions[d]) \in Nat /\ Len(reactions'[d]) = Len(reactions[d]) + 1
      /\ \A i \in 1 .. Len(reactions[d]) : reactions'[d][i] = reactions[d][i]
      /\ reactions'[d][Len(reactions[d]) + 1] = r
  BY <1>0, ReactTypes
<1>2. ASSUME NEW e \in Ps, NEW i \in 1 .. Len(reactions[e]), NEW x, x = reactions[e][i]
      PROVE  ReactionOK(e, x) /\ ReactionOK(e, x)'
  <2>1. ReactionOK(e, x)
    BY <1>2 DEF ThenInv, PendingInv, ReactionsInv
  <2> QED BY <2>1, ReactionOnward
<1>3. ASSUME NEW i \in 1 .. Len(reactions[d]), r[1] # 0 PROVE reactions[d][i][1] # r[1]
  <2>1. PICK x : x = reactions[d][i]
    OBVIOUS
  <2>2. ReactionOK(d, x)
    BY <1>0, <1>2, <2>1
  <2>3. x[1] = 0 \/ (x[1] \in Ps /\ parent[x[1]] = d)
    BY <2>2 DEF ReactionOK, ChildReaction, FollowReaction
  <2>4. d # 0 /\ parent[r[1]] = 0
    BY <1>0, <1>3 DEF Reacting, Ps, Many!Promises
  <2> QED BY <1>3, <2>1, <2>3, <2>4
<1>4. PICK q : q = reactions'
  OBVIOUS
<1>5. ASSUME NEW e \in Ps PROVE (\A i \in 1 .. Len(q[e]) : ReactionOK(e, q[e][i])') /\ Distinct(q[e])
  <2>1. CASE e # d
    <3>1. q[e] = reactions[e]
      BY <1>1, <1>4, <2>1
    <3>2. Distinct(reactions[e])
      BY DEF ThenInv, PendingInv, ReactionsInv
    <3>3. ASSUME NEW i \in 1 .. Len(q[e]) PROVE ReactionOK(e, q[e][i])'
      <4>1. PICK x : x = q[e][i]
        OBVIOUS
      <4>2. ReactionOK(e, x)'
        BY <1>2, <3>1, <4>1
      <4> QED BY <4>1, <4>2
    <3> QED BY <3>1, <3>2, <3>3
  <2>2. CASE e = d
    <3>1. \A i \in 1 .. Len(q[d]) : i \in 1 .. Len(reactions[d]) \/ i = Len(reactions[d]) + 1
      BY <1>1, <1>4
    <3>2. ASSUME NEW i \in 1 .. Len(q[d]) PROVE ReactionOK(d, q[d][i])'
      <4>1. PICK x : x = q[d][i]
        OBVIOUS
      <4>2. CASE i \in 1 .. Len(reactions[d])
        <5>1. x = reactions[d][i]
          BY <1>1, <1>4, <4>1, <4>2
        <5>2. ReactionOK(d, x)'
          BY <1>0, <1>2, <4>2, <5>1
        <5> QED BY <4>1, <5>2
      <4>3. CASE i = Len(reactions[d]) + 1
        <5>1. x = r
          BY <1>1, <1>4, <4>1, <4>3
        <5> QED BY <4>1, <5>1
      <4> QED BY <3>1, <4>2, <4>3
    <3>3. Distinct(reactions[d])
      BY <1>0 DEF ThenInv, PendingInv, ReactionsInv
    <3>4. ASSUME NEW i \in 1 .. Len(q[d]), NEW j \in 1 .. Len(q[d]),
                 q[d][i][1] = q[d][j][1], q[d][i][1] # 0
          PROVE  i = j
      <4>1. CASE i \in 1 .. Len(reactions[d]) /\ j \in 1 .. Len(reactions[d])
        BY <1>1, <1>4, <3>3, <3>4, <4>1 DEF Distinct
      <4>2. CASE i \in 1 .. Len(reactions[d]) /\ j = Len(reactions[d]) + 1
        <5>1. q[d][i] = reactions[d][i] /\ q[d][j] = r
          BY <1>1, <1>4, <4>2
        <5> QED BY <1>3, <3>4, <4>2, <5>1
      <4>3. CASE i = Len(reactions[d]) + 1 /\ j \in 1 .. Len(reactions[d])
        <5>1. q[d][j] = reactions[d][j] /\ q[d][i] = r
          BY <1>1, <1>4, <4>3
        <5> QED BY <1>3, <3>4, <4>3, <5>1
      <4>4. CASE i = Len(reactions[d]) + 1 /\ j = Len(reactions[d]) + 1
        BY <4>4
      <4> QED BY <3>1, <4>1, <4>2, <4>3, <4>4
    <3>5. Distinct(q[d])
      BY <3>4 DEF Distinct
    <3> QED BY <2>2, <3>2, <3>5
  <2> QED BY <2>1, <2>2
<1>6. \A e \in Ps : Distinct(q[e])'
  BY <1>5 DEF Distinct
<1> QED BY <1>4, <1>5, <1>6 DEF ReactionsInv

\* Its process is a timer at once if the promise has settled.
LEMMA ReactingTimers ==
    ASSUME ThenInv, Moves, NEW d, NEW r, Reacting(d, r), ReactionOK(d, r)', r[1] # 0 => Fresh(r[1])'
    PROVE  TimersInv' /\ \A c \in 1 .. count : NotTimed(c) => NotTimed(c)'
<1>0. /\ d \in Ps /\ PromisesInv /\ PromiseTypes /\ state' = state /\ val' = val
      /\ timers' = IF ~Settled(d) THEN timers
                   ELSE Append(timers, Many!Process(r, state[d], val[d]))
  BY DEF Reacting, ThenInv, PromisesInv, Many!React, Settled
<1>1. CASE ~Settled(d)
  BY <1>0, <1>1, TimersKept
<1>2. CASE Settled(d)
  <2>1. PICK o, v, t : o = state[d] /\ v = val[d] /\ t = Many!Process(r, o, v)
    OBVIOUS
  <2>2. o \in {"resolved", "rejected"} /\ Valued(v)'
    <3>1. PromiseOK(d) /\ o \in {"resolved", "rejected"}
      BY <1>0, <1>2, <2>1 DEF PromisesInv, PromiseTypes, Settled
    <3>2. Valued(v)
      BY <1>2, <2>1, <3>1 DEF PromiseOK
    <3> QED BY <3>1, <3>2, ValuedOnward
  <2>3. TimerOK(t)' /\ t.child = r[1]
    BY <1>0, <2>1, <2>2, Processed
  <2>4. IsSeq(timers)
    BY DEF ThenInv, PendingInv, TimersInv
  <2>5. PICK q : q = Append(timers, t)
    OBVIOUS
  <2>6. /\ IsSeq(q) /\ Len(q) = Len(timers) + 1 /\ Len(timers) \in Nat
        /\ \A i \in 1 .. Len(timers) : q[i] = timers[i]
        /\ q[Len(timers) + 1] = t
    BY <2>4, <2>5, SeqAppend, SeqFacts
  <2>7. \A i \in 1 .. Len(q) : i \in 1 .. Len(timers) \/ i = Len(timers) + 1
    BY <2>6
  <2>8. ASSUME NEW i \in 1 .. Len(q) PROVE TimerOK(q[i])'
    <3>1. PICK x : x = q[i]
      OBVIOUS
    <3>2. CASE i \in 1 .. Len(timers)
      <4>1. x = timers[i]
        BY <2>6, <3>1, <3>2
      <4>2. TimerOK(x)'
        BY <3>2, <4>1, TimerKept
      <4> QED BY <3>1, <4>2
    <3>3. CASE i = Len(timers) + 1
      BY <2>3, <2>6, <3>3
    <3> QED BY <2>7, <3>2, <3>3
  <2>9. ASSUME NEW i \in 1 .. Len(timers), r[1] # 0 PROVE timers[i].child # r[1]
    <3>1. TimerOK(timers[i])
      BY DEF ThenInv, PendingInv, TimersInv
    <3> QED BY <2>9, <3>1 DEF TimerOK, ChildTimer, FollowTimer, Fresh, Reacting
  <2>10. \A i, j \in 1 .. Len(timers) :
            timers[i].child = timers[j].child /\ timers[i].child # 0 => i = j
    BY DEF ThenInv, PendingInv, TimersInv
  <2>11. \A i, j \in 1 .. Len(q) : q[i].child = q[j].child /\ q[i].child # 0 => i = j
    BY <2>3, <2>6, <2>7, <2>9, <2>10
  <2>12. timers' = q
    BY <1>0, <1>2, <2>1, <2>5
  <2>13. TimersInv'
    BY <2>6, <2>8, <2>11, <2>12 DEF TimersInv
  <2>14. ASSUME NEW c \in 1 .. count, NotTimed(c) PROVE NotTimed(c)'
    <3>1. c # r[1]
      <4>1. c # 0
        BY <1>0, Counts
      <4> QED BY <4>1 DEF Reacting
    <3>2. \A i \in 1 .. Len(q) : q[i].child # c
      BY <2>3, <2>6, <2>7, <2>14, <3>1 DEF NotTimed
    <3> QED BY <2>12, <3>2 DEF NotTimed
  <2> QED BY <2>13, <2>14
<1> QED BY <1>1, <1>2

\* All together; what is left are the calls.
LEMMA ReactingKeeps ==
    ASSUME ThenInv, Moves, PromisesInv', NEW d, NEW r, Reacting(d, r), ReactionOK(d, r)',
           r[1] # 0 => Fresh(r[1])', \A c \in Ps : Fresh(c) /\ ~Spent(c) => Fresh(c)', JobsInv'
    PROVE  ThenInv'
<1>1. ReactionsInv'
  BY ReactingReactions
<1>2. TimersInv' /\ \A c \in 1 .. count : NotTimed(c) => NotTimed(c)'
  BY ReactingTimers
<1>3. listeners' = listeners /\ current' = current /\ given' = given
  BY DEF Reacting
<1>4. ListenersInv'
  BY <1>3, ListenersKept
<1>5. CurrentInv'
  BY <1>2, <1>3, CurrentKept DEF Begun
<1> QED BY <1>1, <1>2, <1>4, <1>5 DEF ThenInv, PendingInv

-----------------------------------------------------------------------------
(* A child goes deeper.                                                    *)

\* c, whose turn has come, is resolved to x.
Deepening(c, x) ==
    /\ c \in Ps /\ parent[c] # 0 /\ Begun(c)
    /\ maxDepth' = [maxDepth EXCEPT ![c] = maxDepth[c] + 1]
    /\ DOMAIN following' = Ps /\ following'[c] = x
    /\ \A p \in Ps : p # c => following'[p] = following[p]
    /\ given' = given \/ (given' = given \cup {c} /\ maxDepth[c] = 0 /\ x = <<"thenable", 1>>)
    /\ ~Settled(c) /\ x # <<>> /\ x[1] = "promise" => x[2] \in Ps
    /\ Settled(c) => x = following[c]
    /\ UNCHANGED <<count, state, val, parent, listeners>>

LEMMA DeepeningMoves ==
    ASSUME ThenInv, NEW c, NEW x, Deepening(c, x), DOMAIN reactions' = Ps,
           \A e \in Ps : IsSeq(reactions'[e])
    PROVE  Moves /\ PromisesInv'
<1>1. PromisesInv /\ PromiseTypes /\ c \in Ps /\ maxDepth[c] \in Nat
  BY DEF ThenInv, PromisesInv, PromiseTypes, Deepening
<1>2. /\ maxDepth'[c] = maxDepth[c] + 1 /\ following'[c] = x /\ DOMAIN following' = Ps
      /\ \A p \in Ps : p # c => maxDepth'[p] = maxDepth[p] /\ following'[p] = following[p]
      /\ maxDepth' \in [Ps -> Nat]
      /\ count' = count /\ state' = state /\ val' = val /\ parent' = parent /\ listeners' = listeners
  BY <1>1 DEF PromiseTypes, Deepening
<1>3. PromiseTypes'
  BY <1>1, <1>2 DEF PromiseTypes
<1>4. ASSUME NEW p \in Ps, Fresh(p) PROVE Fresh(p)' \/ Begun(p)
  BY <1>2, <1>4 DEF Fresh, Settled, Deepening
<1>5. Moves
  <2>1. \A p \in Ps : maxDepth[p] \in Nat /\ maxDepth[p] <= maxDepth'[p]
    BY <1>1, <1>2 DEF PromiseTypes
  <2>2. count \in Nat
    BY <1>1, Counts
  <2>3. maxDepth'[c] # maxDepth[c]
    BY <1>1, <1>2
  <2> QED BY <1>1, <1>2, <1>3, <1>4, <2>1, <2>2, <2>3 DEF Moves, Onward
<1>6. ASSUME NEW p \in Ps PROVE PromiseOK(p)'
  <2>1. PromiseOK(p)
    BY <1>1 DEF PromisesInv
  <2>2. (Settled(p)' <=> Settled(p)) /\ (Settled(parent[p])' <=> Settled(parent[p]))
    BY <1>2 DEF Settled
  <2>3. Valued(val[p])' <=> Valued(val[p])
    BY <1>2 DEF Valued
  <2>4. CASE p # c
    <3>1. (Follows(p)' <=> Follows(p)) /\ (p \in given' <=> p \in given)
      BY <1>2, <2>4 DEF Follows, Deepening
    <3> QED BY <1>2, <2>1, <2>2, <2>3, <2>4, <3>1 DEF PromiseOK
  <2>5. CASE p = c
    <3>1. c <= count /\ count \in Nat
      BY <1>1, Parented, Counts DEF Deepening
    <3>2. Follows(c)' => following'[c][2] \in Ps
      BY <1>2, <2>1, <2>5 DEF Follows, Deepening, PromiseOK
    <3>3. maxDepth'[c] # 0 /\ parent[c] # 0 /\ Settled(parent[c])
      BY <1>1, <1>2 DEF Deepening, Begun
    <3>4. c \in given' => (~Settled(c)' /\ maxDepth'[c] = 1 => following'[c] = <<"thenable", 1>>)
      BY <1>1, <1>2, <2>1, <2>5 DEF Deepening, PromiseOK
    <3>5. c > count' => FALSE
      BY <1>1, <1>2, <3>1 DEF Ps, Many!Promises
    <3> QED BY <1>2, <2>1, <2>2, <2>3, <2>5, <3>2, <3>3, <3>4, <3>5 DEF PromiseOK
  <2> QED BY <2>4, <2>5
<1>7. given' \subseteq Ps
  BY <1>1 DEF Deepening, PromisesInv
<1> QED BY <1>3, <1>5, <1>6, <1>7 DEF PromisesInv

\* A call returns a promise for its child.
LEMMA ReturnCall ==
    ASSUME ThenInv, jobs # <<>>, NEW j, j = Head(jobs), j.job = "return", j.arg[1] = "promise"
    PROVE  /\ j.target \in Ps /\ parent[j.target] # 0 /\ Spent(j.target)
           /\ Told(j.target, "resolved", j.arg)
           /\ j.arg[2] \in 1 .. count /\ j.arg = Many!PromiseOf(j.arg[2])
<1>1. FreeJob(j) \/ ChildJob(j)
  BY FirstJob DEF ThenInv, PendingInv
<1> QED BY <1>1 DEF FreeJob, ChildJob, Valued

LEMMA ReturnPromiseKeeps == ThenInv /\ Many!ReturnPromise => ThenInv'
<1> SUFFICES ASSUME ThenInv, Many!ReturnPromise PROVE ThenInv'
  OBVIOUS
<1>1. PICK j, c, d, k : /\ j = Head(jobs) /\ c = j.target /\ d = j.arg[2] /\ k = maxDepth[c] + 1
  OBVIOUS
<1>2. PICK r : r = <<0, <<"resolve", c, k>>, <<"reject", c, k>> >>
  OBVIOUS
<1>3. /\ jobs # <<>> /\ j.job = "return" /\ j.arg[1] = "promise" /\ jobs' = Tail(jobs)
      /\ maxDepth' = [maxDepth EXCEPT ![c] = k]
      /\ following' = IF ~Settled(c) THEN [following EXCEPT ![c] = j.arg] ELSE following
      /\ Many!React(d, r)
      /\ UNCHANGED <<count, state, val, listeners, current, given, parent>>
  BY <1>1, <1>2 DEF Many!ReturnPromise, Many!Job, Many!Nobody, Settled, Many!unsettled, Many!whens
<1>4. /\ c \in Ps /\ parent[c] # 0 /\ Spent(c) /\ d \in 1 .. count /\ j.arg = Many!PromiseOf(d)
      /\ d \in Ps /\ PromiseTypes
  BY <1>1, <1>3, ReturnCall, Counts DEF ThenInv, PromisesInv
<1>5. Reacting(d, r)
  BY <1>2, <1>3, <1>4 DEF Reacting
<1>6. DOMAIN reactions' = Ps /\ \A e \in Ps : IsSeq(reactions'[e])
  BY <1>4, <1>5, ReactTypes
<1>7. PICK x : x = IF ~Settled(c) THEN j.arg ELSE following[c]
  OBVIOUS
<1>8. Deepening(c, x)
  <2>1. /\ DOMAIN following' = Ps /\ following'[c] = x
        /\ \A p \in Ps : p # c => following'[p] = following[p]
    BY <1>3, <1>4, <1>7 DEF PromiseTypes
  <2>2. ~Settled(c) => x = j.arg /\ x[2] \in Ps
    BY <1>4, <1>7 DEF Many!PromiseOf
  <2> QED BY <1>1, <1>3, <1>4, <1>7, <2>1, <2>2 DEF Deepening, Spent
<1>9. Moves /\ PromisesInv'
  BY <1>6, <1>8, DeepeningMoves
<1>10. ReactionOK(d, r)'
  <2>1. maxDepth[c] \in Nat /\ maxDepth'[c] = k
    BY <1>3, <1>4 DEF PromiseTypes
  <2>2. k \in 1 .. maxDepth'[c]
    BY <1>1, <2>1
  <2>3. ~Settled(c)' => following'[c] = Many!PromiseOf(d)
    BY <1>3, <1>4 DEF Settled, PromiseTypes
  <2>4. FollowReaction(d, r)'
    BY <1>2, <1>4, <2>2, <2>3 DEF FollowReaction, Many!PromiseOf
  <2> QED BY <2>4 DEF ReactionOK
<1>11. ASSUME NEW p \in Ps, Fresh(p), ~Spent(p) PROVE Fresh(p)'
  <2>1. p # c
    BY <1>4, <1>11
  <2>2. maxDepth'[p] = maxDepth[p]
    BY <1>3, <1>4, <2>1 DEF PromiseTypes
  <2> QED BY <1>3, <1>11, <2>2 DEF Fresh, Settled
<1>12. JobsInv'
  BY <1>3, <1>9, RestJobs DEF ThenInv, PendingInv
<1>13. r[1] = 0
  BY <1>2
<1> QED BY <1>5, <1>9, <1>10, <1>11, <1>12, <1>13, ReactingKeeps

LEMMA HandlerReturnsThenableKeeps == ThenInv /\ Many!HandlerReturnsThenable => ThenInv'
<1> SUFFICES ASSUME ThenInv, Many!HandlerReturnsThenable PROVE ThenInv'
  OBVIOUS
<1>1. PICK c : c = current.of
  OBVIOUS
<1>2. /\ current # Idle /\ current.code = "handler" /\ jobs' = <<>>
      /\ maxDepth' = [maxDepth EXCEPT ![c] = maxDepth[c] + 1]
      /\ following' = [following EXCEPT ![c] = <<"thenable", maxDepth[c] + 1>>]
      /\ current' = [code |-> "thenable", of |-> c, depth |-> maxDepth[c] + 1]
      /\ given' = given \cup {c}
      /\ UNCHANGED <<count, state, val, listeners, reactions, timers, parent>>
  BY <1>1 DEF Many!HandlerReturnsThenable, Many!unsettled
<1>3. Fresh(c) /\ Begun(c) /\ maxDepth[c] = 0 /\ c \in Ps /\ parent[c] # 0 /\ ~Settled(c)
  BY <1>1, <1>2 DEF ThenInv, PendingInv, CurrentInv, Begun, Fresh
<1>4. Deepening(c, <<"thenable", 1>>)
  BY <1>2, <1>3 DEF Deepening, ThenInv, PromisesInv, PromiseTypes
<1>5. Moves /\ PromisesInv'
  <2>1. DOMAIN reactions = Ps /\ \A e \in Ps : IsSeq(reactions[e])
    BY DEF ThenInv, PromisesInv, PromiseTypes
  <2> QED BY <1>2, <1>4, <2>1, DeepeningMoves
<1>6. ReactionsInv' /\ TimersInv' /\ ListenersInv' /\ JobsInv'
  BY <1>2, <1>5, ReactionsKept, TimersKept, ListenersKept, NoJob
<1>7. CurrentInv'
  BY <1>2, <1>3 DEF CurrentInv
<1> QED BY <1>5, <1>6, <1>7 DEF ThenInv, PendingInv

-----------------------------------------------------------------------------
(* A new promise.                                                          *)

\* Made by then() on d, or by when().
Growing(d) ==
    /\ count < MaxPromises /\ count' = count + 1
    /\ d \in 0 .. count
    /\ parent' = [parent EXCEPT ![count + 1] = d]
    /\ UNCHANGED <<state, val, maxDepth, following, given>>

LEMMA Growth ==
    ASSUME ThenInv, NEW d, Growing(d), NEW m, m = count + 1
    PROVE  /\ m \in Ps /\ m \notin 1 .. count /\ parent[m] = 0 /\ parent'[m] = d
           /\ ~Settled(m)' /\ maxDepth'[m] = 0
           /\ \A p \in Ps : p # m => parent'[p] = parent[p]
           /\ \A p \in Ps : Fresh(p) => Fresh(p)'
<1>1. PromisesInv /\ PromiseTypes /\ count \in Nat /\ MaxPromises \in Nat /\ Ps = 1 .. MaxPromises
  BY Counts DEF ThenInv, PromisesInv
<1>2. m \in Ps /\ m \notin 1 .. count /\ m > count
  BY <1>1 DEF Growing
<1>3. /\ parent'[m] = d
      /\ \A p \in Ps : p # m => parent'[p] = parent[p]
  BY <1>1, <1>2 DEF Growing, PromiseTypes
<1>4. parent[m] = 0 /\ ~Settled(m)' /\ maxDepth'[m] = 0
  <2>1. PromiseOK(m)
    BY <1>1, <1>2 DEF PromisesInv
  <2> QED BY <1>2, <2>1 DEF PromiseOK, Settled, Growing
<1>5. \A p \in Ps : Fresh(p) => Fresh(p)'
  BY <1>3, <1>4 DEF Fresh, Settled, Growing
<1> QED BY <1>2, <1>3, <1>4, <1>5

LEMMA GrowingMoves ==
    ASSUME ThenInv, NEW d, Growing(d),
           DOMAIN reactions' = Ps, DOMAIN listeners' = Ps,
           \A e \in Ps : IsSeq(reactions'[e]) /\ IsSeq(listeners'[e])
    PROVE  Moves /\ PromisesInv'
<1>1. /\ PromisesInv /\ PromiseTypes /\ count \in Nat /\ MaxPromises \in Nat /\ Ps = 1 .. MaxPromises
      /\ Roots \in Nat /\ Roots <= count
  BY Counts DEF ThenInv, PromisesInv
<1>2. PICK m : m = count + 1
  OBVIOUS
<1>3. /\ m \in Ps /\ m \notin 1 .. count /\ parent[m] = 0 /\ parent'[m] = d
      /\ ~Settled(m)' /\ maxDepth'[m] = 0
      /\ \A p \in Ps : p # m => parent'[p] = parent[p]
      /\ \A p \in Ps : Fresh(p) => Fresh(p)'
  BY <1>2, Growth
<1>4. /\ count' = m /\ state' = state /\ val' = val /\ maxDepth' = maxDepth
      /\ following' = following /\ given' = given /\ d \in 0 .. count
  BY <1>2 DEF Growing
<1>5. PromiseTypes'
  <2>1. count' \in Roots .. MaxPromises
    BY <1>1, <1>2, <1>4 DEF Growing
  <2>2. parent' \in [Ps -> 0 .. MaxPromises]
    <3>1. d \in 0 .. MaxPromises
      BY <1>1, <1>4 DEF Growing
    <3> QED BY <1>1, <3>1 DEF Growing, PromiseTypes
  <2> QED BY <1>1, <1>4, <2>1, <2>2 DEF PromiseTypes
<1>6. Moves
  <2>1. \A p \in Ps : maxDepth[p] \in Nat
    BY <1>1 DEF PromiseTypes
  <2>2. count <= count' /\ \A p \in 1 .. count : p \in Ps /\ p # m
    BY <1>1, <1>2, <1>3, <1>4, Counts
  <2> QED BY <1>1, <1>3, <1>4, <1>5, <2>1, <2>2 DEF Moves, Onward
<1>7. ASSUME NEW p \in Ps PROVE PromiseOK(p)'
  <2>1. PromiseOK(p) /\ p \in Nat
    BY <1>1 DEF PromisesInv
  <2>2. /\ Settled(p)' <=> Settled(p)
        /\ Follows(p)' <=> Follows(p)
        /\ \A e : Settled(e)' <=> Settled(e)
    BY <1>4 DEF Settled, Follows
  <2>3. Settled(p) => Valued(val[p])'
    BY <1>4, <1>6, <2>1, ValuedOnward DEF PromiseOK
  <2>4. CASE p # m
    <3>1. parent'[p] = parent[p] /\ (p > count' => p > count)
      BY <1>1, <1>2, <1>3, <1>4, <2>1, <2>4
    <3>2. parent[p] # 0 => p > Roots /\ parent[p] \in 1 .. count'
      BY <1>1, <1>2, <1>4, <2>1 DEF PromiseOK
    <3>3. maxDepth[p] # 0 => Settled(parent[p])'
      BY <2>1, <2>2, <3>1 DEF PromiseOK, Settled
    <3> QED BY <1>4, <2>1, <2>2, <2>3, <3>1, <3>2, <3>3 DEF PromiseOK
  <2>5. CASE p = m
    <3>1. m > Roots /\ ~(m > count') /\ d # 0 => d \in 1 .. count'
      BY <1>1, <1>2, <1>4
    <3>2. maxDepth[m] = 0 /\ following[m] = <<>> /\ m \notin given /\ ~Follows(m)
      BY <1>3, <1>4, <2>1, <2>5 DEF PromiseOK, Follows
    <3>3. m > Roots /\ ~(m > count')
      BY <1>1, <1>2, <1>4
    <3> QED BY <1>3, <1>4, <2>2, <2>5, <3>1, <3>2, <3>3 DEF PromiseOK
  <2> QED BY <2>4, <2>5
<1>8. given' \subseteq Ps
  BY <1>1, <1>4 DEF PromisesInv
<1> QED BY <1>5, <1>6, <1>7, <1>8 DEF PromisesInv

LEMMA ThenCallKeeps == ThenInv /\ Many!ThenCall => ThenInv'
<1> SUFFICES ASSUME ThenInv, Many!ThenCall PROVE ThenInv'
  OBVIOUS
<1>1. PICK m : m = count + 1
  OBVIOUS
<1>2. PICK d \in 1 .. count, handlers \in { << <<"user">>, <<"user">> >>, << <<"identity">>, <<"thrower">> >> } :
        /\ Many!React(d, <<m>> \o handlers)
        /\ parent' = [parent EXCEPT ![m] = d]
  BY <1>1 DEF Many!ThenCall
<1>3. PICK r : r = <<m>> \o handlers
  OBVIOUS
<1>4. /\ r[1] = m
      /\ \/ r[2] = <<"user">> /\ r[3] = <<"user">>
         \/ r[2] = <<"identity">> /\ r[3] = <<"thrower">>
  <2>1. ASSUME NEW a, NEW b PROVE /\ (<<m>> \o <<a, b>>)[1] = m
                                  /\ (<<m>> \o <<a, b>>)[2] = a /\ (<<m>> \o <<a, b>>)[3] = b
    OBVIOUS
  <2>2. \/ r = <<m>> \o << <<"user">>, <<"user">> >>
        \/ r = <<m>> \o << <<"identity">>, <<"thrower">> >>
    BY <1>2, <1>3
  <2> QED BY <2>1, <2>2
<1>5. /\ count < MaxPromises /\ count' = count + 1 /\ jobs = <<>>
      /\ UNCHANGED <<state, val, listeners, maxDepth, jobs, current, given, following>>
  BY DEF Many!ThenCall, Many!UserCode, Many!unsettled, Many!whens
<1>6. PromiseTypes /\ d \in Ps /\ d # 0 /\ count \in Nat
  BY Counts DEF ThenInv, PromisesInv
<1>7. Growing(d)
  BY <1>1, <1>2, <1>5, <1>6 DEF Growing
<1>8. /\ m \in Ps /\ m \notin 1 .. count /\ parent[m] = 0 /\ parent'[m] = d
      /\ ~Settled(m)' /\ maxDepth'[m] = 0 /\ \A p \in Ps : Fresh(p) => Fresh(p)'
  BY <1>1, <1>7, Growth
<1>9. Reacting(d, r)
  BY <1>2, <1>3, <1>4, <1>5, <1>6, <1>8 DEF Reacting
<1>10. DOMAIN reactions' = Ps /\ \A e \in Ps : IsSeq(reactions'[e])
  BY <1>6, <1>9, ReactTypes
<1>11. Moves /\ PromisesInv'
  <2>1. DOMAIN listeners' = Ps /\ \A e \in Ps : IsSeq(listeners'[e])
    BY <1>5, <1>6 DEF PromiseTypes
  <2> QED BY <1>7, <1>10, <2>1, GrowingMoves
<1>12. Fresh(m)'
  BY <1>6, <1>8 DEF Fresh
<1>13. ReactionOK(d, r)'
  BY <1>4, <1>8, <1>12 DEF ReactionOK, ChildReaction
<1>14. JobsInv'
  BY <1>5, NoJob
<1> QED BY <1>4, <1>8, <1>9, <1>11, <1>12, <1>13, <1>14, ReactingKeeps

\* What when() registers, and what it calls at once on a deferred that has
\* settled.
Hearing(m, i) == <<Many!UpdateJob(m, i), Many!SettleJob(m, "rejected", <<>>)>>
AtOnce(m, x, i) ==
    CASE state[x] = "pending" -> <<>>
      [] state[x] = "resolved" -> << [Hearing(m, i)[1] EXCEPT !.arg = val[x]] >>
      [] OTHER -> << [Hearing(m, i)[2] EXCEPT !.arg = val[x]] >>

LEMMA WhenCall ==
    ASSUME ThenInv, Moves, NEW m \in 1 .. count', parent'[m] = 0, UNCHANGED <<state, val>>,
           NEW x \in 1 .. count, NEW i \in {1, 2}, NEW s,
           s = AtOnce(m, x, i)
    PROVE  IsSeq(s) /\ AllFree(s)'
<1>1. x \in Ps /\ PromiseOK(x)
  BY Counts DEF ThenInv, PromisesInv
<1>2. CASE state[x] = "pending"
  <2>1. s = <<>> /\ IsSeq(s) /\ Len(s) = 0
    BY <1>2, SeqShort DEF AtOnce
  <2> QED BY <2>1 DEF AllFree
<1>3. ASSUME Settled(x), NEW j, s = <<j>>, j.target = m, j.arg = val[x],
             j.job = "update" \/ (j.job = "settle" /\ j.outcome = "rejected")
      PROVE  IsSeq(s) /\ AllFree(s)'
  <2>1. PICK v : v = val[x]
    OBVIOUS
  <2>2. Valued(v)'
    BY <1>1, <1>3, <2>1, ValuedOnward DEF PromiseOK
  <2>3. FreeJob(j)'
    BY <1>3, <2>1, <2>2 DEF FreeJob
  <2>4. IsSeq(s) /\ Len(s) = 1 /\ s[1] = j
    BY <1>3, SeqShort
  <2> QED BY <2>3, <2>4 DEF AllFree
<1>4. CASE state[x] = "resolved"
  <2>1. PICK j : j = [Hearing(m, i)[1] EXCEPT !.arg = val[x]]
    OBVIOUS
  <2>2. j.target = m /\ j.arg = val[x] /\ j.job = "update"
    BY <2>1 DEF Hearing, Many!UpdateJob
  <2>3. s = <<j>> /\ Settled(x)
    BY <1>4, <2>1 DEF Settled, AtOnce
  <2> QED BY <1>3, <2>2, <2>3
<1>5. CASE state[x] # "pending" /\ state[x] # "resolved"
  <2>1. PICK j : j = [Hearing(m, i)[2] EXCEPT !.arg = val[x]]
    OBVIOUS
  <2>2. j.target = m /\ j.arg = val[x] /\ j.job = "settle" /\ j.outcome = "rejected"
    BY <2>1 DEF Hearing, Many!SettleJob
  <2>3. s = <<j>> /\ Settled(x)
    BY <1>5, <2>1 DEF Settled, AtOnce
  <2> QED BY <1>3, <2>2, <2>3
<1> QED BY <1>2, <1>4, <1>5

\* A list with one more listener, or none.
Longer(s, a, t) == \A i \in 1 .. Len(t) : (\E k \in 1 .. Len(s) : t[i] = s[k]) \/ t[i] = a

LEMMA OneMore ==
    ASSUME NEW s, IsSeq(s), NEW a, NEW t, t = s \o <<>> \/ t = s \o <<a>>
    PROVE  IsSeq(t) /\ Longer(s, a, t)
<1>1. PICK q : (q = <<>> \/ q = <<a>>) /\ t = s \o q
  OBVIOUS
<1>2. IsSeq(q) /\ (Len(q) = 0 \/ (Len(q) = 1 /\ q[1] = a))
  BY <1>1, SeqShort
<1>3. /\ IsSeq(t)
      /\ \A i \in 1 .. Len(s) : t[i] = s[i]
      /\ \A i \in 1 .. Len(q) : t[Len(s) + i] = q[i]
      /\ \A i \in 1 .. Len(t) : i \in 1 .. Len(s) \/ \E k \in 1 .. Len(q) : i = Len(s) + k
  BY <1>1, <1>2, SeqConcat
<1>4. \A k \in 1 .. Len(q) : q[k] = a
  BY <1>2
<1> QED BY <1>3, <1>4 DEF Longer

LEMMA WhenKeeps == ThenInv /\ Many!When => ThenInv'
<1> SUFFICES ASSUME ThenInv, Many!When PROVE ThenInv'
  OBVIOUS
<1>1. PICK m, one, two : m = count + 1 /\ one = Hearing(m, 1) /\ two = Hearing(m, 2)
  OBVIOUS
<1>2. PICK d \in 1 .. count, e \in 1 .. count :
        /\ listeners' = [x \in Ps |-> listeners[x]
               \o (IF x = e THEN <<two>> ELSE <<>>) \o (IF x = d THEN <<one>> ELSE <<>>)]
        /\ jobs' = AtOnce(m, e, 2) \o AtOnce(m, d, 1)
  <2>1. \E d, e \in 1 .. count :
          /\ listeners' = [x \in Ps |-> listeners[x]
                 \o (IF x = e THEN <<Hearing(count + 1, 2)>> ELSE <<>>)
                 \o (IF x = d THEN <<Hearing(count + 1, 1)>> ELSE <<>>)]
          /\ jobs' = AtOnce(count + 1, e, 2) \o AtOnce(count + 1, d, 1)
    BY Zenon DEF Many!When, Ps, Hearing, AtOnce
  <2> QED BY <1>1, <2>1
<1>3. /\ count < MaxPromises /\ count' = count + 1
      /\ UNCHANGED <<state, val, reactions, maxDepth, timers, current, given, parent, following>>
  BY DEF Many!When
<1>4. PromiseTypes /\ PromisesInv /\ count \in Nat /\ Ps = 1 .. MaxPromises /\ MaxPromises \in Nat
  BY Counts DEF ThenInv, PromisesInv
<1>5. m \in Ps /\ m > count /\ parent[m] = 0 /\ m \in 1 .. count'
  <2>1. m \in Ps /\ m > count /\ m \in 1 .. count'
    BY <1>1, <1>3, <1>4
  <2> QED BY <1>4, <2>1 DEF PromisesInv, PromiseOK
<1>6. Growing(0)
  <2>1. parent' = [parent EXCEPT ![m] = 0]
    BY <1>3, <1>4, <1>5 DEF PromiseTypes
  <2>2. parent' = [parent EXCEPT ![count + 1] = 0] /\ 0 \in 0 .. count
    BY <1>1, <1>4, <2>1
  <2> QED BY <1>3, <2>2 DEF Growing
<1>7. ASSUME NEW x \in Ps
      PROVE  /\ IsSeq(listeners'[x])
             /\ \A i \in 1 .. Len(listeners'[x]) :
                   \/ \E k \in 1 .. Len(listeners[x]) : listeners'[x][i] = listeners[x][k]
                   \/ listeners'[x][i] \in {one, two}
  <2>1. PICK s, t, u : /\ s = listeners[x] /\ t = s \o (IF x = e THEN <<two>> ELSE <<>>)
                       /\ u = t \o (IF x = d THEN <<one>> ELSE <<>>)
    OBVIOUS
  <2>2. listeners'[x] = u
    BY <1>2, <2>1
  <2>3. IsSeq(s)
    BY <1>4, <2>1 DEF PromiseTypes
  <2>4. IsSeq(t) /\ Longer(s, two, t)
    <3>1. t = s \o <<>> \/ t = s \o <<two>>
      BY <2>1
    <3> QED BY <2>3, <3>1, OneMore
  <2>5. IsSeq(u) /\ Longer(t, one, u)
    <3>1. u = t \o <<>> \/ u = t \o <<one>>
      BY <2>1
    <3> QED BY <2>4, <3>1, OneMore
  <2>6. \A i \in 1 .. Len(u) : (\E k \in 1 .. Len(s) : u[i] = s[k]) \/ u[i] \in {one, two}
    BY <2>4, <2>5 DEF Longer
  <2> QED BY <2>1, <2>2, <2>5, <2>6
<1>8. DOMAIN listeners' = Ps
  BY <1>2
<1>9. Moves /\ PromisesInv'
  <2>1. DOMAIN reactions' = Ps /\ \A x \in Ps : IsSeq(reactions'[x])
    BY <1>3, <1>4 DEF PromiseTypes
  <2> QED BY <1>6, <1>7, <1>8, <2>1, GrowingMoves
<1>10. ListenerOK(one)' /\ ListenerOK(two)'
  <2>1. parent'[m] = 0
    BY <1>3, <1>5
  <2> QED BY <1>1, <1>5, <2>1 DEF ListenerOK, Hearing, Many!UpdateJob, Many!SettleJob
<1>11. ListenersInv'
  <2>1. PICK q : q = listeners'
    OBVIOUS
  <2>2. ASSUME NEW x \in Ps, NEW i \in 1 .. Len(q[x]) PROVE ListenerOK(q[x][i])'
    <3>1. PICK l : l = q[x][i]
      OBVIOUS
    <3>2. CASE \E k \in 1 .. Len(listeners[x]) : l = listeners[x][k]
      <4>1. ListenerOK(l)
        BY <3>2 DEF ThenInv, PendingInv, ListenersInv
      <4>2. ListenerOK(l)'
        BY <1>9, <4>1, ListenersOnward
      <4> QED BY <3>1, <4>2
    <3>3. CASE l \in {one, two}
      BY <1>10, <3>1, <3>3
    <3> QED BY <1>7, <2>1, <2>2, <3>1, <3>2, <3>3
  <2> QED BY <2>1, <2>2 DEF ListenersInv
<1>12. JobsInv'
  <2>1. PICK s, t : s = AtOnce(m, e, 2) /\ t = AtOnce(m, d, 1)
    OBVIOUS
  <2>2. parent'[m] = 0
    BY <1>3, <1>5
  <2>3. state' = state /\ val' = val
    BY <1>3
  <2>4. IsSeq(s) /\ AllFree(s)'
    BY <1>5, <1>9, <2>1, <2>2, <2>3, WhenCall
  <2>5. IsSeq(t) /\ AllFree(t)'
    BY <1>5, <1>9, <2>1, <2>2, <2>3, WhenCall
  <2>6. jobs' = s \o t
    BY <1>2, <2>1
  <2> QED BY <1>9, <2>4, <2>5, <2>6, FreeJobs
<1>13. ReactionsInv' /\ TimersInv'
  BY <1>3, <1>9, ReactionsKept, TimersKept
<1>14. CurrentInv'
  <2>1. \A p \in Ps : Fresh(p) => Fresh(p)'
    BY <1>1, <1>6, Growth
  <2>2. \A c : NotTimed(c) => NotTimed(c)'
    BY <1>3, <1>9, TimersKept
  <2> QED BY <1>3, <1>9, <2>1, <2>2, CurrentKept DEF Begun
<1> QED BY <1>9, <1>11, <1>12, <1>13, <1>14 DEF ThenInv, PendingInv

-----------------------------------------------------------------------------
(* The invariant.                                                          *)

LEMMA InitHolds == Many!Init => ThenInv
<1> SUFFICES ASSUME Many!Init PROVE ThenInv
  OBVIOUS
<1>1. /\ count = Roots /\ timers = <<>> /\ jobs = <<>> /\ current = Idle /\ given = {}
      /\ state = [d \in Ps |-> "pending"] /\ val = [d \in Ps |-> <<>>]
      /\ reactions = [d \in Ps |-> <<>>] /\ listeners = [d \in Ps |-> <<>>]
      /\ maxDepth = [d \in Ps |-> 0] /\ parent = [d \in Ps |-> 0]
      /\ following = [d \in Ps |-> <<>>]
  BY DEF Many!Init, Ps
<1>2. IsSeq(<<>>) /\ Len(<<>>) = 0
  BY SeqShort
<1>3. PromiseTypes
  BY <1>1, <1>2, RootsAssumption DEF PromiseTypes
<1>4. \A c \in Ps : PromiseOK(c)
  BY <1>1 DEF PromiseOK, Settled, Follows
<1>5. PromisesInv
  BY <1>1, <1>3, <1>4 DEF PromisesInv
<1>6. ReactionsInv /\ ListenersInv /\ TimersInv /\ JobsInv /\ CurrentInv
  BY <1>1, <1>2 DEF ReactionsInv, ListenersInv, TimersInv, JobsInv, AllFree, CurrentInv, Distinct
<1> QED BY <1>5, <1>6 DEF ThenInv, PendingInv

LEMMA StutterKeeps == ThenInv /\ UNCHANGED Many!vars => ThenInv'
<1> SUFFICES ASSUME ThenInv, UNCHANGED Many!vars PROVE ThenInv'
  OBVIOUS
<1>1. QuietCall /\ jobs' = jobs
  BY DEF Many!vars, QuietCall, Quiet, Registered
<1>2. Moves /\ JobsInv
  BY <1>1, QuietKeeps DEF QuietCall, ThenInv, PendingInv
<1>3. JobsInv'
  <2>1. PICK s : s = jobs
    OBVIOUS
  <2>2. \A j : FreeJob(j)' <=> FreeJob(j)
    BY <1>1, QuietSame DEF QuietCall
  <2>3. ASSUME NEW j, ChildJob(j) PROVE ChildJob(j)'
    <3>1. /\ Spent(j.target)' /\ parent' = parent /\ maxDepth' = maxDepth
          /\ Valued(j.arg)'
      BY <1>1, <2>3, QuietCurrent, QuietSame DEF QuietCall, Quiet, ChildJob
    <3>2. \A o, v : /\ Told(j.target, o, v)' <=> Told(j.target, o, v)
                    /\ SettleOK(j.target, o, v)' <=> SettleOK(j.target, o, v)
      BY <1>1, QuietSame DEF QuietCall
    <3> QED BY <2>3, <3>1, <3>2 DEF ChildJob
  <2>4. IsSeq(s) /\ (AllFree(s) \/ (Len(s) = 1 /\ ChildJob(s[1])))
    BY <1>2, <2>1 DEF JobsInv
  <2>5. AllFree(s) => AllFree(s)'
    BY <2>2 DEF AllFree
  <2>6. ChildJob(s[1]) => \A j : j = s[1] => ChildJob(j)'
    BY <2>3
  <2>7. jobs' = s
    BY <1>1, <2>1
  <2> QED BY <2>4, <2>5, <2>6, <2>7 DEF JobsInv, AllFree
<1> QED BY <1>1, <1>3, QuietCallKeeps

LEMMA StepKeeps == ThenInv /\ [Many!Next]_Many!vars => ThenInv'
<1> SUFFICES ASSUME ThenInv, [Many!Next]_Many!vars PROVE ThenInv'
  OBVIOUS
<1>1. CASE Many!Engine
  BY <1>1, TimerKeeps, SettleKeeps, ResolveKeeps, RejectKeeps, ReturnPlainKeeps,
     ReturnPromiseKeeps, UpdateKeeps DEF Many!Engine
<1>2. CASE Many!Returns
  BY <1>2, HandlerReturnsKeeps, HandlerReturnsThenableKeeps, ThrowsKeeps, ThenableReturnsKeeps
     DEF Many!Returns
<1>3. CASE Many!SettleRoot \/ Many!ThenCall \/ Many!When \/ Many!ThenableCalls
  BY <1>3, SettleRootKeeps, ThenCallKeeps, WhenKeeps, ThenableCallsKeeps
<1>4. CASE UNCHANGED Many!vars
  BY <1>4, StutterKeeps
<1> QED BY <1>1, <1>2, <1>3, <1>4 DEF Many!Next

\* For a promise that nothing has resolved yet there is exactly one thing that
\* will: a reaction, a timer, a handler or a call; of those that an earlier
\* resolution left behind only the ones for the promise it follows now are
\* heard.
THEOREM OneBegins == Many!Spec => []ThenInv
<1>1. Many!Init => ThenInv
  BY InitHolds
<1>2. ThenInv /\ [Many!Next]_Many!vars => ThenInv'
  BY StepKeeps
<1> QED BY <1>1, <1>2, PTL DEF Many!Spec

-----------------------------------------------------------------------------
(* The refinement.                                                         *)

LEMMA SettleRefines ==
    ASSUME ThenInv, Many!Settle
    PROVE  Many!APlus!Next \/ UNCHANGED Many!APlus!vars
<1>1. PICK j, d, o, v : j = Head(jobs) /\ d = j.target /\ o = j.outcome /\ v = j.arg
  OBVIOUS
<1>2. jobs # <<>> /\ j.job = "settle"
  BY <1>1 DEF Many!Settle, Many!Job
<1>3. /\ d \in 1 .. count /\ o \in {"resolved", "rejected"} /\ Valued(v)
      /\ parent[d] # 0 => SettleOK(d, o, v)
  BY <1>1, <1>2, SettleCall
<1>4. PromisesInv /\ PromiseTypes /\ d \in Ps /\ PromiseOK(d)
  BY <1>3, Counts DEF ThenInv, PromisesInv
<1>5. CASE Settled(d)
  BY <1>1, <1>5 DEF Many!Settle, Settled, Many!APlus!vars
<1>6. CASE ~Settled(d)
  <2>1. /\ state' = [state EXCEPT ![d] = o] /\ val' = [val EXCEPT ![d] = v]
        /\ following' = following /\ state[d] = "pending" /\ val'[d] = v
    BY <1>1, <1>4, <1>6 DEF Many!Settle, Settled, PromiseTypes
  <2>2. Many!APlus!Settle(d, o)
    BY <2>1 DEF Many!APlus!Settle
  <2>3. CASE ~Follows(d)
    <3>1. Many!APlus!Decide(d)
      BY <1>3, <2>2, <2>3 DEF Follows, Many!APlus!Decide, Many!APlus!FollowsPromise
    <3> QED BY <1>4, <3>1 DEF Many!APlus!Next, Ps
  <2>4. CASE Follows(d)
    <3>1. PICK q : q = following[d][2]
      OBVIOUS
    <3>2. SettleOK(d, o, v)
      BY <1>3, <1>4, <2>4 DEF PromiseOK, Follows
    <3>3. \/ state[q] = o /\ val[q] = v /\ (o = "resolved" => v[1] # "promise")
          \/ o = "rejected" /\ state[q] = "resolved" /\ val[q] = <<"promise", d>>
      BY <1>6, <2>4, <3>1, <3>2 DEF SettleOK, Many!PromiseOf
    <3>4. Many!APlus!Adopt(d)
      BY <1>3, <2>1, <2>2, <2>4, <3>1, <3>3
         DEF Follows, Many!APlus!Adopt, Many!APlus!FollowsPromise
    <3> QED BY <1>4, <3>4 DEF Many!APlus!Next, Ps
  <2> QED BY <2>3, <2>4
<1> QED BY <1>5, <1>6

LEMMA ReturnPromiseRefines ==
    ASSUME ThenInv, Many!ReturnPromise
    PROVE  Many!APlus!Next \/ UNCHANGED Many!APlus!vars
<1>1. PICK j, c, d : j = Head(jobs) /\ c = j.target /\ d = j.arg[2]
  OBVIOUS
<1>2. /\ jobs # <<>> /\ j.job = "return" /\ j.arg[1] = "promise" /\ j.arg # Many!PromiseOf(c)
      /\ following' = IF ~Settled(c) THEN [following EXCEPT ![c] = j.arg] ELSE following
      /\ state' = state /\ val' = val
  BY <1>1 DEF Many!ReturnPromise, Many!Job, Settled, Many!unsettled
<1>3. /\ c \in Ps /\ d \in Ps /\ j.arg = <<"promise", d>> /\ d # c
      /\ Told(c, "resolved", j.arg)
  <2>1. 1 .. count \subseteq Ps
    BY Counts DEF ThenInv, PromisesInv
  <2> QED BY <1>1, <1>2, <2>1, ReturnCall DEF Many!PromiseOf
<1>4. CASE Settled(c)
  BY <1>2, <1>4 DEF Many!APlus!vars
<1>5. CASE ~Settled(c)
  <2>1. Many!APlus!Follow(c, <<"promise", d>>)
    BY <1>2, <1>3, <1>5 DEF Settled, Many!APlus!Follow
  <2>2. CASE ~Follows(c)
    <3>1. Many!APlus!Decide(c)
      BY <1>3, <2>1, <2>2 DEF Follows, Many!APlus!Decide, Many!APlus!FollowsPromise, Ps
    <3> QED BY <1>3, <3>1 DEF Many!APlus!Next, Ps
  <2>3. CASE Follows(c)
    <3>1. PICK q : q = following[c][2]
      OBVIOUS
    <3>2. state[q] = "resolved" /\ val[q] = <<"promise", d>>
      BY <1>3, <1>5, <2>3, <3>1 DEF Told
    <3>3. val[q][1] = "promise" /\ val[q][2] = d
      BY <3>2
    <3>4. Many!APlus!Adopt(c)
      BY <1>3, <2>1, <2>3, <3>1, <3>2, <3>3
         DEF Follows, Many!APlus!Adopt, Many!APlus!FollowsPromise
    <3> QED BY <1>3, <3>4 DEF Many!APlus!Next, Ps
  <2> QED BY <2>2, <2>3
<1> QED BY <1>4, <1>5

LEMMA ThenableRefines ==
    ASSUME ThenInv, Many!HandlerReturnsThenable
    PROVE  Many!APlus!Next
<1>1. PICK c : c = current.of
  OBVIOUS
<1>2. /\ current # Idle /\ current.code = "handler"
      /\ following' = [following EXCEPT ![c] = <<"thenable", maxDepth[c] + 1>>]
      /\ state' = state /\ val' = val
  BY <1>1 DEF Many!HandlerReturnsThenable, Many!unsettled
<1>3. Fresh(c)
  BY <1>1, <1>2 DEF ThenInv, PendingInv, CurrentInv
<1>4. c \in Ps /\ maxDepth[c] = 0 /\ state[c] = "pending" /\ following[c] = <<>>
  BY <1>3, FreshFollowsNothing DEF ThenInv, Fresh, Settled
<1>5. Many!APlus!Follow(c, <<"thenable", 1>>)
  BY <1>2, <1>4 DEF Many!APlus!Follow
<1>6. Many!APlus!Decide(c)
  BY <1>4, <1>5 DEF Many!APlus!Decide, Many!APlus!FollowsPromise
<1> QED BY <1>4, <1>6 DEF Many!APlus!Next, Ps

LEMMA StepRefines ==
    ASSUME ThenInv, [Many!Next]_Many!vars
    PROVE  [Many!APlus!Next]_Many!APlus!vars
<1>1. CASE Many!Settle
  BY <1>1, SettleRefines
<1>2. CASE Many!ReturnPromise
  BY <1>2, ReturnPromiseRefines
<1>3. CASE Many!HandlerReturnsThenable
  BY <1>3, ThenableRefines
<1>4. CASE Many!Timer \/ Many!Resolve \/ Many!Reject \/ Many!ReturnPlain \/ Many!Update
  BY <1>4 DEF Many!Timer, Many!Resolve, Many!Reject, Many!ReturnPlain, Many!Update,
     Many!unsettled, Many!APlus!vars
<1>5. CASE Many!HandlerReturns \/ Many!Throws \/ Many!ThenableReturns
  BY <1>5 DEF Many!HandlerReturns, Many!Throws, Many!ThenableReturns, Many!unsettled, Many!APlus!vars
<1>6. CASE Many!SettleRoot \/ Many!ThenCall \/ Many!When \/ Many!ThenableCalls
  BY <1>6 DEF Many!SettleRoot, Many!ThenCall, Many!When, Many!ThenableCalls, Many!unsettled,
     Many!APlus!vars
<1>7. CASE UNCHANGED Many!vars
  BY <1>7 DEF Many!vars, Many!APlus!vars
<1> QED BY <1>1, <1>2, <1>3, <1>4, <1>5, <1>6, <1>7 DEF Many!Next, Many!Engine, Many!Returns

\* then() and when() keep the rules of Promises/A+: a promise settles once; one
\* that was resolved to another follows it whatever else happens, settles as
\* it does and never follows itself; of a thenable the first call counts.
THEOREM PromisesImplemented == Many!Spec => ImplementsPromises
<1>1. Many!Init => Many!APlus!Init
  BY DEF Many!Init, Many!APlus!Init
<1>2. ThenInv /\ [Many!Next]_Many!vars => [Many!APlus!Next]_Many!APlus!vars
  BY StepRefines
<1>3. Many!Spec => []ThenInv
  BY OneBegins
<1> QED BY <1>1, <1>2, <1>3, PTL DEF Many!Spec, ImplementsPromises, Many!ImplementsPromises, Many!APlus!Spec

-----------------------------------------------------------------------------
(* The callback list.  First two facts about numbers, which stand in for   *)
(* induction.                                                              *)

\* A set of numbers has a least one.
LEMMA LeastNumber ==
    ASSUME NEW S, S \subseteq Nat, S # {}
    PROVE  \E n \in S : \A m \in S : n <= m
<1> DEFINE R == {ij \in Nat \X Nat : ij[1] < ij[2]}
<1>1. R = {ij \in Nat \X Nat : ij[1] < ij[2]}
  OBVIOUS
<1>2. IsWellFoundedOn(R, Nat)
  BY <1>1, NatLessThanWellFounded DEF OpToRel
<1>3. PICK n \in S : \A m \in S : ~(<<m, n>> \in R)
  BY <1>2, WFMin
<1>4. ASSUME NEW m \in S PROVE n <= m
  <2>1. <<m, n>> \in Nat \X Nat
    OBVIOUS
  <2>2. m < n => <<m, n>> \in R
    BY <1>1, <2>1
  <2> QED BY <1>3, <2>2
<1> QED BY <1>4

\* A set that holds 0, and n + 1 with n, holds every number up to a bound.
LEMMA UpTo ==
    ASSUME NEW L \in Nat, NEW S, 0 \in S,
           \A n \in 0 .. L - 1 : n \in S => n + 1 \in S
    PROVE  0 .. L \subseteq S
<1> DEFINE Bad == (0 .. L) \ S
<1> SUFFICES ASSUME Bad # {} PROVE FALSE
  OBVIOUS
<1>0. Bad \subseteq Nat
  OBVIOUS
<1>1. PICK n \in Bad : \A m \in Bad : n <= m
  BY <1>0, LeastNumber
<1>2. n # 0 /\ n \in Nat /\ n <= L /\ n \notin S
  BY <1>1
<1>3. n - 1 \in S
  <2>1. n - 1 \in 0 .. L /\ ~(n <= n - 1)
    BY <1>2
  <2> QED BY <1>1, <2>1
<1> QED BY <1>2, <1>3

-----------------------------------------------------------------------------
(* Taking a callback off a list.                                           *)

\* What is left of the first n of a list, for each n up to m.
Leaves(list, fn, m, left) ==
    /\ left[0] = <<>>
    /\ \A n \in 1 .. m :
           left[n] = IF list[n] = fn THEN left[n - 1] ELSE Append(left[n - 1], list[n])

LEMMA LeavesExists ==
    ASSUME NEW S, NEW list \in Seq(S), NEW fn
    PROVE  \E left : left \in [0 .. Len(list) -> Seq(S)] /\ Leaves(list, fn, Len(list), left)
<1> DEFINE L == Len(list)
           P == {m \in 0 .. L : \E left \in [0 .. L -> Seq(S)] : Leaves(list, fn, m, left)}
<1>0. L \in Nat /\ \A n \in 1 .. L : list[n] \in S
  BY LenProperties
<1> HIDE DEF L
<1>1. 0 \in P
  <2>1. [n \in 0 .. L |-> <<>>] \in [0 .. L -> Seq(S)]
    BY EmptySeq
  <2>2. Leaves(list, fn, 0, [n \in 0 .. L |-> <<>>])
    BY <1>0 DEF Leaves
  <2>3. 0 \in 0 .. L
    BY <1>0
  <2> QED BY <2>1, <2>2, <2>3
<1>2. ASSUME NEW m \in 0 .. L - 1, m \in P PROVE m + 1 \in P
  <2>1. PICK left \in [0 .. L -> Seq(S)] : Leaves(list, fn, m, left)
    BY <1>2
  <2> DEFINE x == IF list[m + 1] = fn THEN left[m] ELSE Append(left[m], list[m + 1])
             next == [left EXCEPT ![m + 1] = x]
  <2>2. m + 1 \in 1 .. L /\ m \in 0 .. L
    BY <1>0
  <2>3. x \in Seq(S)
    BY <1>0, <2>2, AppendProperties
  <2> HIDE DEF x
  <2>4. next \in [0 .. L -> Seq(S)] /\ next[m + 1] = x /\ \A n \in 0 .. m : next[n] = left[n]
    BY <1>0, <2>2, <2>3
  <2>5. Leaves(list, fn, m + 1, next)
    <3>1. next[0] = <<>>
      BY <2>1, <2>4 DEF Leaves
    <3>2. ASSUME NEW n \in 1 .. m + 1
          PROVE  next[n] = IF list[n] = fn THEN next[n - 1] ELSE Append(next[n - 1], list[n])
      <4>1. next[n - 1] = left[n - 1]
        BY <2>4
      <4>2. CASE n = m + 1
        BY <2>4, <4>1, <4>2 DEF x
      <4>3. CASE n # m + 1
        <5>1. n \in 1 .. m
          BY <4>3
        <5>2. next[n] = left[n]
          BY <2>4, <5>1
        <5> QED BY <2>1, <4>1, <5>1, <5>2 DEF Leaves
      <4> QED BY <4>2, <4>3
    <3> QED BY <3>1, <3>2 DEF Leaves
  <2> HIDE DEF next
  <2>6. m + 1 \in 0 .. L
    BY <2>2
  <2> QED BY <2>4, <2>5, <2>6
<1>3. 0 .. L \subseteq P
  <2> HIDE DEF P
  <2> QED BY <1>0, <1>1, <1>2, UpTo
<1> QED BY <1>0, <1>3 DEF L

LEMMA WithoutLeaves ==
    ASSUME NEW S, NEW list \in Seq(S), NEW fn
    PROVE  \E left \in [0 .. Len(list) -> Seq(S)] :
               Leaves(list, fn, Len(list), left) /\ Without(list, fn) = left[Len(list)]
<1> DEFINE Body(h) == [j \in 0 .. Len(list) |->
               IF j = 0 THEN <<>>
               ELSE IF list[j] = fn THEN h[j - 1] ELSE Append(h[j - 1], list[j])]
           left == CHOOSE h : h = Body(h)
<1>0. Len(list) \in Nat
  BY LenProperties
<1>1. PICK h \in [0 .. Len(list) -> Seq(S)] : Leaves(list, fn, Len(list), h)
  BY LeavesExists
<1>2. h = Body(h)
  <2>1. ASSUME NEW j \in 0 .. Len(list)
        PROVE  h[j] = IF j = 0 THEN <<>>
                      ELSE IF list[j] = fn THEN h[j - 1] ELSE Append(h[j - 1], list[j])
    <3>1. CASE j = 0
      BY <1>1, <3>1 DEF Leaves
    <3>2. CASE j # 0
      <4>1. j \in 1 .. Len(list)
        BY <1>0, <3>2
      <4> QED BY <1>1, <3>2, <4>1 DEF Leaves
    <3> QED BY <3>1, <3>2
  <2>2. h = [j \in 0 .. Len(list) |-> h[j]]
    BY <1>1
  <2> QED BY <2>1, <2>2
<1>3. left = Body(left)
  <2> HIDE DEF Body
  <2> QED BY <1>2
<1>4. Without(list, fn) = left[Len(list)]
  BY DEF Without
<1> HIDE DEF left
<1>5. left = [j \in 0 .. Len(list) |->
                IF j = 0 THEN <<>>
                ELSE IF list[j] = fn THEN left[j - 1] ELSE Append(left[j - 1], list[j])]
  BY <1>3
<1> HIDE DEF Body
<1>6. Leaves(list, fn, Len(list), left)
  <2>1. left[0] = <<>>
    BY <1>0, <1>5
  <2>2. ASSUME NEW n \in 1 .. Len(list)
        PROVE  left[n] = IF list[n] = fn THEN left[n - 1] ELSE Append(left[n - 1], list[n])
    <3>1. n \in 0 .. Len(list) /\ n # 0
      BY <1>0
    <3> QED BY <1>5, <3>1
  <2> QED BY <2>1, <2>2 DEF Leaves
<1>7. 0 .. Len(list) \subseteq {n \in 0 .. Len(list) : left[n] \in Seq(S)}
  <2> DEFINE Q == {n \in 0 .. Len(list) : left[n] \in Seq(S)}
  <2>1. 0 \in Q
    <3>1. left[0] = <<>>
      BY <1>6 DEF Leaves
    <3>2. 0 \in 0 .. Len(list) /\ left[0] \in Seq(S)
      BY <1>0, <3>1, EmptySeq
    <3> QED BY <3>2
  <2>2. ASSUME NEW n \in 0 .. Len(list) - 1, n \in Q PROVE n + 1 \in Q
    <3>1. n + 1 \in 1 .. Len(list) /\ n + 1 \in 0 .. Len(list) /\ (n + 1) - 1 = n
      BY <1>0
    <3>2. list[n + 1] \in S /\ left[n] \in Seq(S)
      BY <2>2, <3>1, ElementOfSeq
    <3>3. left[n + 1] = IF list[n + 1] = fn THEN left[n] ELSE Append(left[n], list[n + 1])
      BY <1>6, <3>1 DEF Leaves
    <3>4. left[n + 1] \in Seq(S)
      BY <3>2, <3>3, AppendProperties
    <3> QED BY <3>1, <3>4
  <2> HIDE DEF Q
  <2>3. 0 .. Len(list) \subseteq Q
    BY <1>0, <2>1, <2>2, UpTo
  <2> QED BY <2>3 DEF Q
<1>8. left \in [0 .. Len(list) -> Seq(S)]
  BY <1>5, <1>7
<1> QED BY <1>4, <1>6, <1>8

\* How many of the first p places fn stands at.
Occurs(list, fn, p) == {i \in 1 .. p : list[i] = fn}

LEMMA OccursCount ==
    ASSUME NEW list, NEW fn, NEW p \in Nat
    PROVE  /\ Cardinality(Occurs(list, fn, p)) \in 0 .. p
           /\ Cardinality(Occurs(list, fn, p + 1)) =
                  Cardinality(Occurs(list, fn, p)) + (IF list[p + 1] = fn THEN 1 ELSE 0)
           /\ IsFiniteSet(Occurs(list, fn, p))
<1>1. IsFiniteSet(1 .. p) /\ Cardinality(1 .. p) = p
  BY FS_Interval
<1>2. Occurs(list, fn, p) \subseteq 1 .. p
  BY DEF Occurs
<1>3. /\ IsFiniteSet(Occurs(list, fn, p))
      /\ Cardinality(Occurs(list, fn, p)) <= p /\ Cardinality(Occurs(list, fn, p)) \in Nat
  BY <1>1, <1>2, FS_Subset, FS_CardinalityType
<1>4. CASE list[p + 1] = fn
  <2>1. /\ Occurs(list, fn, p + 1) = Occurs(list, fn, p) \cup {p + 1}
        /\ p + 1 \notin Occurs(list, fn, p)
    BY <1>4 DEF Occurs
  <2> QED BY <1>3, <1>4, <2>1, FS_AddElement
<1>5. CASE list[p + 1] # fn
  <2>1. Occurs(list, fn, p + 1) = Occurs(list, fn, p)
    BY <1>5 DEF Occurs
  <2> QED BY <1>3, <1>5, <2>1
<1> QED BY <1>3, <1>4, <1>5

LEMMA AppendAfter ==
    ASSUME NEW S, NEW s \in Seq(S), NEW t \in Seq(S), NEW x \in S
    PROVE  s \o Append(t, x) = Append(s \o t, x)
<1>1. Append(t, x) = t \o <<x>>
  BY AppendIsConcat
<1>2. s \o t \in Seq(S)
  BY ConcatProperties
<1>3. Append(s \o t, x) = (s \o t) \o <<x>>
  BY <1>2, AppendIsConcat
<1>4. <<x>> \in Seq(S)
  OBVIOUS
<1>5. (s \o t) \o <<x>> = s \o (t \o <<x>>)
  BY <1>4, ConcatAssociative
<1> QED BY <1>1, <1>3, <1>5, Zenon

\* What is left of the first p places, and after it what is left of the others.
LEMMA WithoutSplits ==
    ASSUME NEW S, NEW list \in Seq(S), NEW fn, NEW p \in 0 .. Len(list)
    PROVE  LET after == SubSeq(list, p + 1, Len(list))
           IN  \E front \in Seq(S) :
                   /\ Without(after, fn) \in Seq(S)
                   /\ Without(list, fn) = front \o Without(after, fn)
                   /\ Len(front) = p - Cardinality(Occurs(list, fn, p))
<1> DEFINE L == Len(list)
           after == SubSeq(list, p + 1, L)
<1>1. PICK left \in [0 .. L -> Seq(S)] : Leaves(list, fn, L, left) /\ Without(list, fn) = left[L]
  BY WithoutLeaves
<1>2. L \in Nat /\ p \in Nat /\ p <= L /\ \A n \in 1 .. L : list[n] \in S
  BY LenProperties
<1> HIDE DEF L
<1>3. /\ after \in Seq(S) /\ Len(after) = L - p
      /\ \A i \in 1 .. L - p : after[i] = list[p + i]
  <2>1. \A i \in p + 1 .. L : list[i] \in S
    BY <1>2
  <2>2. /\ after \in Seq(S) /\ Len(after) = IF p + 1 <= L THEN L - (p + 1) + 1 ELSE 0
        /\ \A i \in 1 .. L - (p + 1) + 1 : after[i] = list[(p + 1) + i - 1]
    BY <1>2, <2>1, SubSeqProperties
  <2> HIDE DEF after
  <2>3. L - (p + 1) + 1 = L - p /\ (IF p + 1 <= L THEN L - (p + 1) + 1 ELSE 0) = L - p
    BY <1>2
  <2>4. ASSUME NEW i \in 1 .. L - p PROVE after[i] = list[p + i]
    <3>1. (p + 1) + i - 1 = p + i
      BY <1>2
    <3> QED BY <2>2, <2>3, <3>1
  <2> QED BY <2>2, <2>3, <2>4
<1> HIDE DEF after
<1>4. PICK right \in [0 .. L - p -> Seq(S)] :
          Leaves(after, fn, L - p, right) /\ Without(after, fn) = right[L - p]
  <2>1. \E right \in [0 .. Len(after) -> Seq(S)] :
            Leaves(after, fn, Len(after), right) /\ Without(after, fn) = right[Len(after)]
    <3>1. \A l \in Seq(S) : \E h \in [0 .. Len(l) -> Seq(S)] :
              Leaves(l, fn, Len(l), h) /\ Without(l, fn) = h[Len(l)]
      BY WithoutLeaves
    <3> QED BY <1>3, <3>1
  <2> QED BY <1>3, <2>1, Zenon
<1> DEFINE Counted(n) == Len(left[n]) = n - Cardinality(Occurs(list, fn, n))
           Q == {n \in 0 .. p : Counted(n)}
           K == {k \in 0 .. L - p : left[p + k] = left[p] \o right[k]}
<1>5. 0 \in Q
  <2>1. Occurs(list, fn, 0) = {}
    BY DEF Occurs
  <2>2. left[0] = <<>>
    BY <1>1 DEF Leaves
  <2>3. Len(left[0]) = 0 /\ Cardinality(Occurs(list, fn, 0)) = 0
    BY <2>1, <2>2, FS_EmptySet, EmptySeq
  <2> QED BY <1>2, <2>3
<1>6. ASSUME NEW n \in 0 .. p - 1, n \in Q PROVE n + 1 \in Q
  <2>1. n + 1 \in 1 .. L /\ n + 1 \in 0 .. p /\ n \in 0 .. L /\ n \in Nat /\ (n + 1) - 1 = n
    BY <1>2
  <2>2. left[n] \in Seq(S) /\ list[n + 1] \in S /\ Len(left[n]) \in Nat
    BY <1>1, <1>2, <2>1, LenProperties
  <2>3. left[n + 1] = IF list[n + 1] = fn THEN left[n] ELSE Append(left[n], list[n + 1])
    BY <1>1, <2>1 DEF Leaves
  <2>4. Len(left[n + 1]) = Len(left[n]) + (IF list[n + 1] = fn THEN 0 ELSE 1)
    <3>1. CASE list[n + 1] = fn
      BY <2>2, <2>3, <3>1
    <3>2. CASE list[n + 1] # fn
      <4>1. Len(Append(left[n], list[n + 1])) = Len(left[n]) + 1
        BY <2>2, AppendProperties
      <4> QED BY <2>3, <3>2, <4>1
    <3> QED BY <3>1, <3>2
  <2>5. /\ Cardinality(Occurs(list, fn, n + 1)) =
              Cardinality(Occurs(list, fn, n)) + (IF list[n + 1] = fn THEN 1 ELSE 0)
        /\ Cardinality(Occurs(list, fn, n)) \in 0 .. n
    BY <2>1, OccursCount
  <2>6. Len(left[n]) = n - Cardinality(Occurs(list, fn, n))
    BY <1>6
  <2> HIDE DEF Q
  <2>7. Counted(n + 1)
    BY <2>1, <2>4, <2>5, <2>6
  <2> HIDE DEF Counted
  <2> QED BY <2>1, <2>7 DEF Q
<1>7. Len(left[p]) = p - Cardinality(Occurs(list, fn, p))
  <2> HIDE DEF Q
  <2>1. 0 .. p \subseteq Q
    BY <1>2, <1>5, <1>6, UpTo
  <2>2. p \in Q
    BY <1>2, <2>1
  <2> QED BY <2>2 DEF Q
<1>8. left[p] \in Seq(S) /\ L - p \in Nat
  BY <1>1, <1>2
<1>9. 0 \in K
  <2>1. right[0] = <<>> /\ p + 0 = p /\ 0 \in 0 .. L - p
    BY <1>2, <1>4 DEF Leaves
  <2>2. left[p] \o <<>> = left[p]
    BY <1>8, ConcatEmptySeq
  <2> QED BY <2>1, <2>2
<1>10. ASSUME NEW k \in 0 .. (L - p) - 1, k \in K PROVE k + 1 \in K
  <2>1. /\ k + 1 \in 1 .. L - p /\ k + 1 \in 0 .. L - p /\ k \in 0 .. L - p /\ (k + 1) - 1 = k
        /\ p + (k + 1) \in 1 .. L /\ (p + (k + 1)) - 1 = p + k
    BY <1>2
  <2> DEFINE x == list[p + (k + 1)]
  <2>2. right[k + 1] = IF x = fn THEN right[k] ELSE Append(right[k], x)
    BY <1>3, <1>4, <2>1 DEF Leaves
  <2>3. left[p + (k + 1)] = IF x = fn THEN left[p + k] ELSE Append(left[p + k], x)
    BY <1>1, <2>1 DEF Leaves
  <2>4. right[k] \in Seq(S) /\ x \in S /\ left[p + k] = left[p] \o right[k]
    BY <1>2, <1>4, <1>10, <2>1
  <2> HIDE DEF x
  <2>5. left[p] \o Append(right[k], x) = Append(left[p] \o right[k], x)
    <3>1. left[p] \in Seq(S) /\ right[k] \in Seq(S) /\ x \in S
      BY <1>8, <2>4
    <3>2. \A u, v \in Seq(S) : \A e \in S : u \o Append(v, e) = Append(u \o v, e)
      BY AppendAfter
    <3> QED BY <3>1, <3>2, Zenon
  <2>6. left[p + (k + 1)] = left[p] \o right[k + 1]
    BY <2>2, <2>3, <2>4, <2>5
  <2> QED BY <2>1, <2>6
<1>11. left[L] = left[p] \o right[L - p]
  <2> HIDE DEF K
  <2>1. 0 .. L - p \subseteq K
    BY <1>8, <1>9, <1>10, UpTo
  <2>2. L - p \in K /\ p + (L - p) = L
    BY <1>2, <2>1
  <2> QED BY <2>2 DEF K
<1>12. right[L - p] \in Seq(S)
  BY <1>4, <1>8
<1> QED BY <1>1, <1>4, <1>7, <1>8, <1>11, <1>12 DEF after, L

-----------------------------------------------------------------------------
(* What a list is, and the invariant.                                      *)

Lists ==
    [options : OptionSets, list : Seq(Fns), spent : BOOLEAN, memory : Nat \cup {NoValue},
     firing : BOOLEAN, locked : BOOLEAN, queue : Seq(Nat), firingIndex : Int, within : BOOLEAN]

ListTypes ==
    /\ self \in Lists /\ inFire \in BOOLEAN /\ emptied \in BOOLEAN
    /\ calls \in 0 .. MaxCalls /\ hearing \in 0 .. calls

\* Where fire() is.  A callback that threw has left it in the inner loop.
TurnInv ==
    /\ inFire => self.firing
    /\ running # NoFn => inFire /\ self.within
    /\ self.firing => inFire \/ self.within
    /\ ~self.firing => ~self.within /\ self.queue = <<>>

\* Between two executions firingIndex is back, or an add has set it and what is
\* next is the last one again.
IndexInv ==
    /\ self.firingIndex >= -1
    /\ ~self.within => \/ self.firingIndex = -1
                       \/ self.queue # <<>> /\ self.queue[1] = hearing
    /\ running # NoFn /\ ~emptied => self.firingIndex + 1 <= Len(self.list)

\* The pending executions are in their order, and none is over.
QueueInv ==
    /\ \A i \in 1 .. Len(self.queue) :
           /\ self.queue[i] \in 1 .. calls /\ self.queue[i] >= hearing
           /\ self.within => self.queue[i] > hearing
    /\ \A i, j \in 1 .. Len(self.queue) : i < j => self.queue[i] < self.queue[j]

\* What is remembered is the last execution.  It is forgotten under a running
\* execution when nobody is left to hear it.
MemoryInv ==
    /\ self.memory \in {NoValue, hearing}
    /\ self.memory # NoValue => hearing >= 1
    /\ self.within /\ self.memory = NoValue =>
           /\ self.firingIndex + 1 >= Len(self.list)
           /\ (inFire /\ running = NoFn) \/ (self.spent /\ self.list = <<>>)

ListInv == ListTypes /\ TurnInv /\ IndexInv /\ QueueInv /\ MemoryInv

-----------------------------------------------------------------------------
(* The steps of Subscribers, in terms of the list.                         *)

Ahead == IF inFire /\ self.within THEN Rest ELSE <<>>
Late ==
    IF inFire /\ ~self.within /\ self.queue # <<>> /\ Head(self.queue) = hearing
    THEN Rest ELSE <<>>

Step == [Promised!Next]_(Promised!vars)

LEMMA AsBefore ==
    ASSUME self'.list = self.list, Ahead' = Ahead, Late' = Late,
           UNCHANGED <<hearing, running, emptied>>
    PROVE  Step
BY DEF Step, Promised!vars, Ahead, Late

LEMMA AsBegins ==
    ASSUME NEW v \in 1 .. MaxCalls, Ahead = <<>>, running = NoFn,
           \/ v > hearing /\ Ahead' = self.list
           \/ v = hearing /\ Ahead' = Late,
           hearing' = v, Late' = <<>>, emptied' = FALSE, self'.list = self.list,
           running' = running
    PROVE  Step
<1>1. Promised!Begins(v)
  BY DEF Promised!Begins, Ahead, Late
<1> QED BY <1>1 DEF Step, Promised!Next

LEMMA AsHears ==
    ASSUME Ahead # <<>>, running = NoFn, running' = Head(Ahead), Ahead' = Tail(Ahead),
           self'.list = self.list, Late' = Late, UNCHANGED <<hearing, emptied>>
    PROVE  Step
<1>1. Promised!Hears
  BY DEF Promised!Hears, Ahead, Late
<1> QED BY <1>1 DEF Step, Promised!Next

LEMMA AsEnds ==
    ASSUME running # NoFn, running' = NoFn, Ahead' \in {Ahead, <<>>},
           self'.list = self.list, Late' = Late, UNCHANGED <<hearing, emptied>>
    PROVE  Step
<1>1. Promised!Ends
  BY DEF Promised!Ends, Ahead, Late
<1> QED BY <1>1 DEF Step, Promised!Next

LEMMA AsJoins ==
    ASSUME NEW fn \in Fns, self'.list = Append(self.list, fn),
           \/ running = NoFn /\ Ahead' = Ahead /\ Late' \in {<<>>, <<fn>>}
           \/ running # NoFn /\ Ahead' = Append(Ahead, fn) /\ Late' = Late
           \/ emptied /\ Ahead' = Ahead /\ Late' = Late,
           UNCHANGED <<hearing, running, emptied>>
    PROVE  Step
<1>1. Promised!Joins(fn)
  BY DEF Promised!Joins, Ahead, Late
<1> QED BY <1>1 DEF Step, Promised!Next

LEMMA AsLeaves ==
    ASSUME NEW fn \in Fns, self'.list = Without(self.list, fn), Ahead' = Without(Ahead, fn),
           Late' = Late, UNCHANGED <<hearing, running, emptied>>
    PROVE  Step
<1>1. \A l : Promised!Without(l, fn) = Without(l, fn)
  BY DEF Promised!Without, Without
<1>2. Promised!Leaves(fn)
  BY <1>1 DEF Promised!Leaves, Ahead, Late
<1> QED BY <1>2 DEF Step, Promised!Next

LEMMA AsEmpties ==
    ASSUME self'.list = <<>>, Ahead' = <<>>, Late' = <<>>, emptied' = TRUE,
           UNCHANGED <<hearing, running>>
    PROVE  Step
<1>1. Promised!Empties
  BY DEF Promised!Empties, Ahead, Late
<1> QED BY <1>1 DEF Step, Promised!Next

\* Nothing is left of nothing.
LEMMA WithoutNothing ==
    ASSUME NEW fn
    PROVE  Without(<<>>, fn) = <<>>
<1>1. <<>> \in Seq({}) /\ Len(<<>>) = 0
  BY EmptySeq
<1>2. PICK left : Leaves(<<>>, fn, Len(<<>>), left) /\ Without(<<>>, fn) = left[Len(<<>>)]
  BY <1>1, WithoutLeaves
<1> QED BY <1>1, <1>2 DEF Leaves

-----------------------------------------------------------------------------
(* Who is behind the callback at index k of a list.                        *)

Behind(l, k) == SubSeq(l, k + 2, Len(l))

LEMMA BehindIs ==
    ASSUME NEW S, NEW l \in Seq(S), NEW k \in Int, k >= -1
    PROVE  /\ Len(l) \in Nat /\ Behind(l, k) \in Seq(S)
           /\ Len(Behind(l, k)) = IF k + 1 <= Len(l) THEN Len(l) - k - 1 ELSE 0
           /\ \A i \in 1 .. Len(l) - k - 1 : Behind(l, k)[i] = l[k + 1 + i]
           /\ k + 1 >= Len(l) => Behind(l, k) = <<>>
           /\ k = -1 => Behind(l, k) = l
           /\ k + 1 < Len(l) => /\ Behind(l, k) # <<>> /\ Head(Behind(l, k)) = l[k + 2]
                                /\ Tail(Behind(l, k)) = Behind(l, k + 1)
                                /\ l[k + 2] \in S
<1>1. Len(l) \in Nat /\ \A i \in 1 .. Len(l) : l[i] \in S
  BY LenProperties
<1>2. \A i \in k + 2 .. Len(l) : l[i] \in S
  BY <1>1
<1>3. /\ Behind(l, k) \in Seq(S)
      /\ Len(Behind(l, k)) = IF k + 2 <= Len(l) THEN Len(l) - (k + 2) + 1 ELSE 0
      /\ \A i \in 1 .. Len(l) - (k + 2) + 1 : Behind(l, k)[i] = l[(k + 2) + i - 1]
  <2>1. k + 2 \in Int /\ Len(l) \in Int
    BY <1>1
  <2> QED BY <1>2, <2>1, SubSeqProperties DEF Behind
<1>4. Len(Behind(l, k)) = IF k + 1 <= Len(l) THEN Len(l) - k - 1 ELSE 0
  BY <1>1, <1>3
<1>5. \A i \in 1 .. Len(l) - k - 1 : Behind(l, k)[i] = l[k + 1 + i]
  BY <1>1, <1>3
<1>6. ASSUME k + 1 >= Len(l) PROVE Behind(l, k) = <<>>
  <2>1. Len(l) < k + 2 /\ k + 2 \in Int /\ Len(l) \in Int
    BY <1>1, <1>6
  <2> QED BY <2>1, SubSeqEmpty DEF Behind
<1>7. ASSUME k = -1 PROVE Behind(l, k) = l
  <2>1. k + 2 = 1
    BY <1>7
  <2> QED BY <2>1, SubSeqFull DEF Behind
<1>8. ASSUME k + 1 < Len(l)
      PROVE  /\ Behind(l, k) # <<>> /\ Head(Behind(l, k)) = l[k + 2]
             /\ Tail(Behind(l, k)) = Behind(l, k + 1) /\ l[k + 2] \in S
  <2>1. k + 2 \in 1 .. Len(l) /\ Len(l) \in k + 2 .. Len(l) /\ (k + 2) + 1 = (k + 1) + 2
    BY <1>1, <1>8
  <2>2. /\ Head(SubSeq(l, k + 2, Len(l))) = l[k + 2]
        /\ Tail(SubSeq(l, k + 2, Len(l))) = SubSeq(l, (k + 2) + 1, Len(l))
    BY <2>1, HeadTailOfSubSeq
  <2>3. Behind(l, k) # <<>>
    BY <1>1, <1>4, <1>8, EmptySeq
  <2> QED BY <1>1, <2>1, <2>2, <2>3 DEF Behind
<1> QED BY <1>1, <1>3, <1>4, <1>5, <1>6, <1>7, <1>8

LEMMA BehindSeq ==
    ASSUME NEW S, NEW l \in Seq(S), NEW k \in Int, k >= -1, k + 1 <= Len(l)
    PROVE  /\ Behind(l, k) \in Seq(S) /\ Len(Behind(l, k)) = Len(l) - k - 1
           /\ \A i \in 1 .. Len(l) - k - 1 : Behind(l, k)[i] = l[k + 1 + i]
BY BehindIs

LEMMA BehindNone ==
    ASSUME NEW S, NEW l \in Seq(S), NEW k \in Int, k >= -1, k + 1 >= Len(l)
    PROVE  Behind(l, k) = <<>>
BY BehindIs

LEMMA BehindAppend ==
    ASSUME NEW S, NEW l \in Seq(S), NEW k \in Int, k >= -1, NEW e \in S
    PROVE  /\ Append(l, e) \in Seq(S) /\ Len(Append(l, e)) = Len(l) + 1 /\ Len(l) \in Nat
           /\ k + 1 <= Len(l) => Behind(Append(l, e), k) = Append(Behind(l, k), e)
           /\ k + 1 > Len(l) => Behind(Append(l, e), k) = <<>> /\ Behind(l, k) = <<>>
           /\ Behind(Append(l, e), Len(l) - 1) = <<e>>
<1> DEFINE m == Append(l, e)
<1>1. /\ m \in Seq(S) /\ Len(m) = Len(l) + 1 /\ Len(l) \in Nat
      /\ \A i \in 1 .. Len(l) : m[i] = l[i]
      /\ m[Len(l) + 1] = e
  BY AppendProperties, LenProperties
<1> HIDE DEF m
<1>2. ASSUME NEW n \in Int, n >= -1, n + 1 <= Len(l)
      PROVE  Behind(m, n) = Append(Behind(l, n), e)
  <2> DEFINE a == Behind(m, n)
             b == Behind(l, n)
  <2>1. /\ a \in Seq(S) /\ Len(a) = Len(l) - n
        /\ \A i \in 1 .. Len(l) - n : a[i] = m[n + 1 + i]
    <3>1. m \in Seq(S) /\ n + 1 <= Len(m) /\ Len(m) - n - 1 = Len(l) - n
      BY <1>1, <1>2
    <3>2. /\ a \in Seq(S) /\ Len(a) = Len(m) - n - 1
          /\ \A i \in 1 .. Len(m) - n - 1 : a[i] = m[n + 1 + i]
      BY <1>2, <3>1, BehindSeq
    <3> QED BY <3>1, <3>2
  <2>2. /\ b \in Seq(S) /\ Len(b) = Len(l) - n - 1
        /\ \A i \in 1 .. Len(l) - n - 1 : b[i] = l[n + 1 + i]
    BY <1>2, BehindSeq
  <2> HIDE DEF a, b
  <2>3. /\ Append(b, e) \in Seq(S) /\ Len(Append(b, e)) = Len(b) + 1
        /\ \A i \in 1 .. Len(b) : Append(b, e)[i] = b[i]
        /\ Append(b, e)[Len(b) + 1] = e
    BY <2>2, AppendProperties
  <2>4. Len(a) = Len(Append(b, e))
    BY <1>1, <2>1, <2>2, <2>3
  <2>5. ASSUME NEW i \in 1 .. Len(a) PROVE a[i] = Append(b, e)[i]
    <3>1. CASE i = Len(l) - n
      <4>1. n + 1 + i = Len(l) + 1 /\ i = Len(b) + 1 /\ i \in 1 .. Len(l) - n
        BY <1>1, <1>2, <2>1, <2>2, <3>1
      <4> QED BY <1>1, <2>1, <2>3, <4>1
    <3>2. CASE i # Len(l) - n
      <4>1. /\ i \in 1 .. Len(l) - n - 1 /\ i \in 1 .. Len(b) /\ i \in 1 .. Len(l) - n
            /\ n + 1 + i \in 1 .. Len(l)
        BY <1>1, <1>2, <2>1, <2>2, <3>2
      <4>2. a[i] = m[n + 1 + i] /\ b[i] = l[n + 1 + i] /\ Append(b, e)[i] = b[i]
        BY <2>1, <2>2, <2>3, <4>1
      <4> QED BY <1>1, <4>1, <4>2
    <3> QED BY <3>1, <3>2
  <2>6. a = Append(b, e)
    BY <2>1, <2>3, <2>4, <2>5, SeqEqual
  <2> QED BY <2>6 DEF a, b
<1>3. ASSUME k + 1 > Len(l) PROVE Behind(m, k) = <<>> /\ Behind(l, k) = <<>>
  <2>1. m \in Seq(S) /\ k + 1 >= Len(m) /\ k + 1 >= Len(l)
    BY <1>1, <1>3
  <2> QED BY <2>1, BehindNone
<1>4. Behind(m, Len(l) - 1) = <<e>>
  <2>1. Len(l) - 1 \in Int /\ Len(l) - 1 >= -1 /\ (Len(l) - 1) + 1 <= Len(l) /\ (Len(l) - 1) + 1 >= Len(l)
    BY <1>1
  <2>2. Behind(l, Len(l) - 1) = <<>>
    BY <2>1, BehindNone
  <2>3. Append(<<>>, e) = <<e>>
    OBVIOUS
  <2>4. Behind(m, Len(l) - 1) = Append(Behind(l, Len(l) - 1), e)
    BY <1>2, <2>1
  <2> QED BY <2>2, <2>3, <2>4
<1> QED BY <1>1, <1>2, <1>3, <1>4 DEF m

LEMMA BehindWithout ==
    ASSUME NEW S, NEW l \in Seq(S), NEW k \in Int, k >= -1, NEW fn
    PROVE  LET c == Cardinality({i \in DOMAIN l : l[i] = fn /\ i <= k + 1})
               w == Without(l, fn)
           IN  /\ w \in Seq(S) /\ c \in Nat /\ k - c >= -1
               /\ k = -1 => c = 0
               /\ l = <<>> => w = <<>> /\ c = 0
               /\ Behind(w, k - c) = Without(Behind(l, k), fn)
               /\ k + 1 <= Len(l) => (k - c) + 1 <= Len(w)
<1> DEFINE D == {i \in DOMAIN l : l[i] = fn /\ i <= k + 1}
           p == IF k + 1 <= Len(l) THEN k + 1 ELSE Len(l)
           c == Cardinality(Occurs(l, fn, p))
           w == Without(l, fn)
           after == SubSeq(l, p + 1, Len(l))
<1>1. Len(l) \in Nat /\ DOMAIN l = 1 .. Len(l) /\ p \in 0 .. Len(l) /\ p \in Nat
  BY LenProperties
<1>2. D = Occurs(l, fn, p)
  BY <1>1 DEF Occurs
<1>3. PICK front \in Seq(S) : /\ Without(after, fn) \in Seq(S)
                              /\ w = front \o Without(after, fn)
                              /\ Len(front) = p - c
  <2>1. \A q \in 0 .. Len(l) : \E front \in Seq(S) :
            /\ Without(SubSeq(l, q + 1, Len(l)), fn) \in Seq(S)
            /\ Without(l, fn) = front \o Without(SubSeq(l, q + 1, Len(l)), fn)
            /\ Len(front) = q - Cardinality(Occurs(l, fn, q))
    BY WithoutSplits
  <2> HIDE DEF p
  <2> QED BY <1>1, <2>1
<1>4. c \in 0 .. p
  BY <1>1, OccursCount
<1>5. after = Behind(l, k)
  <2>1. CASE k + 1 <= Len(l)
    <3>1. p + 1 = k + 2
      BY <2>1
    <3> QED BY <3>1 DEF Behind
  <2>2. CASE ~(k + 1 <= Len(l))
    <3>1. after = <<>>
      BY <1>1, <2>2, SubSeqEmpty
    <3>2. Behind(l, k) = <<>>
      BY <1>1, <2>2, BehindIs
    <3> QED BY <3>1, <3>2
  <2> QED BY <2>1, <2>2
<1>6. p <= k + 1 /\ (k + 1 <= Len(l) => p = k + 1)
  BY <1>1
<1>7. ~(k + 1 <= Len(l)) => p = Len(l)
  OBVIOUS
<1>8. Len(l) = 0 => p = 0
  BY <1>1
<1> DEFINE t == Without(after, fn)
<1> HIDE DEF D, p, c, w, after, t
<1>9. /\ front \in Seq(S) /\ t \in Seq(S) /\ w = front \o t /\ Len(front) = p - c
  BY <1>3 DEF t
<1>10. /\ w \in Seq(S) /\ Len(w) = Len(front) + Len(t) /\ Len(front) \in Nat /\ Len(t) \in Nat
       /\ \A i \in 1 .. Len(front) + Len(t) :
              w[i] = IF i <= Len(front) THEN front[i] ELSE t[i - Len(front)]
  BY <1>9, ConcatProperties, LenProperties
<1>11. c \in Nat /\ k - c \in Int /\ k - c >= -1 /\ (k = -1 => c = 0)
  BY <1>1, <1>4, <1>6
<1>12. Behind(w, k - c) = t
  <2>1. CASE k + 1 <= Len(l)
    <3>1. Len(front) = (k - c) + 1
      BY <1>1, <1>6, <1>9, <1>11, <2>1
    <3> DEFINE b == Behind(w, k - c)
    <3>0. w \in Seq(S) /\ k - c \in Int /\ k - c >= -1 /\ (k - c) + 1 <= Len(w)
      BY <1>10, <1>11, <3>1
    <3>2. /\ b \in Seq(S)
          /\ Len(b) = Len(w) - (k - c) - 1
          /\ \A i \in 1 .. Len(w) - (k - c) - 1 : b[i] = w[(k - c) + 1 + i]
      BY <3>0, BehindSeq
    <3> HIDE DEF b
    <3>3. Len(b) = Len(t)
      <4>1. Len(w) = Len(front) + Len(t) /\ Len(front) \in Nat /\ Len(t) \in Nat
        BY <1>10
      <4> QED BY <1>11, <3>1, <3>2, <4>1
    <3> HIDE DEF b
    <3>4. ASSUME NEW i \in 1 .. Len(t) PROVE b[i] = t[i]
      <4> DEFINE x == (k - c) + 1 + i
      <4>1. i \in 1 .. Len(w) - (k - c) - 1
        BY <1>10, <1>11, <3>1
      <4>2. /\ x \in 1 .. Len(front) + Len(t) /\ ~(x <= Len(front)) /\ x - Len(front) = i
        BY <1>10, <1>11, <3>1
      <4>3. b[i] = w[x]
        BY <3>2, <4>1
      <4> HIDE DEF x
      <4>4. w[x] = IF x <= Len(front) THEN front[x] ELSE t[x - Len(front)]
        BY <1>10, <4>2, Zenon
      <4> QED BY <4>2, <4>3, <4>4
    <3>5. b = t
      BY <1>9, <3>2, <3>3, <3>4, SeqEqual
    <3> QED BY <3>5 DEF b
  <2>2. CASE ~(k + 1 <= Len(l))
    <3>1. after = <<>>
      BY <1>1, <1>5, <2>2, BehindNone
    <3>2. t = <<>>
      BY <3>1, WithoutNothing DEF t
    <3>3. Len(w) = Len(l) - c
      BY <1>7, <1>9, <1>10, <2>2, <3>2, EmptySeq
    <3>4. (k - c) + 1 >= Len(w)
      BY <1>1, <1>11, <2>2, <3>3
    <3>5. Behind(w, k - c) = <<>>
      BY <1>10, <1>11, <3>4, BehindNone
    <3> QED BY <3>2, <3>5
  <2> QED BY <2>1, <2>2
<1>13. k + 1 <= Len(l) => (k - c) + 1 <= Len(w)
  BY <1>1, <1>6, <1>9, <1>10, <1>11
<1>14. l = <<>> => w = <<>> /\ c = 0
  <2>1. l = <<>> => c = 0
    BY <1>4, <1>8, EmptySeq
  <2> QED BY <2>1, WithoutNothing DEF w
<1>15. t = Without(Behind(l, k), fn)
  BY <1>5 DEF t
<1> QED BY <1>2, <1>10, <1>11, <1>12, <1>13, <1>14, <1>15 DEF D, c, w

-----------------------------------------------------------------------------
(* add.                                                                    *)

LEMMA PushAllOne ==
    ASSUME NEW s, NEW fn
    PROVE  PushAll(s, <<fn>>) = Push(s, fn)
<1> DEFINE Body(h) == [j \in 0 .. Len(<<fn>>) |->
                          IF j = 0 THEN s ELSE Push(h[j - 1], <<fn>>[j])]
           pushed == CHOOSE h : h = Body(h)
           both == [j \in 0 .. 1 |-> IF j = 0 THEN s ELSE Push(s, fn)]
<1>1. Len(<<fn>>) = 1 /\ <<fn>>[1] = fn
  OBVIOUS
<1>2. PushAll(s, <<fn>>) = pushed[1]
  BY <1>1 DEF PushAll
<1> HIDE DEF pushed
<1>3. ASSUME NEW h PROVE Body(h) = [j \in 0 .. 1 |-> IF j = 0 THEN s ELSE Push(h[0], fn)]
  <2>1. ASSUME NEW j \in 0 .. 1
        PROVE  (IF j = 0 THEN s ELSE Push(h[j - 1], <<fn>>[j])) = IF j = 0 THEN s ELSE Push(h[0], fn)
    <3>1. j = 0 \/ j = 1
      OBVIOUS
    <3> QED BY <1>1, <3>1
  <2> QED BY <1>1, <2>1
<1>4. both = Body(both)
  <2>1. both[0] = s
    OBVIOUS
  <2> QED BY <1>3, <2>1
<1>5. pushed = Body(pushed)
  <2> HIDE DEF Body, both
  <2> QED BY <1>4 DEF pushed
<1> HIDE DEF Body
<1>6. pushed[0] = s
  BY <1>3, <1>5
<1>7. pushed[1] = Push(pushed[0], fn)
  BY <1>3, <1>5
<1> QED BY <1>2, <1>6, <1>7

LEMMA AddIs ==
    ASSUME self \in Lists, NEW fn \in Fns
    PROVE  LET s == Add(self, <<fn>>)
               fires == self.memory # NoValue /\ ~self.firing
           IN  /\ self.spent => s = self
               /\ ~self.spent =>
                     /\ s \in Lists /\ s.spent = self.spent /\ s.memory = self.memory
                     /\ s.within = self.within
                     /\ s.list = self.list \/ s.list = Append(self.list, fn)
                     /\ s.queue = IF fires THEN Append(self.queue, self.memory) ELSE self.queue
                     /\ s.firing = IF fires THEN TRUE ELSE self.firing
                     /\ s.firingIndex = IF fires THEN Len(self.list) - 1 ELSE self.firingIndex
<1> DEFINE fires == self.memory # NoValue /\ ~self.firing
           ready == IF fires
                    THEN [self EXCEPT !.firingIndex = Len(self.list) - 1,
                                      !.queue = Append(@, self.memory)]
                    ELSE self
           added == Push(ready, fn)
           s == Add(self, <<fn>>)
<1>1. s = IF self.spent THEN self ELSE IF fires THEN Begin(added) ELSE added
  BY PushAllOne DEF Add
<1>2. /\ ready \in Lists /\ ready.list = self.list /\ ready.spent = self.spent
      /\ ready.memory = self.memory /\ ready.within = self.within /\ ready.firing = self.firing
      /\ ready.queue = IF fires THEN Append(self.queue, self.memory) ELSE self.queue
      /\ ready.firingIndex = IF fires THEN Len(self.list) - 1 ELSE self.firingIndex
  <2>1. Len(self.list) \in Nat /\ Append(self.list, fn) \in Seq(Fns)
    BY LenProperties, AppendProperties DEF Lists
  <2>2. fires => Append(self.queue, self.memory) \in Seq(Nat)
    BY AppendProperties DEF Lists
  <2>3. CASE fires
    <3>1. ready = [self EXCEPT !.firingIndex = Len(self.list) - 1,
                               !.queue = Append(self.queue, self.memory)]
      BY <2>3
    <3>2. Append(self.queue, self.memory) \in Seq(Nat) /\ Len(self.list) - 1 \in Int
      BY <2>1, <2>2, <2>3
    <3> QED BY <2>3, <3>1, <3>2 DEF Lists
  <2>4. CASE ~fires
    BY <2>4
  <2> QED BY <2>3, <2>4
<1> HIDE DEF ready
<1>3. /\ added \in Lists /\ added.spent = ready.spent
      /\ added.list = ready.list \/ added.list = Append(ready.list, fn)
      /\ added.memory = ready.memory /\ added.within = ready.within
      /\ added.firing = ready.firing /\ added.queue = ready.queue
      /\ added.firingIndex = ready.firingIndex
  <2>1. Append(ready.list, fn) \in Seq(Fns)
    BY <1>2, AppendProperties DEF Lists
  <2> QED BY <1>2, <2>1 DEF Lists, Push
<1> HIDE DEF added
<1>4. /\ Begin(added) \in Lists /\ Begin(added).firing /\ Begin(added).list = added.list
      /\ Begin(added).spent = added.spent /\ Begin(added).memory = added.memory
      /\ Begin(added).within = added.within /\ Begin(added).queue = added.queue
      /\ Begin(added).firingIndex = added.firingIndex
  BY <1>3 DEF Lists, Begin
<1> HIDE DEF s
<1>5. CASE self.spent
  BY <1>1, <1>5 DEF s
<1>6. CASE ~self.spent /\ fires
  BY <1>1, <1>2, <1>3, <1>4, <1>6 DEF s
<1>7. CASE ~self.spent /\ ~fires
  BY <1>1, <1>2, <1>3, <1>7 DEF s
<1> QED BY <1>5, <1>6, <1>7

-----------------------------------------------------------------------------
(* The steps of the list.                                                  *)

LEMMA ListGiven ==
    ASSUME ListInv
    PROVE  /\ self \in Lists /\ self.list \in Seq(Fns) /\ self.queue \in Seq(Nat)
           /\ Len(self.list) \in Nat /\ Len(self.queue) \in Nat
           /\ self.firingIndex \in Int /\ self.firingIndex >= -1
           /\ calls \in Nat /\ MaxCalls \in Nat /\ calls <= MaxCalls
           /\ hearing \in Nat /\ hearing <= calls
           /\ self.within \in BOOLEAN /\ self.firing \in BOOLEAN /\ inFire \in BOOLEAN
           /\ self.spent \in BOOLEAN /\ self.locked \in BOOLEAN /\ emptied \in BOOLEAN
           /\ NoValue \notin Nat
           /\ self.queue = <<>> <=> Len(self.queue) = 0
           /\ self.list = <<>> <=> Len(self.list) = 0
           /\ self.queue # <<>> => Head(self.queue) = self.queue[1] /\ 1 \in 1 .. Len(self.queue)
           /\ Rest = Behind(self.list, self.firingIndex) /\ Rest \in Seq(Fns)
<1>1. /\ self \in Lists /\ self.list \in Seq(Fns) /\ self.queue \in Seq(Nat)
      /\ self.firingIndex \in Int /\ self.firingIndex >= -1
  BY DEF ListInv, ListTypes, IndexInv, Lists
<1>2. Len(self.list) \in Nat /\ Len(self.queue) \in Nat
  BY <1>1, LenProperties
<1>3. /\ calls \in Nat /\ MaxCalls \in Nat /\ calls <= MaxCalls
      /\ hearing \in Nat /\ hearing <= calls
  BY CallsAssumption DEF ListInv, ListTypes
<1>4. /\ self.within \in BOOLEAN /\ self.firing \in BOOLEAN /\ inFire \in BOOLEAN
      /\ self.spent \in BOOLEAN /\ self.locked \in BOOLEAN /\ emptied \in BOOLEAN
  BY DEF ListInv, ListTypes, Lists
<1>5. /\ self.queue = <<>> <=> Len(self.queue) = 0
      /\ self.list = <<>> <=> Len(self.list) = 0
  BY <1>1, EmptySeq
<1>6. self.queue # <<>> => Head(self.queue) = self.queue[1] /\ 1 \in 1 .. Len(self.queue)
  BY <1>1, <1>2, <1>5
<1>7. Rest = Behind(self.list, self.firingIndex) /\ Rest \in Seq(Fns)
  BY <1>1, BehindIs DEF Rest, Behind
<1> QED BY <1>1, <1>2, <1>3, <1>4, <1>5, <1>6, <1>7, NoValueAssumption

\* While the using code runs outside of fire(), nobody is to hear anything; inside
\* it is a callback that runs.
LEMMA ListUsing ==
    ASSUME ListInv, UserCode
    PROVE  /\ calls + 1 \in 1 .. MaxCalls /\ calls < MaxCalls
           /\ Late = <<>>
           /\ ~inFire => Ahead = <<>> /\ running = NoFn
           /\ inFire => running # NoFn /\ self.within /\ self.firing /\ Ahead = Rest
           /\ self.firing <=> self.within
           /\ self.within /\ self.memory = NoValue => self.spent /\ self.list = <<>>
<1>1. calls + 1 \in 1 .. MaxCalls /\ calls < MaxCalls
  BY ListGiven DEF UserCode
<1>2. inFire => running # NoFn /\ self.within /\ self.firing
  BY DEF UserCode, ListInv, TurnInv
<1>3. ~inFire => running = NoFn
  BY DEF ListInv, TurnInv
<1>4. self.firing <=> self.within
  BY <1>2, ListGiven DEF ListInv, TurnInv
<1>5. self.within /\ self.memory = NoValue => self.spent /\ self.list = <<>>
  BY <1>2 DEF ListInv, MemoryInv
<1> QED BY <1>1, <1>2, <1>3, <1>4, <1>5 DEF Ahead, Late

\* A step that leaves the list as it is, or changes only what nobody hears.
LEMMA SameKeeps ==
    ASSUME ListInv, self' \in Lists,
           self'.list = self.list, self'.firingIndex = self.firingIndex,
           self'.within = self.within, self'.firing = self.firing,
           self'.memory = self.memory, self.spent => self'.spent,
           self'.queue \in {self.queue, <<>>},
           self'.queue # self.queue => self.firingIndex = -1 \/ self.within,
           inFire' = inFire, UserCode,
           calls' = calls + 1, UNCHANGED <<running, hearing, emptied>>
    PROVE  ListInv' /\ Step
<1>1. ListTypes'
  BY ListGiven, ListUsing DEF ListTypes
<1>2. TurnInv'
  BY ListGiven DEF ListInv, TurnInv
<1>3. IndexInv'
  BY ListGiven, ListUsing DEF ListInv, IndexInv
<1>4. QueueInv'
  <2>1. CASE self'.queue = self.queue
    BY <2>1, ListGiven DEF ListInv, QueueInv
  <2>2. CASE self'.queue = <<>>
    BY <2>2, EmptySeq DEF QueueInv
  <2> QED BY <2>1, <2>2
<1>5. MemoryInv'
  BY DEF ListInv, MemoryInv
<1>6. Ahead' = Ahead
  BY DEF Ahead, Rest
<1>7. Late' = <<>> /\ Late = <<>>
  BY ListUsing, ListGiven DEF Late
<1> QED BY <1>1, <1>2, <1>3, <1>4, <1>5, <1>6, <1>7, AsBefore DEF ListInv

LEMMA AddKeeps == ListInv /\ AddCall => ListInv' /\ Step
<1> SUFFICES ASSUME ListInv, AddCall PROVE ListInv' /\ Step
  OBVIOUS
<1>1. PICK fn \in Fns : Calls(Add(self, <<fn>>)) /\ UNCHANGED emptied
  BY DEF AddCall
<1> DEFINE s == Add(self, <<fn>>)
           fires == self.memory # NoValue /\ ~self.firing
<1>2. /\ self' = s /\ UserCode /\ calls' = calls + 1
      /\ inFire' = (inFire \/ (s.firing /\ ~self.firing))
      /\ running' = running /\ hearing' = hearing /\ emptied' = emptied
  BY <1>1 DEF Calls
<1>3. CASE self.spent
  <2>1. self' = self /\ inFire' = inFire
    BY <1>2, <1>3, AddIs, ListGiven
  <2> QED BY <1>2, <2>1, SameKeeps, ListGiven
<1>4. ASSUME ~self.spent
      PROVE  /\ self' \in Lists /\ self'.spent = self.spent /\ self'.memory = self.memory
             /\ self'.within = self.within
             /\ self'.list = self.list \/ self'.list = Append(self.list, fn)
             /\ self'.queue = IF fires THEN Append(self.queue, self.memory) ELSE self.queue
             /\ self'.firing = IF fires THEN TRUE ELSE self.firing
             /\ self'.firingIndex = IF fires THEN Len(self.list) - 1 ELSE self.firingIndex
             /\ inFire' = (inFire \/ (self'.firing /\ ~self.firing))
  BY <1>2, <1>4, AddIs, ListGiven
<1> HIDE DEF s
<1>5. /\ Append(self.list, fn) \in Seq(Fns) /\ Len(Append(self.list, fn)) = Len(self.list) + 1
      /\ \A k \in Int : k >= -1 /\ k + 1 <= Len(self.list) =>
             Behind(Append(self.list, fn), k) = Append(Behind(self.list, k), fn)
      /\ \A k \in Int : k >= -1 /\ k + 1 > Len(self.list) =>
             Behind(Append(self.list, fn), k) = <<>> /\ Behind(self.list, k) = <<>>
      /\ Behind(Append(self.list, fn), Len(self.list) - 1) = <<fn>>
      /\ Behind(self.list, Len(self.list) - 1) = <<>>
  <2>1. self.list \in Seq(Fns) /\ Len(self.list) - 1 \in Int /\ Len(self.list) - 1 >= -1
        /\ (Len(self.list) - 1) + 1 >= Len(self.list)
    BY ListGiven
  <2>2. /\ Append(self.list, fn) \in Seq(Fns) /\ Len(Append(self.list, fn)) = Len(self.list) + 1
        /\ Behind(Append(self.list, fn), Len(self.list) - 1) = <<fn>>
    BY <2>1, BehindAppend
  <2>3. Behind(self.list, Len(self.list) - 1) = <<>>
    BY <2>1, BehindNone
  <2> QED BY <2>1, <2>2, <2>3, BehindAppend
<1>6. CASE ~self.spent /\ fires
  <2>1. /\ ~inFire /\ ~self.within /\ running = NoFn /\ self.queue = <<>>
        /\ self.memory = hearing /\ hearing >= 1
    BY <1>6, ListGiven DEF ListInv, TurnInv, MemoryInv
  <2>2. /\ self' \in Lists /\ inFire' /\ self'.firing /\ ~self'.within /\ self'.memory = hearing
        /\ self'.queue = <<hearing>> /\ self'.firingIndex = Len(self.list) - 1
        /\ self'.spent = self.spent
    <3>1. Append(<<>>, hearing) = <<hearing>>
      OBVIOUS
    <3> QED BY <1>4, <1>6, <2>1, <3>1
  <2>3. Len(self'.queue) = 1 /\ self'.queue[1] = hearing /\ self'.queue # <<>>
        /\ Head(self'.queue) = hearing
    BY <2>2
  <2>4. ListTypes'
    BY <1>2, <2>2, ListGiven, ListUsing DEF ListTypes
  <2>5. TurnInv' /\ MemoryInv'
    BY <1>2, <2>1, <2>2 DEF TurnInv, MemoryInv
  <2>6. IndexInv'
    BY <1>2, <2>1, <2>2, <2>3, ListGiven DEF IndexInv
  <2>7. QueueInv'
    BY <1>2, <2>1, <2>2, <2>3, ListGiven DEF QueueInv
  <2>8. Ahead = <<>> /\ Late = <<>> /\ Ahead' = <<>>
    BY <2>1, <2>2 DEF Ahead, Late
  <2>9. Late' = Behind(self'.list, Len(self.list) - 1)
    BY <1>2, <2>2, <2>3 DEF Late, Rest, Behind
  <2>10. CASE self'.list = self.list
    BY <1>2, <1>5, <2>8, <2>9, <2>10, AsBefore, <2>4, <2>5, <2>6, <2>7 DEF ListInv
  <2>11. CASE self'.list = Append(self.list, fn)
    BY <1>2, <1>5, <2>1, <2>8, <2>9, <2>11, AsJoins, <2>4, <2>5, <2>6, <2>7 DEF ListInv
  <2> QED BY <1>4, <1>6, <2>10, <2>11
<1>7. CASE ~self.spent /\ ~fires
  <2>1. /\ self' \in Lists /\ self'.spent = self.spent /\ self'.memory = self.memory
        /\ self'.within = self.within /\ self'.queue = self.queue
        /\ self'.firing = self.firing /\ self'.firingIndex = self.firingIndex
        /\ inFire' = inFire
        /\ self'.list = self.list \/ self'.list = Append(self.list, fn)
    BY <1>4, <1>7, ListGiven
  <2>2. CASE self'.list = self.list
    BY <1>2, <2>1, <2>2, SameKeeps
  <2>3. CASE self'.list = Append(self.list, fn)
    <3>1. ListTypes' /\ TurnInv'
      BY <1>2, <2>1, ListGiven, ListUsing DEF ListInv, ListTypes, TurnInv
    <3>2. IndexInv'
      BY <1>2, <1>5, <2>1, <2>3, ListGiven DEF ListInv, IndexInv
    <3>3. QueueInv'
      BY <1>2, <2>1, ListGiven DEF ListInv, QueueInv
    <3>4. MemoryInv'
      BY <1>2, <1>7, <2>1, ListUsing DEF ListInv, MemoryInv
    <3>5. Late' = <<>> /\ Late = <<>>
      <4>1. Late = <<>>
        BY <1>2, ListUsing
      <4>2. inFire' => self'.within
        BY <1>2, <2>1, ListUsing
      <4> QED BY <4>1, <4>2 DEF Late
    <3>6. CASE ~inFire
      <4>1. Ahead = <<>> /\ Ahead' = <<>> /\ running = NoFn
        BY <1>2, <2>1, <3>6, ListUsing DEF Ahead
      <4> QED BY <1>2, <2>3, <3>1, <3>2, <3>3, <3>4, <3>5, <4>1, AsJoins DEF ListInv
    <3>7. CASE inFire
      <4>1. /\ Ahead = Behind(self.list, self.firingIndex) /\ running # NoFn
            /\ Ahead' = Behind(Append(self.list, fn), self.firingIndex)
        BY <1>2, <2>1, <2>3, <3>7, ListUsing DEF Ahead, Rest, Behind
      <4>2. CASE self.firingIndex + 1 <= Len(self.list)
        <5>1. Ahead' = Append(Ahead, fn)
          BY <1>5, <4>1, <4>2, ListGiven
        <5> QED BY <1>2, <2>3, <3>1, <3>2, <3>3, <3>4, <3>5, <4>1, <5>1, AsJoins DEF ListInv
      <4>3. CASE ~(self.firingIndex + 1 <= Len(self.list))
        <5>1. emptied
          BY <4>1, <4>3 DEF ListInv, IndexInv
        <5>2. Ahead' = Ahead
          BY <1>5, <4>1, <4>3, ListGiven
        <5> QED BY <1>2, <2>3, <3>1, <3>2, <3>3, <3>4, <3>5, <5>1, <5>2, AsJoins DEF ListInv
      <4> QED BY <4>2, <4>3
    <3> QED BY <3>6, <3>7, ListGiven
  <2> QED BY <2>1, <2>2, <2>3
<1> QED BY <1>3, <1>6, <1>7, ListGiven

LEMMA RemoveKeeps == ListInv /\ RemoveCall => ListInv' /\ Step
<1> SUFFICES ASSUME ListInv, RemoveCall PROVE ListInv' /\ Step
  OBVIOUS
<1>1. PICK fn \in Fns : Calls(Remove(self, fn)) /\ UNCHANGED emptied
  BY DEF RemoveCall
<1> DEFINE c == Cardinality({i \in DOMAIN self.list : self.list[i] = fn /\ i <= self.firingIndex + 1})
           w == Without(self.list, fn)
<1>2. /\ w \in Seq(Fns) /\ c \in Nat /\ self.firingIndex - c >= -1
      /\ self.firingIndex = -1 => c = 0
      /\ self.list = <<>> => w = <<>> /\ c = 0
      /\ Behind(w, self.firingIndex - c) = Without(Behind(self.list, self.firingIndex), fn)
      /\ self.firingIndex + 1 <= Len(self.list) => (self.firingIndex - c) + 1 <= Len(w)
  BY ListGiven, BehindWithout
<1>3. /\ self' = [self EXCEPT !.list = w, !.firingIndex = @ - c]
      /\ UserCode /\ calls' = calls + 1
      /\ inFire' = (inFire \/ (Remove(self, fn).firing /\ ~self.firing))
      /\ UNCHANGED <<running, hearing, emptied>>
  BY <1>1 DEF Calls, Remove
<1>4. Remove(self, fn).firing = self.firing
  BY ListGiven DEF Remove, Lists
<1> HIDE DEF c, w
<1>5. /\ self' \in Lists /\ self'.list = w /\ self'.firingIndex = self.firingIndex - c
      /\ self'.spent = self.spent /\ self'.memory = self.memory /\ self'.within = self.within
      /\ self'.queue = self.queue /\ self'.firing = self.firing
      /\ inFire' = inFire
  <2>1. self.firingIndex - c \in Int
    BY <1>2, ListGiven
  <2> QED BY <1>2, <1>3, <1>4, <2>1, ListGiven DEF Lists
<1>6. ListTypes' /\ TurnInv'
  BY <1>3, <1>5, ListGiven, ListUsing DEF ListInv, ListTypes, TurnInv
<1>7. QueueInv'
  BY <1>3, <1>5, ListGiven DEF ListInv, QueueInv
<1>8. MemoryInv'
  <2>1. self'.within /\ self'.memory = NoValue => self'.spent /\ self'.list = <<>>
    BY <1>2, <1>3, <1>5, ListUsing
  <2>2. self'.list = <<>> => self'.firingIndex + 1 >= Len(self'.list)
    BY <1>2, <1>5, ListGiven, EmptySeq
  <2> QED BY <1>3, <1>5, <2>1, <2>2 DEF ListInv, MemoryInv
<1>9. IndexInv'
  <2>1. ~self'.within => self'.firingIndex = -1
    <3>1. ~self.within => self.queue = <<>> /\ self.firingIndex = -1
      BY <1>3, ListGiven, ListUsing DEF ListInv, TurnInv, IndexInv
    <3> QED BY <1>2, <1>5, <3>1
  <2>2. running' # NoFn /\ ~emptied' => self'.firingIndex + 1 <= Len(self'.list)
    BY <1>2, <1>3, <1>5 DEF ListInv, IndexInv
  <2> QED BY <1>2, <1>5, <2>1, <2>2 DEF IndexInv
<1>10. Late' = <<>> /\ Late = <<>>
  <2>1. Late = <<>>
    BY <1>3, ListUsing
  <2>2. inFire' => self'.within
    BY <1>3, <1>5, ListUsing
  <2> QED BY <2>1, <2>2 DEF Late
<1>11. Ahead' = Without(Ahead, fn)
  <2>1. Rest' = Without(Rest, fn)
    BY <1>2, <1>5, ListGiven DEF Rest, Behind
  <2>2. Without(<<>>, fn) = <<>>
    BY WithoutNothing
  <2> QED BY <1>5, <2>1, <2>2 DEF Ahead
<1> QED BY <1>3, <1>5, <1>6, <1>7, <1>8, <1>9, <1>10, <1>11, AsLeaves DEF ListInv, w

\* The list is emptied, and nobody is left.
LEMMA EmptiedKeeps ==
    ASSUME ListInv, self' \in Lists, self'.list = <<>>,
           self'.firingIndex = self.firingIndex, self'.within = self.within,
           self'.firing = self.firing, self'.queue \in {self.queue, <<>>},
           \/ self'.memory = self.memory /\ (self.spent => self'.spent)
           \/ self'.memory = NoValue /\ self'.spent,
           inFire' = inFire, UserCode, calls' = calls + 1, emptied' = TRUE,
           UNCHANGED <<running, hearing>>
    PROVE  ListInv' /\ Step
<1>1. ListTypes' /\ TurnInv'
  BY ListGiven, ListUsing DEF ListInv, ListTypes, TurnInv
<1>2. IndexInv'
  <2>1. ~self.within => self.firingIndex = -1
    BY ListGiven, ListUsing DEF ListInv, TurnInv, IndexInv
  <2> QED BY <2>1, ListGiven DEF IndexInv
<1>3. QueueInv'
  <2>1. CASE self'.queue = self.queue
    BY <2>1, ListGiven DEF ListInv, QueueInv
  <2>2. CASE self'.queue = <<>>
    BY <2>2, EmptySeq DEF QueueInv
  <2> QED BY <2>1, <2>2
<1>4. MemoryInv'
  <2>1. Len(self'.list) = 0
    BY EmptySeq
  <2>2. self'.within /\ self'.memory = NoValue => self'.spent /\ self'.list = <<>>
    BY ListUsing
  <2> QED BY <2>1, <2>2, ListGiven DEF ListInv, MemoryInv
<1>5. Rest' = <<>>
  <2>1. self'.list \in Seq(Fns) /\ self'.firingIndex \in Int /\ self'.firingIndex >= -1
        /\ self'.firingIndex + 1 >= Len(self'.list)
    BY ListGiven, EmptySeq
  <2> QED BY <2>1, BehindNone DEF Rest, Behind
<1> QED BY <1>1, <1>2, <1>3, <1>4, <1>5, AsEmpties DEF ListInv, Ahead, Late

LEMMA EmptyKeeps == ListInv /\ EmptyCall => ListInv' /\ Step
<1> SUFFICES ASSUME ListInv, EmptyCall PROVE ListInv' /\ Step
  OBVIOUS
<1>1. /\ self' = [self EXCEPT !.list = <<>>] /\ UserCode /\ calls' = calls + 1
      /\ inFire' = (inFire \/ (Empty(self).firing /\ ~self.firing))
      /\ emptied' = TRUE /\ UNCHANGED <<running, hearing>>
  BY DEF EmptyCall, Calls, Empty
<1>2. <<>> \in Seq(Fns) /\ Empty(self).firing = self.firing
  BY ListGiven, EmptySeq DEF Empty, Lists
<1>3. /\ self' \in Lists /\ self'.list = <<>> /\ self'.firingIndex = self.firingIndex
      /\ self'.within = self.within /\ self'.firing = self.firing
      /\ self'.queue = self.queue /\ self'.memory = self.memory /\ self'.spent = self.spent
  BY <1>1, <1>2, ListGiven DEF Lists
<1> QED BY <1>1, <1>2, <1>3, ListGiven, EmptiedKeeps

LEMMA DisableKeeps == ListInv /\ DisableCall => ListInv' /\ Step
<1> SUFFICES ASSUME ListInv, DisableCall PROVE ListInv' /\ Step
  OBVIOUS
<1>1. /\ self' = [self EXCEPT !.locked = TRUE, !.queue = <<>>, !.list = <<>>,
                              !.spent = TRUE, !.memory = NoValue]
      /\ UserCode /\ calls' = calls + 1
      /\ inFire' = (inFire \/ (Disable(self).firing /\ ~self.firing))
      /\ emptied' = TRUE /\ UNCHANGED <<running, hearing>>
  BY DEF DisableCall, Calls, Disable
<1>2. <<>> \in Seq(Fns) /\ <<>> \in Seq(Nat) /\ Disable(self).firing = self.firing
  BY ListGiven, EmptySeq DEF Disable, Lists
<1>3. /\ self' \in Lists /\ self'.list = <<>> /\ self'.firingIndex = self.firingIndex
      /\ self'.within = self.within /\ self'.firing = self.firing
      /\ self'.queue = <<>> /\ self'.memory = NoValue /\ self'.spent
  BY <1>1, <1>2, ListGiven DEF Lists
<1> QED BY <1>1, <1>2, <1>3, ListGiven, EmptiedKeeps

LEMMA LockKeeps == ListInv /\ LockCall => ListInv' /\ Step
<1> SUFFICES ASSUME ListInv, LockCall PROVE ListInv' /\ Step
  OBVIOUS
<1> DEFINE keeps == self.memory # NoValue \/ self.firing
<1>1. /\ self' = [self EXCEPT !.locked = TRUE, !.queue = <<>>,
                              !.list = IF keeps THEN @ ELSE <<>>,
                              !.spent = @ \/ ~keeps]
      /\ UserCode /\ calls' = calls + 1
      /\ inFire' = (inFire \/ (Lock(self).firing /\ ~self.firing))
      /\ emptied' = (emptied \/ self.memory = NoValue) /\ UNCHANGED <<running, hearing>>
  BY DEF LockCall, Calls, Lock
<1>2. <<>> \in Seq(Fns) /\ <<>> \in Seq(Nat) /\ Lock(self).firing = self.firing
  BY ListGiven, EmptySeq DEF Lock, Lists
<1>3. /\ self' \in Lists /\ self'.list = IF keeps THEN self.list ELSE <<>>
      /\ self'.firingIndex = self.firingIndex
      /\ self'.within = self.within /\ self'.firing = self.firing
      /\ self'.queue = <<>> /\ self'.memory = self.memory /\ self'.spent = (self.spent \/ ~keeps)
      /\ inFire' = inFire
  BY <1>1, <1>2, ListGiven DEF Lists
<1>4. ~self.within => self.queue = <<>> /\ self.firingIndex = -1
  BY <1>1, ListGiven, ListUsing DEF ListInv, TurnInv, IndexInv
<1>5. CASE self.memory # NoValue
  BY <1>1, <1>3, <1>4, <1>5, ListGiven, SameKeeps
<1>6. CASE self.memory = NoValue
  <2>1. self'.list = <<>>
    BY <1>1, <1>3, <1>6, ListUsing
  <2> QED BY <1>1, <1>3, <1>6, <2>1, ListGiven, EmptiedKeeps
<1> QED BY <1>5, <1>6

LEMMA FireKeeps == ListInv /\ FireCall => ListInv' /\ Step
<1> SUFFICES ASSUME ListInv, FireCall PROVE ListInv' /\ Step
  OBVIOUS
<1> DEFINE queued == [self EXCEPT !.queue = Append(@, calls + 1)]
           s == FireWith(self, calls + 1)
           q == Append(self.queue, calls + 1)
<1>1. /\ self' = s /\ UserCode /\ calls' = calls + 1
      /\ inFire' = (inFire \/ (s.firing /\ ~self.firing))
      /\ UNCHANGED <<running, hearing, emptied>>
  BY DEF FireCall, Calls
<1>2. s = IF self.locked THEN self ELSE IF self.firing THEN queued ELSE Begin(queued)
  BY DEF FireWith
<1>3. /\ q \in Seq(Nat)
      /\ Len(q) = Len(self.queue) + 1
      /\ \A i \in 1 .. Len(self.queue) : q[i] = self.queue[i]
      /\ q[Len(self.queue) + 1] = calls + 1
      /\ q # <<>>
  <2>1. self.queue \in Seq(Nat) /\ calls + 1 \in Nat
    BY ListGiven
  <2> QED BY <2>1, AppendProperties
<1>4. CASE self.locked
  <2>1. self' = self /\ inFire' = inFire
    BY <1>1, <1>2, <1>4, ListGiven
  <2> QED BY <1>1, <2>1, ListGiven, SameKeeps
<1>5. ASSUME ~self.locked
      PROVE  /\ self' \in Lists /\ self'.list = self.list /\ self'.spent = self.spent
             /\ self'.memory = self.memory /\ self'.within = self.within
             /\ self'.firingIndex = self.firingIndex /\ self'.firing
             /\ self'.queue = q
  <2>1. /\ queued \in Lists /\ queued.list = self.list /\ queued.spent = self.spent
        /\ queued.memory = self.memory /\ queued.within = self.within
        /\ queued.firingIndex = self.firingIndex /\ queued.firing = self.firing
        /\ queued.queue = q
    BY <1>3, ListGiven DEF Lists
  <2> HIDE DEF queued
  <2>2. /\ Begin(queued) \in Lists /\ Begin(queued).list = queued.list
        /\ Begin(queued).spent = queued.spent
        /\ Begin(queued).memory = queued.memory /\ Begin(queued).within = queued.within
        /\ Begin(queued).firingIndex = queued.firingIndex /\ Begin(queued).firing
        /\ Begin(queued).queue = queued.queue
    BY <2>1 DEF Begin, Lists
  <2> HIDE DEF s
  <2> QED BY <1>1, <1>2, <1>5, <2>1, <2>2
<1> HIDE DEF s, q
<1>6. CASE ~self.locked
  <2>1. inFire' = (inFire \/ ~self.firing)
    BY <1>1, <1>5, <1>6
  <2>2. ListTypes'
    BY <1>1, <1>5, <1>6, <2>1, ListGiven, ListUsing DEF ListTypes
  <2>3. TurnInv'
    BY <1>1, <1>5, <1>6, <2>1, ListGiven DEF ListInv, TurnInv
  <2>4. IndexInv'
    <3>1. ~self.within => self.firingIndex = -1
      BY <1>1, ListGiven, ListUsing DEF ListInv, TurnInv, IndexInv
    <3> QED BY <1>1, <1>5, <1>6, <3>1 DEF ListInv, IndexInv
  <2>5. QueueInv'
    <3>0. Len(self'.queue) = Len(self.queue) + 1 /\ Len(self.queue) \in Nat /\ self'.queue = q
      BY <1>3, <1>5, <1>6, ListGiven
    <3>1. ASSUME NEW i \in 1 .. Len(self'.queue)
          PROVE  /\ self'.queue[i] \in 1 .. calls' /\ self'.queue[i] >= hearing
                 /\ self'.within => self'.queue[i] > hearing
                 /\ \A j \in 1 .. Len(self'.queue) : i < j => self'.queue[i] < self'.queue[j]
      <4>1. CASE i = Len(self.queue) + 1
        <5>1. self'.queue[i] = calls + 1 /\ calls' = calls + 1
          BY <1>1, <1>3, <3>0, <4>1
        <5>2. calls + 1 \in 1 .. calls + 1 /\ calls + 1 > hearing
          BY ListGiven
        <5>3. \A j \in 1 .. Len(self'.queue) : ~(i < j)
          BY <3>0, <4>1
        <5>4. calls + 1 >= hearing
          BY ListGiven
        <5> QED BY <5>1, <5>2, <5>3, <5>4
      <4>2. CASE i # Len(self.queue) + 1
        <5>1. i \in 1 .. Len(self.queue) /\ self'.queue[i] = self.queue[i]
          BY <1>3, <3>0, <4>2
        <5>2. self.queue[i] \in 1 .. calls /\ self.queue[i] >= hearing
              /\ (self.within => self.queue[i] > hearing)
          BY <5>1 DEF ListInv, QueueInv
        <5>3. ASSUME NEW j \in 1 .. Len(self'.queue), i < j PROVE self'.queue[i] < self'.queue[j]
          <6>1. CASE j = Len(self.queue) + 1
            <7>1. self'.queue[j] = calls + 1
              BY <1>3, <3>0, <6>1
            <7> QED BY <5>1, <5>2, <7>1, ListGiven
          <6>2. CASE j # Len(self.queue) + 1
            <7>1. j \in 1 .. Len(self.queue) /\ self'.queue[j] = self.queue[j]
              BY <1>3, <3>0, <6>2
            <7> QED BY <5>1, <5>3, <7>1 DEF ListInv, QueueInv
          <6> QED BY <6>1, <6>2
        <5>4. self'.within = self.within /\ calls' = calls + 1 /\ calls \in Nat
          BY <1>1, <1>5, <1>6, ListGiven
        <5>5. self'.queue[i] \in 1 .. calls'
          BY <5>1, <5>2, <5>4
        <5>6. self'.queue[i] >= hearing /\ (self'.within => self'.queue[i] > hearing)
          BY <5>1, <5>2, <5>4
        <5> QED BY <5>3, <5>5, <5>6
      <4> QED BY <4>1, <4>2
    <3> QED BY <1>1, <3>1 DEF QueueInv
  <2>6. MemoryInv'
    <3>1. self.within /\ self.memory = NoValue => self.spent /\ self.list = <<>>
      BY <1>1, ListUsing
    <3> QED BY <1>1, <1>5, <1>6, <2>1, <3>1 DEF ListInv, MemoryInv
  <2>7. Ahead' = Ahead
    BY <1>1, <1>5, <1>6, <2>1, ListGiven, ListUsing DEF Ahead, Rest
  <2>8. Late = <<>> /\ Late' = <<>>
    <3>1. Late = <<>>
      BY <1>1, ListUsing
    <3>2. CASE self.within
      BY <1>5, <1>6, <3>1, <3>2 DEF Late
    <3>3. CASE ~self.within
      <4>1. self.queue = <<>>
        BY <1>1, <3>3, ListGiven, ListUsing DEF ListInv, TurnInv
      <4>2. Append(<<>>, calls + 1) = <<calls + 1>> /\ Head(<<calls + 1>>) = calls + 1
        OBVIOUS
      <4>3. Head(self'.queue) = calls + 1
        BY <1>5, <1>6, <4>1, <4>2 DEF q
      <4>4. hearing' # calls + 1
        BY <1>1, ListGiven
      <4> QED BY <1>1, <3>1, <4>3, <4>4 DEF Late
    <3> QED BY <3>1, <3>2, <3>3
  <2> QED BY <1>1, <1>5, <1>6, <2>2, <2>3, <2>4, <2>5, <2>6, <2>7, <2>8, AsBefore DEF ListInv
<1> QED BY <1>4, <1>6

-----------------------------------------------------------------------------
(* fire().                                                                 *)

LEMMA BehindAll ==
    ASSUME NEW S, NEW l \in Seq(S)
    PROVE  Behind(l, -1) = l
<1>1. -1 \in Int /\ -1 >= -1
  OBVIOUS
<1> QED BY <1>1, BehindIs

LEMMA BehindNext ==
    ASSUME NEW S, NEW l \in Seq(S), NEW k \in Int, k >= -1, k + 1 < Len(l)
    PROVE  /\ Behind(l, k) # <<>> /\ Head(Behind(l, k)) = l[k + 2]
           /\ Tail(Behind(l, k)) = Behind(l, k + 1)
BY BehindIs

LEMMA ShiftKeeps == ListInv /\ ShiftStep => ListInv' /\ Step
<1> SUFFICES ASSUME ListInv, ShiftStep PROVE ListInv' /\ Step
  OBVIOUS
<1> DEFINE v == Head(self.queue)
           q == Tail(self.queue)
<1>0. self' = [self EXCEPT !.memory = v, !.queue = q, !.within = TRUE]
  BY DEF ShiftStep, Shift
<1>1. /\ inFire /\ running = NoFn /\ ~self.within /\ self.queue # <<>>
      /\ hearing' = v /\ emptied' = FALSE
      /\ inFire' = inFire /\ running' = running /\ calls' = calls
  BY DEF ShiftStep, Loop, CanShift
<1>2. /\ v = self.queue[1] /\ 1 \in 1 .. Len(self.queue) /\ v \in Nat
      /\ v \in 1 .. calls /\ v >= hearing /\ v \in 1 .. MaxCalls
  <2>1. v = self.queue[1] /\ 1 \in 1 .. Len(self.queue)
    BY <1>1, ListGiven
  <2>2. v \in 1 .. calls /\ v >= hearing
    BY <2>1 DEF ListInv, QueueInv
  <2> QED BY <2>1, <2>2, ListGiven
<1>3. /\ q \in Seq(Nat) /\ Len(q) = Len(self.queue) - 1
      /\ \A i \in 1 .. Len(q) : q[i] = self.queue[i + 1] /\ i + 1 \in 1 .. Len(self.queue)
  <2>1. q \in Seq(Nat) /\ Len(q) = Len(self.queue) - 1
        /\ \A i \in 1 .. Len(q) : q[i] = self.queue[i + 1]
    BY <1>1, ListGiven, HeadTailProperties
  <2> QED BY <2>1, ListGiven
<1> HIDE DEF v, q
<1>4. /\ self' \in Lists /\ self'.list = self.list /\ self'.firingIndex = self.firingIndex
      /\ self'.memory = v /\ self'.within /\ self'.queue = q /\ self'.firing = self.firing
  BY <1>0, <1>2, <1>3, ListGiven DEF Lists
<1>5. ListTypes' /\ TurnInv'
  <2>1. self.firing
    BY <1>1 DEF ListInv, TurnInv
  <2>2. v \in 0 .. calls /\ calls \in 0 .. MaxCalls
    BY <1>2, ListGiven
  <2>3. ListTypes'
    BY <1>1, <1>4, <2>2, ListGiven DEF ListTypes
  <2>4. TurnInv'
    BY <1>1, <1>4, <2>1 DEF TurnInv
  <2> QED BY <2>3, <2>4
<1>6. IndexInv'
  BY <1>1, <1>4, ListGiven DEF IndexInv
<1>7. QueueInv'
  <2>1. ASSUME NEW i \in 1 .. Len(q)
        PROVE  q[i] \in 1 .. calls /\ q[i] > v
    <3>1. q[i] = self.queue[i + 1] /\ i + 1 \in 1 .. Len(self.queue) /\ 1 < i + 1
      BY <1>3
    <3> QED BY <1>2, <3>1 DEF ListInv, QueueInv
  <2>2. ASSUME NEW i \in 1 .. Len(q), NEW j \in 1 .. Len(q), i < j
        PROVE  q[i] < q[j]
    <3>1. /\ q[i] = self.queue[i + 1] /\ i + 1 \in 1 .. Len(self.queue)
          /\ q[j] = self.queue[j + 1] /\ j + 1 \in 1 .. Len(self.queue) /\ i + 1 < j + 1
      BY <1>3, <2>2
    <3> QED BY <3>1 DEF ListInv, QueueInv
  <2>3. ASSUME NEW i \in 1 .. Len(q) PROVE q[i] >= v
    <3>1. q[i] \in Int /\ v \in Int /\ q[i] > v
      BY <1>2, <2>1
    <3> QED BY <3>1
  <2> QED BY <1>1, <1>4, <2>1, <2>2, <2>3 DEF QueueInv
<1>8. MemoryInv'
  BY <1>1, <1>2, <1>4, ListGiven DEF MemoryInv
<1>9. Ahead = <<>> /\ Late' = <<>> /\ Ahead' = Rest
  BY <1>1, <1>4 DEF Ahead, Late, Rest
<1>10. (v > hearing /\ Ahead' = self.list) \/ (v = hearing /\ Ahead' = Late)
  <2>1. CASE v = hearing
    BY <1>1, <1>9, <2>1 DEF Late, v
  <2>2. CASE v # hearing
    <3>1. self.firingIndex = -1
      BY <1>1, <1>2, <2>2 DEF ListInv, IndexInv
    <3>2. Rest = self.list
      BY <3>1, ListGiven, BehindAll
    <3>3. v > hearing
      BY <1>2, <2>2, ListGiven
    <3> QED BY <1>9, <3>2, <3>3
  <2> QED BY <2>1, <2>2
<1> QED BY <1>1, <1>2, <1>4, <1>5, <1>6, <1>7, <1>8, <1>9, <1>10, AsBegins DEF ListInv

LEMMA CallKeeps == ListInv /\ CallStep => ListInv' /\ Step
<1> SUFFICES ASSUME ListInv, CallStep PROVE ListInv' /\ Step
  OBVIOUS
<1>0. self' = [self EXCEPT !.firingIndex = @ + 1]
  BY DEF CallStep, Call
<1>1. /\ inFire /\ running = NoFn /\ self.within /\ self.firingIndex + 1 < Len(self.list)
      /\ running' = self.list[self.firingIndex + 2]
      /\ UNCHANGED <<inFire, calls, hearing, emptied>>
  BY DEF CallStep, Loop, CanCall, Callee
<1>2. /\ self' \in Lists /\ self'.list = self.list /\ self'.firingIndex = self.firingIndex + 1
      /\ self'.memory = self.memory /\ self'.within = self.within /\ self'.queue = self.queue
      /\ self'.firing = self.firing /\ self'.spent = self.spent
  <2>1. self.firingIndex + 1 \in Int
    BY ListGiven
  <2> QED BY <1>0, <2>1, ListGiven DEF Lists
<1>3. ListTypes' /\ TurnInv'
  <2>1. self.firing
    BY <1>1 DEF ListInv, TurnInv
  <2>2. ListTypes'
    BY <1>1, <1>2 DEF ListInv, ListTypes
  <2>3. TurnInv'
    BY <1>1, <1>2, <2>1 DEF TurnInv
  <2> QED BY <2>2, <2>3
<1>4. IndexInv'
  BY <1>1, <1>2, ListGiven DEF IndexInv
<1>5. QueueInv'
  BY <1>1, <1>2, ListGiven DEF ListInv, QueueInv
<1>6. MemoryInv'
  BY <1>1, <1>2, ListGiven DEF ListInv, MemoryInv
<1>7. Ahead = Rest /\ Ahead' = Rest' /\ Late = <<>> /\ Late' = <<>>
  <2>1. inFire /\ self.within /\ inFire' /\ self'.within
    BY <1>1, <1>2
  <2>2. Ahead = Rest /\ Late = <<>>
    BY <2>1 DEF Ahead, Late
  <2>3. Ahead' = Rest' /\ Late' = <<>>
    BY <2>1 DEF Ahead, Late
  <2> QED BY <2>2, <2>3
<1>8. Ahead # <<>> /\ Head(Ahead) = self.list[self.firingIndex + 2]
  <2>1. /\ self.list \in Seq(Fns) /\ self.firingIndex \in Int /\ self.firingIndex >= -1
        /\ self.firingIndex + 1 < Len(self.list)
    BY <1>1, ListGiven
  <2>2. LET b == Behind(self.list, self.firingIndex)
        IN  b # <<>> /\ Head(b) = self.list[self.firingIndex + 2]
    BY <2>1, BehindNext
  <2>3. Ahead = Behind(self.list, self.firingIndex)
    BY <1>7, ListGiven
  <2> QED BY <2>2, <2>3, Zenon
<1>9. Ahead' = Tail(Ahead)
  <2>1. Rest' = Behind(self.list, self.firingIndex + 1)
    BY <1>2 DEF Rest, Behind
  <2>2. Tail(Behind(self.list, self.firingIndex)) = Behind(self.list, self.firingIndex + 1)
    BY <1>1, ListGiven, BehindNext
  <2> QED BY <1>7, <2>1, <2>2, ListGiven
<1> QED BY <1>1, <1>2, <1>3, <1>4, <1>5, <1>6, <1>7, <1>8, <1>9, AsHears DEF ListInv

LEMMA ExhaustedKeeps == ListInv /\ ExhaustedStep => ListInv' /\ Step
<1> SUFFICES ASSUME ListInv, ExhaustedStep PROVE ListInv' /\ Step
  OBVIOUS
<1>0. self' = [self EXCEPT !.firingIndex = -1, !.within = FALSE]
  BY DEF ExhaustedStep, Exhausted
<1>1. /\ inFire /\ running = NoFn /\ self.within /\ self.firingIndex + 1 >= Len(self.list)
      /\ UNCHANGED <<inFire, running, calls, hearing, emptied>>
  BY DEF ExhaustedStep, Loop, IsExhausted
<1>2. /\ self' \in Lists /\ self'.list = self.list /\ self'.firingIndex = -1
      /\ self'.memory = self.memory /\ ~self'.within /\ self'.queue = self.queue
      /\ self'.firing = self.firing /\ self'.spent = self.spent
  <2>1. -1 \in Int
    OBVIOUS
  <2> QED BY <1>0, <2>1, ListGiven DEF Lists
<1>3. ListTypes' /\ TurnInv'
  <2>1. self.firing
    BY <1>1 DEF ListInv, TurnInv
  <2>2. ListTypes'
    BY <1>1, <1>2 DEF ListInv, ListTypes
  <2>3. TurnInv'
    BY <1>1, <1>2, <2>1 DEF TurnInv
  <2> QED BY <2>2, <2>3
<1>4. IndexInv'
  BY <1>1, <1>2, ListGiven DEF IndexInv
<1>5. QueueInv'
  BY <1>1, <1>2, ListGiven DEF ListInv, QueueInv
<1>6. MemoryInv'
  BY <1>1, <1>2, ListGiven DEF ListInv, MemoryInv
<1>7. Ahead = <<>> /\ Ahead' = <<>>
  BY <1>1, <1>2, ListGiven, BehindNone DEF Ahead
<1>8. Late = <<>>
  BY <1>1 DEF Late
<1>9. Late' = <<>>
  <2>1. self.queue # <<>> => Head(self.queue) > hearing
    BY <1>1, ListGiven DEF ListInv, QueueInv
  <2> QED BY <1>1, <1>2, <2>1, ListGiven DEF Late
<1> QED BY <1>1, <1>2, <1>3, <1>4, <1>5, <1>6, <1>7, <1>8, <1>9, AsBefore DEF ListInv

LEMMA DoneKeeps == ListInv /\ DoneStep => ListInv' /\ Step
<1> SUFFICES ASSUME ListInv, DoneStep PROVE ListInv' /\ Step
  OBVIOUS
<1> DEFINE m == IF "memory" \in self.options THEN self.memory ELSE NoValue
<1>0. self' = [self EXCEPT !.memory = m, !.firing = FALSE,
                           !.list = IF self.locked THEN <<>> ELSE @,
                           !.spent = @ \/ (self.locked /\ m = NoValue)]
  BY DEF DoneStep, Done
<1>1. /\ inFire /\ running = NoFn /\ ~self.within /\ self.queue = <<>>
      /\ inFire' = FALSE /\ emptied' = (emptied \/ self.locked)
      /\ UNCHANGED <<running, calls, hearing>>
  BY DEF DoneStep, Loop, IsDone
<1>2. m \in {self.memory, NoValue} /\ m \in Nat \cup {NoValue}
  BY ListGiven DEF Lists
<1> HIDE DEF m
<1>3. /\ self' \in Lists /\ self'.list = IF self.locked THEN <<>> ELSE self.list
      /\ self'.firingIndex = self.firingIndex
      /\ self'.memory = m /\ ~self'.within /\ self'.queue = <<>> /\ ~self'.firing
  BY <1>0, <1>1, <1>2, ListGiven, EmptySeq DEF Lists
<1>4. ListTypes' /\ TurnInv'
  BY <1>1, <1>3, ListGiven DEF ListInv, ListTypes, TurnInv
<1>5. IndexInv'
  BY <1>1, <1>3, ListGiven DEF ListInv, IndexInv
<1>6. QueueInv'
  BY <1>3, EmptySeq DEF QueueInv
<1>7. MemoryInv'
  BY <1>1, <1>2, <1>3, ListGiven DEF ListInv, MemoryInv
<1>8. Ahead = <<>> /\ Late = <<>> /\ Ahead' = <<>> /\ Late' = <<>>
  BY <1>1, <1>3 DEF Ahead, Late
<1>9. CASE self.locked
  BY <1>1, <1>3, <1>4, <1>5, <1>6, <1>7, <1>8, <1>9, AsEmpties DEF ListInv
<1>10. CASE ~self.locked
  <2>1. emptied' = emptied
    BY <1>1, <1>10, ListGiven
  <2> QED BY <1>1, <1>3, <1>4, <1>5, <1>6, <1>7, <1>8, <1>10, <2>1, AsBefore DEF ListInv
<1> QED BY <1>9, <1>10

LEMMA ListReturnKeeps == ListInv /\ Return => ListInv' /\ Step
<1> SUFFICES ASSUME ListInv, Return PROVE ListInv' /\ Step
  OBVIOUS
<1>1. /\ running # NoFn /\ inFire /\ self.within /\ running' = NoFn
      /\ self' \in {self, [self EXCEPT !.firingIndex = Len(self.list), !.memory = NoValue]}
      /\ UNCHANGED <<inFire, calls, hearing, emptied>>
  BY DEF Return, ReturnFalse, ListInv, TurnInv
<1>2. Late = <<>> /\ Ahead = Rest
  BY <1>1 DEF Late, Ahead
<1>3. CASE self' = self
  <2>1. ListTypes' /\ TurnInv' /\ IndexInv'
    BY <1>1, <1>3, ListGiven DEF ListInv, ListTypes, TurnInv, IndexInv
  <2>2. QueueInv' /\ MemoryInv'
    BY <1>1, <1>3 DEF ListInv, QueueInv, MemoryInv
  <2>3. Ahead' = Ahead /\ Late' = Late
    BY <1>1, <1>3 DEF Ahead, Late, Rest
  <2> QED BY <1>1, <1>3, <2>1, <2>2, <2>3, AsEnds DEF ListInv
<1>4. CASE self' = [self EXCEPT !.firingIndex = Len(self.list), !.memory = NoValue]
  <2>1. /\ self' \in Lists /\ self'.list = self.list /\ self'.firingIndex = Len(self.list)
        /\ self'.memory = NoValue /\ self'.within = self.within /\ self'.queue = self.queue
        /\ self'.firing = self.firing /\ self'.spent = self.spent
    <3>1. Len(self.list) \in Int
      BY ListGiven
    <3> QED BY <1>4, <3>1, ListGiven DEF Lists
  <2>2. ListTypes' /\ TurnInv'
    BY <1>1, <2>1, ListGiven DEF ListInv, ListTypes, TurnInv
  <2>3. IndexInv'
    BY <1>1, <2>1, ListGiven DEF IndexInv
  <2>4. QueueInv'
    BY <1>1, <2>1 DEF ListInv, QueueInv
  <2>5. MemoryInv'
    BY <1>1, <2>1, ListGiven DEF MemoryInv
  <2>6. Rest' = <<>>
    <3>1. Len(self.list) \in Int /\ Len(self.list) >= -1 /\ Len(self.list) + 1 >= Len(self.list)
      BY ListGiven
    <3>2. Behind(self.list, Len(self.list)) = <<>>
      BY <3>1, ListGiven, BehindNone
    <3> QED BY <2>1, <3>2 DEF Rest, Behind
  <2>7. Ahead' = <<>> /\ Late' = <<>>
    BY <1>1, <2>1, <2>6 DEF Ahead, Late
  <2> QED BY <1>1, <1>2, <2>1, <2>2, <2>3, <2>4, <2>5, <2>7, AsEnds DEF ListInv
<1> QED BY <1>1, <1>3, <1>4

LEMMA ListThrowKeeps == ListInv /\ Throw => ListInv' /\ Step
<1> SUFFICES ASSUME ListInv, Throw PROVE ListInv' /\ Step
  OBVIOUS
<1>1. /\ running # NoFn /\ inFire /\ self.within /\ running' = NoFn /\ inFire' = FALSE
      /\ UNCHANGED <<self, calls, hearing, emptied>>
  BY DEF Throw, ListInv, TurnInv
<1>2. ListTypes' /\ TurnInv'
  BY <1>1, ListGiven DEF ListInv, ListTypes, TurnInv
<1>3. IndexInv' /\ QueueInv' /\ MemoryInv'
  BY <1>1 DEF ListInv, IndexInv, QueueInv, MemoryInv
<1>4. Late = <<>> /\ Late' = <<>> /\ Ahead' = <<>>
  BY <1>1 DEF Late, Ahead
<1> QED BY <1>1, <1>2, <1>3, <1>4, AsEnds DEF ListInv

\* Every step, or none.
LEMMA ListStepKeeps == ListInv /\ [Next]_vars => ListInv' /\ Step
<1> SUFFICES ASSUME ListInv, [Next]_vars PROVE ListInv' /\ Step
  OBVIOUS
<1>1. CASE Next
  BY <1>1, AddKeeps, RemoveKeeps, EmptyKeeps, DisableKeeps, LockKeeps, FireKeeps,
     ShiftKeeps, CallKeeps, ExhaustedKeeps, DoneKeeps, ListReturnKeeps, ListThrowKeeps DEF Next
<1>2. CASE UNCHANGED vars
  <2>1. ListInv'
    BY <1>2 DEF vars, ListInv, ListTypes, TurnInv, IndexInv, QueueInv, MemoryInv
  <2>2. Ahead' = Ahead /\ Late' = Late
    BY <1>2 DEF vars, Ahead, Late, Rest
  <2> QED BY <1>2, <2>1, <2>2, AsBefore DEF vars
<1> QED BY <1>1, <1>2

LEMMA ListStarts == Init => ListInv /\ Promised!Init
<1> SUFFICES ASSUME Init PROVE ListInv /\ Promised!Init
  OBVIOUS
<1>1. PICK options \in OptionSets : self = New(options)
  BY DEF Init
<1>2. inFire = FALSE /\ running = NoFn /\ calls = 0 /\ hearing = 0 /\ emptied = FALSE
  BY DEF Init
<1>3. <<>> \in Seq(Fns) /\ <<>> \in Seq(Nat) /\ Len(<<>>) = 0
  BY EmptySeq
<1>4. /\ self \in Lists /\ self.list = <<>> /\ self.queue = <<>> /\ self.firingIndex = -1
      /\ self.memory = NoValue /\ ~self.within /\ ~self.firing
  BY <1>1, <1>3 DEF New, Lists
<1>5. ListTypes
  <2>1. calls \in 0 .. MaxCalls /\ hearing \in 0 .. calls
    BY <1>2, CallsAssumption
  <2> QED BY <1>2, <1>4, <2>1 DEF ListTypes
<1>6. TurnInv /\ IndexInv /\ QueueInv /\ MemoryInv
  BY <1>2, <1>3, <1>4 DEF TurnInv, IndexInv, QueueInv, MemoryInv
<1>7. Promised!Init
  BY <1>2, <1>4 DEF Promised!Init
<1> QED BY <1>5, <1>6, <1>7 DEF ListInv

\* The inductive invariant of a callback list: where fire() may stand, that the
\* pending executions are in their order and none is over, and that firingIndex
\* is never behind what a callback that runs has done to the list.
THEOREM ListInvariance == Spec => []ListInv
<1>1. Init => ListInv
  BY ListStarts
<1>2. ListInv /\ [Next]_vars => ListInv'
  BY ListStepKeeps
<1> QED BY <1>1, <1>2, PTL DEF Spec

\* A callback list keeps its promise whatever the callbacks do to the list that is
\* calling them: executions in the order they were asked for, each heard by
\* every member in the order of the list, by nobody twice and nobody skipped;
\* who joins during one hears it, who leaves does not.
THEOREM SubscribersImplemented == Spec => ImplementsSubscribers
<1>1. Init => Promised!Init
  BY ListStarts
<1>2. ListInv /\ [Next]_vars => [Promised!Next]_(Promised!vars)
  BY ListStepKeeps DEF Step
<1> QED BY <1>1, <1>2, ListInvariance, PTL DEF Spec, ImplementsSubscribers, Promised!Spec
=============================================================================
