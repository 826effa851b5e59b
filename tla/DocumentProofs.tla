---------------------------- MODULE DocumentProofs ----------------------------
(***************************************************************************)
(* Theorems about nodes and data, for any number of nodes, calls and data  *)
(* types.                                                                  *)
(*                                                                         *)
(* The nodes that have a listener are those that were given one, and what  *)
(* listens to a node dispatches to it, never to the node that it is a copy *)
(* of: a node's handle is its own or is not there, also in the midst of a  *)
(* clone, whose copies get their data one after the other.                 *)
(*                                                                         *)
(* What a request hands over is a value of the type that was asked for.    *)
(* On the way there the last type asked for is still to come, or it is the *)
(* current one, and the response is always a value of the current one.     *)
(***************************************************************************)
EXTENDS DocumentParts, SequenceTheorems, FiniteSetTheorems, WellFoundedInduction, TLAPS

-----------------------------------------------------------------------------
(* Induction, as the least number of a set.                                *)

LEMMA LeastNumber ==
    ASSUME NEW S, S \subseteq Nat, S # {}
    PROVE  \E n \in S : \A m \in S : n <= m
<1> DEFINE R == {ij \in Nat \X Nat : ij[1] < ij[2]}
<1>1. R = {ij \in Nat \X Nat : ij[1] < ij[2]}
  OBVIOUS
<1>2. IsWellFoundedOn(R, Nat)
  BY <1>1, NatLessThanWellFounded DEF OpToRel
<1>3. PICK n \in S : \A m \in S : ~(<<m, n>> \in R)
  BY <1>2, WFMin
<1>4. ASSUME NEW m \in S PROVE n <= m
  <2>1. <<m, n>> \in Nat \X Nat
    OBVIOUS
  <2>2. m < n => <<m, n>> \in R
    BY <1>1, <2>1
  <2> QED BY <1>3, <2>2
<1> QED BY <1>4

\* A set that holds 0, and n + 1 with n, holds every number up to a bound.
LEMMA UpTo ==
    ASSUME NEW L \in Nat, NEW S, 0 \in S,
           \A n \in 0 .. L - 1 : n \in S => n + 1 \in S
    PROVE  0 .. L \subseteq S
<1> DEFINE Bad == (0 .. L) \ S
<1> SUFFICES ASSUME Bad # {} PROVE FALSE
  OBVIOUS
<1>0. Bad \subseteq Nat
  OBVIOUS
<1>1. PICK n \in Bad : \A m \in Bad : n <= m
  BY <1>0, LeastNumber
<1>2. n # 0 /\ n \in Nat /\ n <= L /\ n \notin S
  BY <1>1
<1>3. n - 1 \in S
  <2>1. n - 1 \in 0 .. L /\ ~(n <= n - 1)
    BY <1>2
  <2> QED BY <1>1, <2>1
<1> QED BY <1>2, <1>3

-----------------------------------------------------------------------------
(* Manipulation.  A page whose nodes `listening' have listeners of their   *)
(* own, and no other node has any.                                         *)

IsPage(p) ==
    p = [count |-> p.count, script |-> p.script, parent |-> p.parent, origin |-> p.origin,
         events |-> p.events, handle |-> p.handle, heard |-> p.heard, globalEval |-> p.globalEval]

HasListeners(p, listening) ==
    /\ IsPage(p) /\ p.count \in 0 .. MaxNodes /\ p.events = listening /\ listening \subseteq 1 .. p.count
    /\ p.handle = [n \in 1 .. MaxNodes |-> IF n \in listening THEN n ELSE -1]
    /\ p.heard = [n \in 1 .. MaxNodes |-> IF n \in listening THEN {n} ELSE {}]

LEMMA PlacedListens ==
    ASSUME NEW p, NEW listening, HasListeners(p, listening), NEW n, NEW place
    PROVE  /\ HasListeners(Manip!Placed(p, n, place), listening)
           /\ Manip!Placed(p, n, place).count = p.count
<1> DEFINE parent == [p.parent EXCEPT ![n] = place]
<1> HIDE DEF parent
<1>1. IsPage(p)
  BY DEF HasListeners
<1>2. Manip!Placed(p, n, place) =
          [count |-> p.count, script |-> p.script, parent |-> parent, origin |-> p.origin,
           events |-> p.events, handle |-> p.handle, heard |-> p.heard, globalEval |-> p.globalEval]
  BY <1>1 DEF Manip!Placed, IsPage, parent
<1> QED BY <1>2 DEF HasListeners, IsPage

LEMMA MarkedListens ==
    ASSUME NEW p, NEW listening, HasListeners(p, listening), NEW scripts
    PROVE  /\ HasListeners(Manip!Marked(p, scripts), listening)
           /\ Manip!Marked(p, scripts).count = p.count
<1> DEFINE marked == p.globalEval \union scripts
<1> HIDE DEF marked
<1>1. IsPage(p)
  BY DEF HasListeners
<1>2. Manip!Marked(p, scripts) =
          [count |-> p.count, script |-> p.script, parent |-> p.parent, origin |-> p.origin,
           events |-> p.events, handle |-> p.handle, heard |-> p.heard, globalEval |-> marked]
  BY <1>1 DEF Manip!Marked, IsPage, marked
<1> QED BY <1>2 DEF HasListeners, IsPage

LEMMA CleanedListens ==
    ASSUME NEW p, NEW listening, HasListeners(p, listening), NEW nodes
    PROVE  /\ HasListeners(Manip!Cleaned(p, nodes), listening \ nodes)
           /\ Manip!Cleaned(p, nodes).count = p.count
<1> DEFINE heardAfter == [n \in 1 .. MaxNodes |->
               IF n \in nodes /\ n \in p.events THEN p.heard[n] \ {p.handle[n]} ELSE p.heard[n]]
           handleAfter == [n \in 1 .. MaxNodes |-> IF n \in nodes THEN -1 ELSE p.handle[n]]
           eventsAfter == p.events \ nodes
           evalAfter == p.globalEval \ nodes
<1>1. /\ IsPage(p) /\ p.count \in 0 .. MaxNodes /\ p.events = listening /\ listening \subseteq 1 .. p.count
      /\ p.handle = [n \in 1 .. MaxNodes |-> IF n \in listening THEN n ELSE -1]
      /\ p.heard = [n \in 1 .. MaxNodes |-> IF n \in listening THEN {n} ELSE {}]
  BY DEF HasListeners
<1>2. handleAfter = [n \in 1 .. MaxNodes |-> IF n \in listening \ nodes THEN n ELSE -1]
  BY <1>1
<1>3. heardAfter = [n \in 1 .. MaxNodes |-> IF n \in listening \ nodes THEN {n} ELSE {}]
  <2>1. ASSUME NEW n \in 1 .. MaxNodes
        PROVE  heardAfter[n] = IF n \in listening \ nodes THEN {n} ELSE {}
    BY <1>1
  <2> QED BY <2>1
<1> HIDE DEF heardAfter, handleAfter, eventsAfter, evalAfter
<1>4. Manip!Cleaned(p, nodes) =
          [count |-> p.count, script |-> p.script, parent |-> p.parent, origin |-> p.origin,
           events |-> eventsAfter, handle |-> handleAfter, heard |-> heardAfter, globalEval |-> evalAfter]
  <2>1. Manip!Cleaned(p, nodes) = [p EXCEPT !.heard = heardAfter, !.events = eventsAfter,
                                            !.handle = handleAfter, !.globalEval = evalAfter]
    BY DEF Manip!Cleaned, Manip!Nodes, Manip!Nowhere, heardAfter, handleAfter, eventsAfter, evalAfter
  <2> QED BY <1>1, <2>1 DEF IsPage
<1>5. eventsAfter = listening \ nodes
  BY <1>1 DEF eventsAfter
<1> QED BY <1>1, <1>2, <1>3, <1>4, <1>5 DEF HasListeners, IsPage

LEMMA ListensListens ==
    ASSUME NEW p, NEW listening, HasListeners(p, listening), NEW n \in 1 .. p.count
    PROVE  /\ HasListeners(Manip!Listens(p, n), listening \union {n})
           /\ Manip!Listens(p, n).count = p.count
<1> DEFINE owner == IF p.handle[n] = -1 THEN n ELSE p.handle[n]
           eventsAfter == p.events \union {n}
           handleAfter == [p.handle EXCEPT ![n] = owner]
           heardAfter == [p.heard EXCEPT ![n] = IF n \in p.events THEN @ ELSE @ \union {owner}]
<1>1. /\ IsPage(p) /\ p.count \in 0 .. MaxNodes /\ p.events = listening /\ listening \subseteq 1 .. p.count
      /\ p.handle = [m \in 1 .. MaxNodes |-> IF m \in listening THEN m ELSE -1]
      /\ p.heard = [m \in 1 .. MaxNodes |-> IF m \in listening THEN {m} ELSE {}]
      /\ n \in 1 .. MaxNodes
  BY NodesAssumption DEF HasListeners
<1>2. owner = n
  BY <1>1
<1>3. handleAfter = [m \in 1 .. MaxNodes |-> IF m \in listening \union {n} THEN m ELSE -1]
  BY <1>1, <1>2
<1>4. heardAfter = [m \in 1 .. MaxNodes |-> IF m \in listening \union {n} THEN {m} ELSE {}]
  BY <1>1, <1>2
<1>5. eventsAfter = listening \union {n} /\ eventsAfter \subseteq 1 .. p.count
  BY <1>1
<1> HIDE DEF heardAfter, handleAfter, eventsAfter
<1>6. Manip!Listens(p, n) =
          [count |-> p.count, script |-> p.script, parent |-> p.parent, origin |-> p.origin,
           events |-> eventsAfter, handle |-> handleAfter, heard |-> heardAfter, globalEval |-> p.globalEval]
  <2>1. Manip!Listens(p, n) = [p EXCEPT !.events = eventsAfter, !.handle = handleAfter, !.heard = heardAfter]
    BY DEF Manip!Listens, Manip!Nowhere, heardAfter, handleAfter, eventsAfter
  <2> QED BY <1>1, <2>1 DEF IsPage
<1> QED BY <1>1, <1>3, <1>4, <1>5, <1>6 DEF HasListeners, IsPage

LEMMA CopyListens ==
    ASSUME NEW p, NEW listening, HasListeners(p, listening), NEW src, NEW dest \in 1 .. p.count,
           dest \notin listening
    PROVE  /\ src \in listening => HasListeners(Manip!CopyEvent(p, src, dest), listening \union {dest})
           /\ src \notin listening => HasListeners(Manip!CopyEvent(p, src, dest), listening)
           /\ Manip!CopyEvent(p, src, dest).count = p.count
<1> DEFINE evalAfter == IF src \in p.globalEval THEN p.globalEval \union {dest} ELSE p.globalEval
           copied == [p EXCEPT !.globalEval = IF src \in p.globalEval THEN @ \union {dest} ELSE @,
                               !.handle[dest] = -1]
<1>1. /\ IsPage(p) /\ p.events = listening
      /\ p.handle = [m \in 1 .. MaxNodes |-> IF m \in listening THEN m ELSE -1]
  BY DEF HasListeners
<1>2. [p.handle EXCEPT ![dest] = -1] = p.handle
  BY <1>1
<1> HIDE DEF evalAfter
<1>3. copied =
          [count |-> p.count, script |-> p.script, parent |-> p.parent, origin |-> p.origin,
           events |-> p.events, handle |-> p.handle, heard |-> p.heard, globalEval |-> evalAfter]
  <2>1. copied =
          [count |-> p.count, script |-> p.script, parent |-> p.parent, origin |-> p.origin,
           events |-> p.events, handle |-> [p.handle EXCEPT ![dest] = -1], heard |-> p.heard,
           globalEval |-> evalAfter]
    <3> DEFINE handleAfter == [p.handle EXCEPT ![dest] = -1]
    <3>1. copied = [p EXCEPT !.globalEval = evalAfter, !.handle = handleAfter]
      BY DEF evalAfter
    <3> HIDE DEF handleAfter, copied
    <3>2. copied =
            [count |-> p.count, script |-> p.script, parent |-> p.parent, origin |-> p.origin,
             events |-> p.events, handle |-> handleAfter, heard |-> p.heard, globalEval |-> evalAfter]
      BY <1>1, <3>1 DEF IsPage
    <3> QED BY <3>2 DEF handleAfter
  <2> QED BY <1>2, <2>1
<1>4. Manip!CopyEvent(p, src, dest) = IF src \in p.events THEN Manip!Listens(copied, dest) ELSE copied
  BY DEF Manip!CopyEvent, Manip!Nowhere
<1> HIDE DEF copied
<1>5. HasListeners(copied, listening) /\ copied.count = p.count
  BY <1>3 DEF HasListeners, IsPage
<1> QED BY <1>1, <1>4, <1>5, ListensListens

-----------------------------------------------------------------------------
(* The copies of a node and what is in it.                                 *)

LEMMA CopyIs ==
    ASSUME NEW p, p.count \in Nat, NEW n \in 1 .. p.count
    PROVE  LET all == Manip!GetAll(p, n)
               copy == Manip!Copy(p, n)
           IN  /\ all \subseteq 1 .. p.count /\ n \in all /\ DOMAIN copy = all
               /\ Cardinality(all) \in Nat
               /\ \A m \in all : copy[m] \in p.count + 1 .. p.count + Cardinality(all)
               /\ \A k, m \in all : k < m => copy[k] < copy[m]
               /\ Cardinality({copy[m] : m \in all}) = Cardinality(all)
<1> DEFINE all == Manip!GetAll(p, n)
           copy == Manip!Copy(p, n)
           upTo(m) == {k \in all : k <= m}
<1>1. all \subseteq 1 .. p.count /\ n \in all
  BY DEF Manip!GetAll
<1>2. copy = [m \in all |-> p.count + Cardinality(upTo(m))]
  BY DEF Manip!Copy, Manip!Cardinality, Cardinality
<1> HIDE DEF all, copy
<1>3. IsFiniteSet(all) /\ Cardinality(all) \in Nat
  <2>1. IsFiniteSet(1 .. p.count)
    BY FS_Interval
  <2> QED BY <1>1, <2>1, FS_Subset, FS_CardinalityType
<1>4. ASSUME NEW m \in all
      PROVE  IsFiniteSet(upTo(m)) /\ Cardinality(upTo(m)) \in 1 .. Cardinality(all)
  <2>1. upTo(m) \subseteq all /\ m \in upTo(m)
    BY <1>1
  <2> HIDE DEF upTo
  <2>2. IsFiniteSet(upTo(m)) /\ Cardinality(upTo(m)) \in Nat /\ Cardinality(upTo(m)) <= Cardinality(all)
    BY <1>3, <2>1, FS_Subset, FS_CardinalityType
  <2>3. Cardinality(upTo(m)) # 0
    BY <2>1, <2>2, FS_EmptySet
  <2> QED BY <1>3, <2>2, <2>3
<1>5. ASSUME NEW k \in all, NEW m \in all, k < m
      PROVE  Cardinality(upTo(k)) < Cardinality(upTo(m))
  <2>0. m \in upTo(m) /\ m \notin upTo(k)
    <3>1. k \in Int /\ m \in Int
      BY <1>1
    <3> QED BY <1>5, <3>1
  <2>a. ASSUME NEW i \in upTo(k) PROVE i \in upTo(m)
    <3>1. i \in Int /\ k \in Int /\ m \in Int /\ i <= k
      BY <1>1
    <3> QED BY <1>5, <3>1
  <2>1. upTo(k) \subseteq upTo(m) /\ m \in upTo(m) /\ m \notin upTo(k)
    BY <2>0, <2>a, Zenon
  <2>2. IsFiniteSet(upTo(m)) /\ Cardinality(upTo(m)) \in Nat /\ Cardinality(upTo(k)) \in Nat
    BY <1>4, <1>3
  <2> HIDE DEF upTo
  <2>3. /\ Cardinality(upTo(k)) <= Cardinality(upTo(m))
        /\ Cardinality(upTo(m)) = Cardinality(upTo(k)) => upTo(m) = upTo(k)
    BY <2>1, <2>2, FS_Subset
  <2> QED BY <2>1, <2>2, <2>3
<1>6. \A m \in all : copy[m] = p.count + Cardinality(upTo(m))
  BY <1>2
<1>7. DOMAIN copy = all
  BY <1>2
<1> HIDE DEF upTo
<1>8. \A m \in all : copy[m] \in p.count + 1 .. p.count + Cardinality(all)
  BY <1>3, <1>4, <1>6
<1>9. \A k, m \in all : k < m => copy[k] < copy[m]
  <2> SUFFICES ASSUME NEW k \in all, NEW m \in all, k < m PROVE copy[k] < copy[m]
    OBVIOUS
  <2>1. Cardinality(upTo(k)) \in Nat /\ Cardinality(upTo(m)) \in Nat
    BY <1>3, <1>4
  <2> QED BY <1>5, <1>6, <2>1
<1>10. Cardinality({copy[m] : m \in all}) = Cardinality(all)
  <2> DEFINE new == {copy[m] : m \in all}
  <2>1. \A k, m \in all : copy[k] = copy[m] => k = m
    <3> SUFFICES ASSUME NEW k \in all, NEW m \in all, k # m PROVE copy[k] # copy[m]
      OBVIOUS
    <3>1. copy[k] \in Nat /\ copy[m] \in Nat /\ (k < m \/ m < k)
      BY <1>1, <1>3, <1>8
    <3> QED BY <1>9, <3>1
  <2>2. copy \in [all -> new]
    BY <1>2
  <2>3. copy \in Bijection(all, new)
    BY <2>1, <2>2 DEF Bijection, Injection, Surjection, IsInjective
  <2> HIDE DEF new
  <2>4. ExistsBijection(all, new)
    BY <2>3 DEF ExistsBijection
  <2>5. Cardinality(new) = Cardinality(all)
    BY <1>3, <2>4, FS_Bijection
  <2> QED BY <2>5 DEF new
<1> QED BY <1>1, <1>3, <1>7, <1>8, <1>9, <1>10 DEF all, copy

Room(p, n) == p.count + Cardinality(Manip!GetAll(p, n)) <= MaxNodes

LEMMA RoomIs == ASSUME NEW p, NEW n, Manip!HasRoom(p, n, 1), p.count \in Nat, n \in 1 .. p.count
                PROVE  Room(p, n)
<1>1. Manip!Cardinality(Manip!GetAll(p, n)) = Cardinality(Manip!GetAll(p, n))
  BY DEF Manip!Cardinality, Cardinality
<1>2. Cardinality(Manip!GetAll(p, n)) \in Nat
  BY CopyIs
<1> QED BY <1>1, <1>2 DEF Manip!HasRoom, Room

LEMMA CloneNodeListens ==
    ASSUME NEW p, NEW listening, HasListeners(p, listening), NEW n \in 1 .. p.count, Room(p, n)
    PROVE  /\ HasListeners(Manip!CloneNode(p, n), listening)
           /\ Manip!CloneNode(p, n).count = p.count + Cardinality(Manip!GetAll(p, n))
<1> DEFINE copy == Manip!Copy(p, n)
           old(m) == CHOOSE k \in DOMAIN copy : copy[k] = m
           new == {copy[m] : m \in DOMAIN copy}
           countAfter == p.count + Manip!Cardinality(new)
           scriptAfter == p.script \union {copy[m] : m \in Manip!Scripts(p, n)}
           parentAfter == [m \in Manip!Nodes |->
               IF m \in new THEN (IF old(m) = n THEN Manip!Nowhere ELSE copy[p.parent[old(m)]]) ELSE p.parent[m]]
           originAfter == [m \in Manip!Nodes |-> IF m \in new THEN p.origin[old(m)] ELSE p.origin[m]]
<1>1. Manip!CloneNode(p, n) = [p EXCEPT !.count = countAfter, !.script = scriptAfter,
                                        !.parent = parentAfter, !.origin = originAfter]
  BY DEF Manip!CloneNode
<1>2. countAfter = p.count + Cardinality(Manip!GetAll(p, n))
  <2>1. DOMAIN copy = Manip!GetAll(p, n)
        /\ Cardinality({copy[m] : m \in Manip!GetAll(p, n)}) = Cardinality(Manip!GetAll(p, n))
    BY CopyIs DEF HasListeners
  <2>2. Manip!Cardinality(new) = Cardinality(new)
    BY DEF Manip!Cardinality, Cardinality
  <2> HIDE DEF copy
  <2> QED BY <2>1, <2>2
<1>3. Cardinality(Manip!GetAll(p, n)) \in Nat
  <2>1. p.count \in Nat
    BY NodesAssumption DEF HasListeners
  <2> QED BY <2>1, CopyIs
<1> HIDE DEF countAfter, scriptAfter, parentAfter, originAfter
<1>4. Manip!CloneNode(p, n) =
          [count |-> countAfter, script |-> scriptAfter, parent |-> parentAfter, origin |-> originAfter,
           events |-> p.events, handle |-> p.handle, heard |-> p.heard, globalEval |-> p.globalEval]
  BY <1>1 DEF HasListeners, IsPage
<1>5. countAfter \in 0 .. MaxNodes /\ countAfter >= p.count
  BY <1>2, <1>3 DEF Room, HasListeners
<1> QED BY <1>2, <1>3, <1>4, <1>5 DEF HasListeners, IsPage

-----------------------------------------------------------------------------
(* The data of the nodes, copied one after the other.                      *)

Fills(p, n, withEvents, m, full) ==
    /\ full[0] = Manip!CloneNode(p, n)
    /\ \A k \in 1 .. m :
           full[k] = IF k \in withEvents THEN Manip!CopyEvent(full[k - 1], k, Manip!Copy(p, n)[k])
                     ELSE full[k - 1]

LEMMA FillsExists ==
    ASSUME NEW p, p.count \in Nat, NEW n, NEW withEvents
    PROVE  \E full : Fills(p, n, withEvents, p.count, full)
<1> DEFINE L == p.count
           P == {m \in 0 .. L : \E full : Fills(p, n, withEvents, m, full)}
<1> HIDE DEF L
<1>0. L \in Nat
  BY DEF L
<1>1. 0 \in P
  <2>1. Fills(p, n, withEvents, 0, [k \in 0 .. L |-> Manip!CloneNode(p, n)])
    BY <1>0 DEF Fills
  <2> QED BY <1>0, <2>1
<1>2. ASSUME NEW m \in 0 .. L - 1, m \in P PROVE m + 1 \in P
  <2>1. PICK full : Fills(p, n, withEvents, m, full)
    BY <1>2
  <2> DEFINE x == IF m + 1 \in withEvents THEN Manip!CopyEvent(full[m], m + 1, Manip!Copy(p, n)[m + 1])
                  ELSE full[m]
             more == [k \in 0 .. L |-> IF k = m + 1 THEN x ELSE full[k]]
  <2>2. m + 1 \in 0 .. L /\ m \in 0 .. L
    BY <1>0
  <2> HIDE DEF x
  <2>3. more[m + 1] = x /\ \A k \in 0 .. m : more[k] = full[k]
    BY <1>0, <2>2
  <2> HIDE DEF more
  <2>4. more[0] = Manip!CloneNode(p, n)
    BY <2>1, <2>2, <2>3 DEF Fills
  <2>5. ASSUME NEW k \in 1 .. m + 1
        PROVE  more[k] = IF k \in withEvents THEN Manip!CopyEvent(more[k - 1], k, Manip!Copy(p, n)[k])
                         ELSE more[k - 1]
    <3>1. more[k - 1] = full[k - 1]
      BY <2>2, <2>3
    <3>2. CASE k = m + 1
      <4>1. k - 1 = m
        BY <2>2, <3>2
      <4> QED BY <2>3, <3>1, <3>2, <4>1 DEF x
    <3>3. CASE k # m + 1
      <4>1. k \in 1 .. m /\ k \in 0 .. m
        BY <2>2, <3>3
      <4>2. full[k] = IF k \in withEvents THEN Manip!CopyEvent(full[k - 1], k, Manip!Copy(p, n)[k])
                      ELSE full[k - 1]
        BY <2>1, <4>1 DEF Fills
      <4> QED BY <2>3, <3>1, <4>1, <4>2
    <3> QED BY <3>2, <3>3
  <2>6. Fills(p, n, withEvents, m + 1, more)
    BY <2>4, <2>5 DEF Fills
  <2> QED BY <2>2, <2>6
<1>3. 0 .. L \subseteq P
  <2> HIDE DEF P
  <2> QED BY <1>0, <1>1, <1>2, UpTo
<1> QED BY <1>0, <1>3 DEF L

LEMMA CopyEventsFills ==
    ASSUME NEW p, p.count \in Nat, NEW n, NEW withEvents
    PROVE  \E full : /\ Fills(p, n, withEvents, p.count, full)
                     /\ Manip!CopyEvents(p, n, withEvents) = full[p.count]
<1> DEFINE Body(h) == [k \in 0 .. p.count |->
               IF k = 0 THEN Manip!CloneNode(p, n)
               ELSE IF k \in withEvents THEN Manip!CopyEvent(h[k - 1], k, Manip!Copy(p, n)[k])
               ELSE h[k - 1]]
           full == CHOOSE h : h = Body(h)
<1>1. PICK some : Fills(p, n, withEvents, p.count, some)
  BY FillsExists
<1> DEFINE h == [k \in 0 .. p.count |-> some[k]]
<1>2. h = Body(h)
  <2>1. ASSUME NEW k \in 0 .. p.count
        PROVE  h[k] = IF k = 0 THEN Manip!CloneNode(p, n)
                      ELSE IF k \in withEvents THEN Manip!CopyEvent(h[k - 1], k, Manip!Copy(p, n)[k])
                      ELSE h[k - 1]
    <3>1. CASE k = 0
      BY <1>1, <3>1 DEF Fills
    <3>2. CASE k # 0
      <4>1. k \in 1 .. p.count /\ k - 1 \in 0 .. p.count
        BY <3>2
      <4>2. h[k] = some[k] /\ h[k - 1] = some[k - 1]
        BY <4>1
      <4>3. some[k] = IF k \in withEvents THEN Manip!CopyEvent(some[k - 1], k, Manip!Copy(p, n)[k])
                      ELSE some[k - 1]
        BY <1>1, <4>1 DEF Fills
      <4> HIDE DEF h
      <4> QED BY <3>2, <4>2, <4>3
    <3> QED BY <3>1, <3>2
  <2> QED BY <2>1
<1>3. full = Body(full)
  <2> HIDE DEF Body, h
  <2> QED BY <1>2
<1>4. Manip!CopyEvents(p, n, withEvents) = full[p.count]
  BY DEF Manip!CopyEvents
<1> HIDE DEF full
<1>5. \A k \in 0 .. p.count :
          full[k] = IF k = 0 THEN Manip!CloneNode(p, n)
                    ELSE IF k \in withEvents THEN Manip!CopyEvent(full[k - 1], k, Manip!Copy(p, n)[k])
                    ELSE full[k - 1]
  BY <1>3
<1> HIDE DEF Body
<1>6. Fills(p, n, withEvents, p.count, full)
  <2>1. full[0] = Manip!CloneNode(p, n)
    BY <1>5
  <2>2. ASSUME NEW k \in 1 .. p.count
        PROVE  full[k] = IF k \in withEvents THEN Manip!CopyEvent(full[k - 1], k, Manip!Copy(p, n)[k])
                         ELSE full[k - 1]
    <3>1. k \in 0 .. p.count /\ k # 0
      OBVIOUS
    <3> QED BY <1>5, <3>1
  <2> QED BY <2>1, <2>2 DEF Fills
<1> QED BY <1>4, <1>6

LEMMA CopyEventsListens ==
    ASSUME NEW p, NEW listening, HasListeners(p, listening), NEW n \in 1 .. p.count, Room(p, n),
           NEW withEvents, withEvents \subseteq Manip!GetAll(p, n)
    PROVE  HasListeners(Manip!CopyEvents(p, n, withEvents),
                        listening \union {Manip!Copy(p, n)[m] : m \in withEvents \intersect listening})
<1> DEFINE all == Manip!GetAll(p, n)
           copy == Manip!Copy(p, n)
           After(k) == listening \union {copy[m] : m \in {i \in withEvents \intersect listening : i <= k}}
           total == p.count + Cardinality(all)
<1>1. p.count \in Nat /\ listening \subseteq 1 .. p.count
  BY NodesAssumption DEF HasListeners
<1>2. PICK full : /\ Fills(p, n, withEvents, p.count, full)
                  /\ Manip!CopyEvents(p, n, withEvents) = full[p.count]
  BY <1>1, CopyEventsFills
<1>3. /\ all \subseteq 1 .. p.count /\ Cardinality(all) \in Nat
      /\ \A m \in all : copy[m] \in p.count + 1 .. total
      /\ \A k, m \in all : k < m => copy[k] < copy[m]
  BY <1>1, CopyIs
<1>4. HasListeners(Manip!CloneNode(p, n), listening) /\ Manip!CloneNode(p, n).count = total
  BY CloneNodeListens
<1>l. \A i \in listening : i \in Int /\ 1 <= i /\ i <= p.count
  <2> SUFFICES ASSUME NEW i \in listening PROVE i \in Int /\ 1 <= i /\ i <= p.count
    OBVIOUS
  <2>1. i \in 1 .. p.count
    BY <1>1
  <2> QED BY <1>1, <2>1
<1> HIDE DEF all, copy, total
<1> DEFINE Q == {k \in 0 .. p.count : HasListeners(full[k], After(k)) /\ full[k].count = total}
<1>5. 0 \in Q
  <2>1. full[0] = Manip!CloneNode(p, n)
    BY <1>2 DEF Fills
  <2>2. {i \in withEvents \intersect listening : i <= 0} = {}
    <3> SUFFICES ASSUME NEW i \in listening, i <= 0 PROVE FALSE
      OBVIOUS
    <3> QED BY <1>l
  <2>3. After(0) = listening
    BY <2>2
  <2> HIDE DEF After
  <2> QED BY <1>1, <1>4, <2>1, <2>3
<1>6. ASSUME NEW k \in 0 .. p.count - 1, k \in Q PROVE k + 1 \in Q
  <2>1. k + 1 \in 1 .. p.count /\ k + 1 \in 0 .. p.count /\ (k + 1) - 1 = k
    BY <1>1
  <2>2. full[k + 1] = IF k + 1 \in withEvents THEN Manip!CopyEvent(full[k], k + 1, copy[k + 1])
                      ELSE full[k]
    BY <1>2, <2>1 DEF Fills, copy
  <2>3. HasListeners(full[k], After(k)) /\ full[k].count = total
    BY <1>6
  <2>4. After(k + 1) = IF k + 1 \in withEvents \intersect listening
                       THEN After(k) \union {copy[k + 1]} ELSE After(k)
    <3>1. \A i \in withEvents \intersect listening : i <= k + 1 <=> i <= k \/ i = k + 1
      <4> SUFFICES ASSUME NEW i \in listening PROVE i <= k + 1 <=> i <= k \/ i = k + 1
        OBVIOUS
      <4>1. i \in Int /\ k \in Int
        BY <1>1, <1>l
      <4> QED BY <4>1
    <3> QED BY <3>1, <2>1
  <2>5. CASE k + 1 \in withEvents
    <3>1. k + 1 \in all /\ copy[k + 1] \in p.count + 1 .. total
      BY <1>3, <2>5 DEF all
    <3>2. copy[k + 1] \notin listening
      BY <1>1, <1>3, <3>1 DEF total
    <3>3. ASSUME NEW i \in withEvents \intersect listening, i <= k PROVE copy[i] # copy[k + 1]
      <4>1. i \in all /\ i < k + 1 /\ copy[i] \in p.count + 1 .. total
        BY <1>1, <1>3, <2>1, <3>3 DEF all
      <4>2. copy[i] < copy[k + 1] /\ copy[i] \in Int /\ copy[k + 1] \in Int
        BY <1>1, <1>3, <3>1, <4>1 DEF total
      <4> QED BY <4>2
    <3>4. copy[k + 1] \notin After(k)
      BY <3>2, <3>3
    <3>5. k + 1 \in After(k) <=> k + 1 \in listening
      <4>1. ASSUME NEW i \in withEvents \intersect listening PROVE copy[i] # k + 1
        <5>1. i \in all /\ copy[i] \in p.count + 1 .. total
          BY <1>3, <4>1 DEF all
        <5> QED BY <1>1, <1>3, <2>1, <5>1 DEF total
      <4> QED BY <4>1
    <3>6. copy[k + 1] \in 1 .. full[k].count
      BY <1>1, <1>3, <2>3, <3>1 DEF total
    <3> HIDE DEF After
    <3>7. /\ HasListeners(Manip!CopyEvent(full[k], k + 1, copy[k + 1]),
                          IF k + 1 \in After(k) THEN After(k) \union {copy[k + 1]} ELSE After(k))
          /\ Manip!CopyEvent(full[k], k + 1, copy[k + 1]).count = total
      <4> DEFINE was == full[k]
                 listens == After(k)
                 dest == copy[k + 1]
                 src == k + 1
      <4>1. HasListeners(was, listens) /\ dest \notin listens /\ dest \in 1 .. was.count
        BY <2>3, <3>4, <3>6
      <4> HIDE DEF was, listens, dest, src
      <4>2. /\ src \in listens => HasListeners(Manip!CopyEvent(was, src, dest), listens \union {dest})
            /\ src \notin listens => HasListeners(Manip!CopyEvent(was, src, dest), listens)
            /\ Manip!CopyEvent(was, src, dest).count = was.count
        BY <4>1, CopyListens
      <4> QED BY <2>3, <4>2 DEF was, listens, dest, src
    <3> QED BY <2>1, <2>2, <2>4, <2>5, <3>5, <3>7
  <2>6. CASE k + 1 \notin withEvents
    <3> HIDE DEF After
    <3> QED BY <2>1, <2>2, <2>3, <2>4, <2>6
  <2> QED BY <2>5, <2>6
<1>7. p.count \in Q
  <2> HIDE DEF Q
  <2>1. 0 .. p.count \subseteq Q
    BY <1>1, <1>5, <1>6, UpTo
  <2> QED BY <1>1, <2>1
<1>8. After(p.count) = listening \union {copy[m] : m \in withEvents \intersect listening}
  <2>1. {i \in withEvents \intersect listening : i <= p.count} = withEvents \intersect listening
    BY <1>l
  <2> QED BY <2>1
<1> HIDE DEF After
<1> QED BY <1>2, <1>7, <1>8 DEF copy

LEMMA ClonedListens ==
    ASSUME NEW p, NEW listening, HasListeners(p, listening), NEW n \in 1 .. p.count, Room(p, n),
           NEW withEvents, withEvents \subseteq Manip!GetAll(p, n)
    PROVE  HasListeners(Manip!Cloned(p, n, withEvents),
                        listening \union {Manip!Copy(p, n)[m] : m \in withEvents \intersect listening})
<1> DEFINE q == Manip!CopyEvents(p, n, withEvents)
           after == listening \union {Manip!Copy(p, n)[m] : m \in withEvents \intersect listening}
<1>1. HasListeners(q, after)
  BY CopyEventsListens
<1>2. \E evalAfter : Manip!Cloned(p, n, withEvents) = [q EXCEPT !.globalEval = evalAfter]
  BY DEF Manip!Cloned
<1>3. PICK evalAfter : Manip!Cloned(p, n, withEvents) = [q EXCEPT !.globalEval = evalAfter]
  BY <1>2
<1> HIDE DEF q, after
<1>4. Manip!Cloned(p, n, withEvents) =
          [count |-> q.count, script |-> q.script, parent |-> q.parent, origin |-> q.origin,
           events |-> q.events, handle |-> q.handle, heard |-> q.heard, globalEval |-> evalAfter]
  BY <1>1, <1>3 DEF HasListeners, IsPage
<1>5. HasListeners(Manip!Cloned(p, n, withEvents), after)
  BY <1>1, <1>4 DEF HasListeners, IsPage
<1> QED BY <1>5 DEF after

-----------------------------------------------------------------------------
(* The invariant of Manipulation.                                          *)

Listening == HasListeners(page, given)

LEMMA ListeningStarts == Manip!Init => Listening
<1> SUFFICES ASSUME Manip!Init PROVE Listening
  OBVIOUS
<1>1. PICK place : page =
          [count |-> 5, script |-> {4, 5},
           parent |-> [n \in Manip!Nodes |-> CASE n = 1 -> 0 [] n = 2 -> place
                                             [] n \in {4, 5} -> 3 [] OTHER -> -1],
           origin |-> [n \in Manip!Nodes |-> n], events |-> {},
           handle |-> [n \in Manip!Nodes |-> -1], heard |-> [n \in Manip!Nodes |-> {}],
           globalEval |-> {}]
  BY DEF Manip!Init, Manip!Document, Manip!Nowhere
<1> DEFINE parent == [n \in Manip!Nodes |-> CASE n = 1 -> 0 [] n = 2 -> place
                                             [] n \in {4, 5} -> 3 [] OTHER -> -1]
<1> HIDE DEF parent
<1>2. page = [count |-> 5, script |-> {4, 5}, parent |-> parent,
              origin |-> [n \in Manip!Nodes |-> n], events |-> {},
              handle |-> [n \in Manip!Nodes |-> -1], heard |-> [n \in Manip!Nodes |-> {}],
              globalEval |-> {}]
  BY <1>1 DEF parent
<1>3. given = {}
  BY DEF Manip!Init
<1> QED BY <1>2, <1>3, NodesAssumption DEF Listening, HasListeners, IsPage, Manip!Nodes

LEMMA GetAllIs ==
    ASSUME Listening, NEW n \in Manip!Existing
    PROVE  page.count \in Nat /\ n \in 1 .. page.count /\ n \in Manip!GetAll(page, n)
BY NodesAssumption DEF Listening, HasListeners, Manip!Existing, Manip!GetAll

LEMMA TakenListens ==
    ASSUME NEW p, NEW listening, HasListeners(p, listening), NEW content
    PROVE  /\ HasListeners(Manip!Taken(p, content), listening)
           /\ Manip!Taken(p, content).count = p.count
<1> DEFINE q == IF Manip!IsAttached(p, content) THEN Manip!Marked(p, Manip!Scripts(p, content)) ELSE p
<1>1. HasListeners(q, listening) /\ q.count = p.count
  BY MarkedListens
<1>2. Manip!Taken(p, content) = Manip!Placed(q, content, -1)
  BY DEF Manip!Taken, Manip!Nowhere
<1> HIDE DEF q
<1> QED BY <1>1, <1>2, PlacedListens

LEMMA MovesListen ==
    ASSUME Listening, NEW n \in Manip!Existing,
           Manip!On(n) \/ Manip!Detach(n) \/ Manip!Remove(n) \/ Manip!Empty(n) \/ Manip!Clone(n)
    PROVE  Listening'
<1>0. HasListeners(page, given)
  BY DEF Listening
<1>1. page.count \in Nat /\ n \in 1 .. page.count /\ n \in Manip!GetAll(page, n)
  BY GetAllIs
<1>2. CASE Manip!On(n)
  <2>1. page' = Manip!Listens(page, n) /\ given' = given \union {n}
    BY <1>2 DEF Manip!On
  <2> QED BY <1>0, <1>1, <2>1, ListensListens DEF Listening, HasListeners, IsPage
<1>3. CASE Manip!Detach(n)
  <2>1. page' = Manip!Taken(page, n) /\ given' = given
    BY <1>3 DEF Manip!Detach, Manip!Taken
  <2> QED BY <1>0, <2>1, TakenListens DEF Listening, HasListeners, IsPage
<1>4. CASE Manip!Remove(n)
  <2> DEFINE q == Manip!Cleaned(page, Manip!GetAll(page, n))
  <2>1. page' = Manip!Placed(q, n, -1) /\ given' = given \ Manip!GetAll(page, n)
    BY <1>4 DEF Manip!Remove, Manip!Forget, Manip!Nowhere
  <2>2. HasListeners(q, given \ Manip!GetAll(page, n))
    BY <1>0, CleanedListens
  <2> HIDE DEF q
  <2> QED BY <2>1, <2>2, PlacedListens DEF Listening, HasListeners, IsPage
<1>5. CASE Manip!Empty(n)
  <2> DEFINE inside == Manip!GetAll(page, n) \ {n}
             clean == Manip!Cleaned(page, inside)
             parent == [m \in Manip!Nodes |-> IF clean.parent[m] = n THEN -1 ELSE clean.parent[m]]
  <2>1. page' = [clean EXCEPT !.parent = parent] /\ given' = given \ inside
    BY <1>5 DEF Manip!Empty, Manip!Forget, Manip!Nowhere
  <2>2. HasListeners(clean, given \ inside)
    BY <1>0, CleanedListens
  <2> HIDE DEF parent, clean, inside
  <2>3. page' = [count |-> clean.count, script |-> clean.script, parent |-> parent,
                 origin |-> clean.origin, events |-> clean.events, handle |-> clean.handle,
                 heard |-> clean.heard, globalEval |-> clean.globalEval]
    BY <2>1, <2>2 DEF HasListeners, IsPage
  <2> QED BY <2>1, <2>2, <2>3 DEF Listening, HasListeners, IsPage
<1>6. CASE Manip!Clone(n)
  <2>1. Manip!HasRoom(page, n, 1)
    BY <1>6 DEF Manip!Clone
  <2>2. PICK withEvents \in {{}, {n}, Manip!GetAll(page, n)} :
            /\ page' = Manip!Cloned(page, n, withEvents)
            /\ given' = given \union {Manip!Copy(page, n)[m] : m \in withEvents \intersect given}
    BY <1>6 DEF Manip!Clone
  <2>3. Room(page, n) /\ withEvents \subseteq Manip!GetAll(page, n)
    BY <1>1, <2>1, RoomIs
  <2>4. HasListeners(Manip!Cloned(page, n, withEvents),
            given \union {Manip!Copy(page, n)[m] : m \in withEvents \intersect given})
    BY <1>0, <1>1, <2>3, ClonedListens
  <2> QED BY <2>2, <2>4 DEF Listening, HasListeners, IsPage
<1> QED BY <1>2, <1>3, <1>4, <1>5, <1>6

LEMMA InsertListens ==
    ASSUME Listening, NEW content \in Manip!Existing, NEW targets, Manip!Insert(targets, content)
    PROVE  Listening'
<1> DEFINE fragment == Manip!Taken(page, content)
           all == Manip!GetAll(fragment, content)
           copied == Manip!Cloned(fragment, content, all)
           copy == Manip!Copy(fragment, content)
           several == Manip!Len(targets) > 1
<1>1. HasListeners(fragment, given) /\ fragment.count = page.count
  BY TakenListens DEF Listening
<1>2. page.count \in Nat /\ content \in 1 .. fragment.count
  BY <1>1, GetAllIs
<1>3. /\ several => Manip!HasRoom(fragment, content, 1)
      /\ \E beside \in BOOLEAN : \E last, other :
             page' = Manip!Placed(
                 IF several THEN Manip!Placed(copied, copy[content], other) ELSE fragment, content, last)
      /\ given' = IF several THEN given \union {copy[m] : m \in DOMAIN copy \intersect given} ELSE given
  BY DEF Manip!Insert
<1>4. DOMAIN copy = all
  BY <1>1, <1>2, CopyIs
<1>5. CASE several
  <2>1. Room(fragment, content)
    BY <1>1, <1>2, <1>3, <1>5, RoomIs
  <2>2. HasListeners(copied, given \union {copy[m] : m \in all \intersect given})
    BY <1>1, <1>2, <2>1, ClonedListens
  <2>3. HasListeners(copied, given')
    BY <1>3, <1>4, <1>5, <2>2
  <2>4. PICK last, other : page' = Manip!Placed(Manip!Placed(copied, copy[content], other), content, last)
    BY <1>3, <1>5
  <2> HIDE DEF copied, copy
  <2>5. HasListeners(Manip!Placed(copied, copy[content], other), given')
    BY <2>3, PlacedListens
  <2>6. HasListeners(page', given')
    BY <2>4, <2>5, PlacedListens
  <2> QED BY <2>6 DEF Listening, HasListeners, IsPage
<1>6. CASE ~several
  <2>1. PICK last : page' = Manip!Placed(fragment, content, last)
    BY <1>3, <1>6
  <2>2. given' = given
    BY <1>3, <1>6
  <2> HIDE DEF fragment
  <2>3. HasListeners(page', given')
    BY <1>1, <2>1, <2>2, PlacedListens
  <2> QED BY <2>3 DEF Listening, HasListeners, IsPage
<1> QED BY <1>5, <1>6

LEMMA ReplaceListens ==
    ASSUME Listening, NEW content \in Manip!Existing, NEW target \in Manip!Existing,
           Manip!ReplaceWith(target, content)
    PROVE  Listening'
<1> DEFINE fragment == Manip!Taken(page, content)
           gone == Manip!GetAll(fragment, target)
           clean == Manip!Cleaned(fragment, gone)
           place == fragment.parent[target]
<1>1. HasListeners(clean, given \ gone)
  <2>1. HasListeners(fragment, given)
    BY TakenListens DEF Listening
  <2> HIDE DEF fragment, gone
  <2> QED BY <2>1, CleanedListens
<1>2. /\ page' = IF place = -1 THEN clean
                 ELSE Manip!Placed(Manip!Placed(clean, content, place), target, -1)
      /\ given' = given \ gone
  BY DEF Manip!ReplaceWith, Manip!Forget, Manip!Nowhere
<1> HIDE DEF clean, gone, place
<1>3. HasListeners(Manip!Placed(clean, content, place), given \ gone)
  BY <1>1, PlacedListens
<1>4. HasListeners(Manip!Placed(Manip!Placed(clean, content, place), target, -1), given \ gone)
  BY <1>3, PlacedListens
<1>5. HasListeners(page', given')
  BY <1>1, <1>2, <1>4
<1> QED BY <1>5 DEF Listening, HasListeners, IsPage

LEMMA ListeningStays == Listening /\ UNCHANGED <<page, given>> => Listening'
BY DEF Listening, HasListeners, IsPage

\* Every call, and the evaluation of every script, leaves the listeners with the
\* nodes that were given them.
THEOREM ListeningInvariance == Manip!Spec => []Listening
<1>1. ASSUME Listening, [Manip!Next]_Manip!vars PROVE Listening'
  <2>1. ASSUME NEW n \in Manip!Existing,
               Manip!On(n) \/ Manip!Detach(n) \/ Manip!Remove(n) \/ Manip!Empty(n) \/ Manip!Clone(n)
        PROVE  Listening'
    BY <1>1, <2>1, MovesListen
  <2>2. ASSUME NEW content \in Manip!Existing, NEW targets, Manip!Insert(targets, content)
        PROVE  Listening'
    BY <1>1, <2>2, InsertListens
  <2>3. ASSUME NEW content \in Manip!Existing, NEW target \in Manip!Existing,
               Manip!ReplaceWith(target, content)
        PROVE  Listening'
    BY <1>1, <2>3, ReplaceListens
  <2>4. CASE Manip!Evaluated \/ Manip!EvaluateScript \/ Manip!Return
    BY <1>1, <2>4, ListeningStays DEF Manip!Evaluated, Manip!EvaluateScript, Manip!Return
  <2>5. CASE UNCHANGED Manip!vars
    BY <1>1, <2>5, ListeningStays DEF Manip!vars
  <2> QED BY <1>1, <2>1, <2>2, <2>3, <2>4, <2>5 DEF Manip!Next
<1> QED BY ListeningStarts, <1>1, PTL DEF Manip!Spec

\* A node listens if it was given a listener, itself or as a copy of one that
\* was, until it is removed, and what listens to it dispatches to it.
THEOREM ListenersHold == Manip!Spec => []ListenersAsGiven
<1>1. Listening => ListenersAsGiven
  BY DEF Listening, HasListeners, ListenersAsGiven, Manip!ListenersAsGiven, Manip!Nodes
<1> QED BY ListeningInvariance, <1>1, PTL

-----------------------------------------------------------------------------
(* Conversion.  Which type of a sequence is the last one.                  *)

TypesOrAny == Types \union {"*"}

LastNamed(types, type) ==
    \E i \in 1 .. Len(types) :
        types[i] = type /\ type # "*" /\ \A j \in 1 .. Len(types) : j > i => types[j] = "*"
NoneNamed(types) == \A i \in 1 .. Len(types) : types[i] = "*"

LEMMA LastOfTail ==
    ASSUME NEW types \in Seq(TypesOrAny), types # <<>>, NEW type
    PROVE  /\ Head(types) = types[1] /\ Tail(types) \in Seq(TypesOrAny) /\ Head(types) \in TypesOrAny
           /\ LastNamed(types, type) =>
                  LastNamed(Tail(types), type) \/ (type = Head(types) /\ NoneNamed(Tail(types)))
           /\ NoneNamed(types) => NoneNamed(Tail(types)) /\ Head(types) = "*"
<1>1. /\ Tail(types) \in Seq(TypesOrAny) /\ Len(Tail(types)) = Len(types) - 1
      /\ \A i \in 1 .. Len(Tail(types)) : Tail(types)[i] = types[i + 1]
  BY HeadTailProperties
<1>2. Len(types) \in Nat /\ Len(types) # 0 /\ \A i \in 1 .. Len(types) : types[i] \in TypesOrAny
  BY LenProperties, EmptySeq
<1>3. Head(types) = types[1]
  OBVIOUS
<1> DEFINE t == Tail(types)
<1> HIDE DEF t
<1>4. /\ t \in Seq(TypesOrAny) /\ Len(t) = Len(types) - 1
      /\ \A i \in 1 .. Len(t) : t[i] = types[i + 1]
  BY <1>1 DEF t
<1>5. ASSUME LastNamed(types, type)
      PROVE  LastNamed(t, type) \/ (type = types[1] /\ NoneNamed(t))
  <2>1. PICK i \in 1 .. Len(types) :
            types[i] = type /\ type # "*" /\ \A j \in 1 .. Len(types) : j > i => types[j] = "*"
    BY <1>5 DEF LastNamed
  <2>2. ASSUME NEW j \in 1 .. Len(t), j + 1 > i PROVE t[j] = "*"
    <3>1. j + 1 \in 1 .. Len(types)
      BY <1>2, <1>4
    <3> QED BY <1>4, <2>1, <2>2, <3>1
  <2>3. CASE i = 1
    <3>1. NoneNamed(t)
      BY <1>2, <1>4, <2>2, <2>3 DEF NoneNamed
    <3> QED BY <2>1, <2>3, <3>1
  <2>4. CASE i # 1
    <3>1. i - 1 \in 1 .. Len(t) /\ (i - 1) + 1 = i
      BY <1>2, <1>4, <2>4
    <3>2. t[i - 1] = type
      BY <1>4, <2>1, <3>1
    <3>3. \A j \in 1 .. Len(t) : j > i - 1 => t[j] = "*"
      BY <1>2, <1>4, <2>2
    <3> QED BY <2>1, <3>1, <3>2, <3>3 DEF LastNamed
  <2> QED BY <2>3, <2>4
<1>6. ASSUME NoneNamed(types) PROVE NoneNamed(t) /\ types[1] = "*"
  <2>1. \A i \in 1 .. Len(t) : i + 1 \in 1 .. Len(types)
    BY <1>2, <1>4
  <2> QED BY <1>2, <1>4, <1>6, <2>1 DEF NoneNamed
<1> QED BY <1>2, <1>3, <1>4, <1>5, <1>6 DEF t

LEMMA LastWithoutAuto ==
    ASSUME NEW types \in Seq(TypesOrAny), NEW type
    PROVE  /\ Conv!WithoutAuto(types) \in Seq(TypesOrAny)
           /\ LastNamed(types, type) => LastNamed(Conv!WithoutAuto(types), type)
<1> DEFINE leading == {i \in DOMAIN types : \A j \in 1 .. i : types[j] = "*"}
           c == Cardinality(leading)
           rest == SubSeq(types, c + 1, Len(types))
<1>0. Conv!Cardinality(leading) = Cardinality(leading)
  BY DEF Conv!Cardinality, Cardinality
<1>1. Conv!WithoutAuto(types) = rest
  BY <1>0 DEF Conv!WithoutAuto, Conv!AnyType
<1>2. Len(types) \in Nat /\ DOMAIN types = 1 .. Len(types)
      /\ \A i \in 1 .. Len(types) : types[i] \in TypesOrAny
  BY LenProperties
<1>3. c \in Nat
  <2>1. leading \subseteq 1 .. Len(types) /\ IsFiniteSet(1 .. Len(types))
    BY <1>2, FS_Interval
  <2> QED BY <2>1, FS_Subset, FS_CardinalityType
<1>4. /\ rest \in Seq(TypesOrAny)
      /\ Len(rest) = IF c + 1 <= Len(types) THEN Len(types) - (c + 1) + 1 ELSE 0
      /\ \A i \in 1 .. Len(types) - (c + 1) + 1 : rest[i] = types[(c + 1) + i - 1]
  <2> HIDE DEF c
  <2>1. c + 1 \in Int /\ Len(types) \in Int /\ \A i \in c + 1 .. Len(types) : types[i] \in TypesOrAny
    BY <1>2, <1>3
  <2> QED BY <2>1, SubSeqProperties
<1> HIDE DEF rest
<1>5. ASSUME LastNamed(types, type) PROVE LastNamed(rest, type)
  <2>1. PICK i \in 1 .. Len(types) :
            types[i] = type /\ type # "*" /\ \A j \in 1 .. Len(types) : j > i => types[j] = "*"
    BY <1>5 DEF LastNamed
  <2>2. leading \subseteq 1 .. i - 1
    <3> SUFFICES ASSUME NEW k \in leading PROVE k \in 1 .. i - 1
      OBVIOUS
    <3>1. k \in 1 .. Len(types) /\ (i \in 1 .. k => types[i] = "*")
      BY <1>2
    <3> QED BY <2>1, <3>1, <1>2
  <2>3. c <= i - 1
    <3>1. IsFiniteSet(1 .. i - 1) /\ Cardinality(1 .. i - 1) = i - 1
      <4>1. 1 \in Int /\ i - 1 \in Int /\ (IF 1 > i - 1 THEN 0 ELSE (i - 1) - 1 + 1) = i - 1
        BY <1>2
      <4> QED BY <4>1, FS_Interval
    <3> QED BY <2>2, <3>1, FS_Subset
  <2> HIDE DEF c
  <2>4. Len(rest) = Len(types) - c /\ \A j \in 1 .. Len(types) - c : rest[j] = types[c + j]
    <3>1. c + 1 <= Len(types) /\ Len(types) - (c + 1) + 1 = Len(types) - c
      BY <1>2, <1>3, <2>3
    <3>2. \A j \in 1 .. Len(types) - c : (c + 1) + j - 1 = c + j
      BY <1>3
    <3> QED BY <1>4, <3>1, <3>2
  <2>5. i - c \in 1 .. Len(types) - c /\ c + (i - c) = i
    BY <1>2, <1>3, <2>3
  <2>6. rest[i - c] = type
    BY <2>1, <2>4, <2>5
  <2>7. ASSUME NEW j \in 1 .. Len(types) - c, j > i - c PROVE rest[j] = "*"
    <3>1. c + j \in 1 .. Len(types) /\ c + j > i
      BY <1>2, <1>3, <2>7
    <3> QED BY <2>1, <2>4, <3>1
  <2> QED BY <2>1, <2>4, <2>5, <2>6, <2>7 DEF LastNamed
<1> QED BY <1>1, <1>4, <1>5

LEMMA LastOfMore ==
    ASSUME NEW types \in Seq(TypesOrAny), NEW head \in TypesOrAny, NEW type
    PROVE  /\ <<head>> \o types \in Seq(TypesOrAny)
           /\ LastNamed(types, type) => LastNamed(<<head>> \o types, type)
<1> DEFINE more == <<head>> \o types
<1>1. <<head>> \in Seq(TypesOrAny) /\ Len(<<head>>) = 1
  OBVIOUS
<1>2. Len(types) \in Nat
  BY LenProperties
<1>3. /\ more \in Seq(TypesOrAny) /\ Len(more) = Len(types) + 1
      /\ \A i \in 1 .. Len(more) : more[i] = IF i <= 1 THEN <<head>>[i] ELSE types[i - 1]
  <2>1. /\ more \in Seq(TypesOrAny) /\ Len(more) = Len(<<head>>) + Len(types)
        /\ \A i \in 1 .. Len(<<head>>) + Len(types) :
               more[i] = IF i <= Len(<<head>>) THEN <<head>>[i] ELSE types[i - Len(<<head>>)]
    BY <1>1, ConcatProperties
  <2> QED BY <1>1, <1>2, <2>1
<1> HIDE DEF more
<1>4. ASSUME LastNamed(types, type) PROVE LastNamed(more, type)
  <2>1. PICK i \in 1 .. Len(types) :
            types[i] = type /\ type # "*" /\ \A j \in 1 .. Len(types) : j > i => types[j] = "*"
    BY <1>4 DEF LastNamed
  <2>2. i + 1 \in 1 .. Len(more) /\ ~(i + 1 <= 1) /\ (i + 1) - 1 = i
    BY <1>2, <1>3
  <2>3. more[i + 1] = type
    BY <1>3, <2>1, <2>2
  <2>4. ASSUME NEW j \in 1 .. Len(more), j > i + 1 PROVE more[j] = "*"
    <3>1. j - 1 \in 1 .. Len(types) /\ j - 1 > i /\ ~(j <= 1)
      BY <1>2, <1>3, <2>4
    <3> QED BY <1>3, <2>1, <3>1
  <2> QED BY <2>1, <2>2, <2>3, <2>4 DEF LastNamed
<1> QED BY <1>3, <1>4 DEF more

-----------------------------------------------------------------------------
(* What a value is of.                                                     *)

LEMMA AlikeHolds ==
    ASSUME NEW types, types \subseteq Types
    PROVE  types \subseteq Conv!Alike(types) /\ Conv!Alike(types) \subseteq Types
BY DEF Conv!Alike

LEMMA AlikeClosed ==
    ASSUME NEW types, NEW from \in Conv!Alike(types), NEW to \in Types, from # to,
           converters[<<from, to>>] = "same"
    PROVE  to \in Conv!Alike(types)
<1>1. ASSUME NEW all \in SUBSET Types, types \subseteq all, Conv!Closed(all) PROVE to \in all
  <2>1. from \in all
    BY <1>1 DEF Conv!Alike
  <2> QED BY <1>1, <2>1 DEF Conv!Closed
<1> QED BY <1>1 DEF Conv!Alike

-----------------------------------------------------------------------------
(* The invariant of Conversion.                                            *)

ConvTypes ==
    /\ \A pair \in Conv!Pairs : pair[1] = "*" => converters[pair] # "same"
    /\ asked \in Seq(TypesOrAny) /\ dataTypes \in Seq(TypesOrAny)
    /\ response \subseteq Types /\ phase \in {"handle", "convert", "success", "parsererror"}

\* The last type asked for is among those yet to come, or the value is of it.
OnTheWay ==
    /\ currentType \in Types /\ currentType \in Conv!Alike(response)
    /\ \A type \in Types : LastNamed(asked, type) =>
           LastNamed(dataTypes, type) \/ (NoneNamed(dataTypes) /\ currentType = type)

Stuck ==
    /\ dataTypes # <<>> /\ currentType \in Types /\ Head(dataTypes) \in Types \ {currentType}
    /\ ~Conv!HasDirect(currentType, Head(dataTypes))
    /\ Conv!Through(currentType, Head(dataTypes)) = {}

ConvInv ==
    /\ ConvTypes
    /\ phase = "handle" => dataTypes = asked
    /\ phase = "convert" => OnTheWay
    /\ phase = "success" => OnTheWay /\ dataTypes = <<>>
    /\ phase = "parsererror" => threw \/ Stuck

LEMMA ConvStarts == Conv!Init => ConvInv
<1> SUFFICES ASSUME Conv!Init PROVE ConvInv
  OBVIOUS
<1>1. PICK n \in 1 .. MaxTypes : asked \in [1 .. n -> TypesOrAny]
  BY DEF Conv!Init, Conv!AnyType, TypesOrAny
<1>2. asked \in Seq(TypesOrAny)
  <2>1. n \in Nat
    BY <1>1
  <2> QED BY <1>1, <2>1
<1>3. \A pair \in Conv!Pairs : pair[1] = "*" => converters[pair] # "same"
  <2> SUFFICES ASSUME NEW pair \in Conv!Pairs, pair[1] = "*" PROVE converters[pair] # "same"
    OBVIOUS
  <2>1. converters[pair] \in IF pair[2] = "text" THEN {"none", "function"} ELSE {"none"}
    BY DEF Conv!Init, Conv!AnyType
  <2> QED BY <2>1
<1>4. dataTypes = asked /\ response = {} /\ phase = "handle"
  BY DEF Conv!Init
<1> QED BY <1>2, <1>3, <1>4 DEF ConvInv, ConvTypes

LEMMA DirectIs ==
    ASSUME NEW from \in Types, NEW to \in Types, from # to, Conv!HasDirect(from, to)
    PROVE  /\ Conv!Direct(from, to) \in Conv!Pairs /\ Conv!Direct(from, to)[2] = to
           /\ Conv!Direct(from, to) = <<from, to>> \/ Conv!Direct(from, to) = <<"*", to>>
BY TypesAssumption DEF Conv!Direct, Conv!Pairs, Conv!AnyType

LEMMA ChosenIs ==
    ASSUME NEW texts \in Conv!Responses, NEW expected
    PROVE  Conv!Chosen(texts, expected) \in Types
<1>1. PICK n \in Int : n >= 1 /\ texts \in [1 .. n -> Types]
  BY DEF Conv!Responses
<1>2. DOMAIN texts = 1 .. n /\ \A i \in 1 .. n : texts[i] \in Types
  BY <1>1
<1>3. texts \in Seq(Types) /\ texts # <<>> /\ Head(texts) = texts[1]
  <2>1. n \in Nat
    BY <1>1
  <2>2. texts \in Seq(Types) /\ Len(texts) = n
    BY <1>1, <2>1
  <2> QED BY <1>1, <2>2
<1> DEFINE C == {i \in DOMAIN texts : expected = <<>> \/ Conv!Defined(texts[i], Head(expected))}
<1>4. CASE expected # <<>> /\ Head(expected) \in {texts[i] : i \in DOMAIN texts}
  BY <1>2, <1>4 DEF Conv!Chosen
<1>5. CASE ~(expected # <<>> /\ Head(expected) \in {texts[i] : i \in DOMAIN texts}) /\ C # {}
  <2> DEFINE least == CHOOSE i \in C : \A j \in C : i <= j
  <2>1. \E i \in C : \A j \in C : i <= j
    <3>1. C \subseteq Nat
      BY <1>2
    <3> HIDE DEF C
    <3> QED BY <1>5, <3>1, LeastNumber
  <2>2. least \in C
    <3> HIDE DEF C
    <3> QED BY <2>1
  <2>3. Conv!Chosen(texts, expected) = texts[least]
    BY <1>5, Zenon DEF Conv!Chosen
  <2> HIDE DEF least
  <2> QED BY <1>2, <2>2, <2>3
<1>6. CASE ~(expected # <<>> /\ Head(expected) \in {texts[i] : i \in DOMAIN texts}) /\ C = {}
  <2>1. Conv!Chosen(texts, expected) = Head(texts)
    BY <1>6, Zenon DEF Conv!Chosen
  <2> QED BY <1>1, <1>2, <1>3, <2>1
<1> QED BY <1>4, <1>5, <1>6

LEMMA ExpectedIs ==
    ASSUME dataTypes \in Seq(TypesOrAny), NEW contentType \in Types \union {"none"}, NEW type
    PROVE  /\ Conv!Expected(contentType) \in Seq(TypesOrAny)
           /\ LastNamed(dataTypes, type) => LastNamed(Conv!Expected(contentType), type)
<1> DEFINE rest == Conv!WithoutAuto(dataTypes)
<1>1. rest \in Seq(TypesOrAny) /\ (LastNamed(dataTypes, type) => LastNamed(rest, type))
  BY LastWithoutAuto
<1>2. \/ Conv!Expected(contentType) = rest
      \/ /\ contentType # "none" /\ Conv!Expected(contentType) = <<contentType>> \o rest
  <2>1. Conv!Expected(contentType) =
            IF rest # dataTypes /\ contentType # "none" THEN <<contentType>> \o rest ELSE rest
    BY Zenon DEF Conv!Expected, Conv!NoType
  <2> HIDE DEF rest
  <2> QED BY <2>1
<1> HIDE DEF rest
<1>3. CASE Conv!Expected(contentType) = rest
  BY <1>1, <1>3
<1>4. CASE contentType # "none" /\ Conv!Expected(contentType) = <<contentType>> \o rest
  <2>1. contentType \in TypesOrAny
    BY <1>4 DEF TypesOrAny
  <2> QED BY <1>1, <1>4, <2>1, LastOfMore
<1> QED BY <1>2, <1>3, <1>4

LEMMA HandleKeeps == ConvInv /\ Conv!HandleResponses => ConvInv'
<1> SUFFICES ASSUME ConvInv, Conv!HandleResponses PROVE ConvInv'
  OBVIOUS
<1>1. PICK texts \in Conv!Responses, contentType \in Types \union {"none"} :
          LET expected == Conv!Expected(contentType)
              type == Conv!Chosen(texts, expected)
          IN  /\ response' = {type} /\ currentType' = type
              /\ dataTypes' = IF expected # <<>> /\ type = Head(expected)
                              THEN Tail(expected) ELSE expected
  BY DEF Conv!HandleResponses, Conv!NoType
<1> DEFINE expected == Conv!Expected(contentType)
           chosen == Conv!Chosen(texts, expected)
<1>2. phase = "handle" /\ phase' = "convert" /\ UNCHANGED <<converters, asked, threw>>
  BY DEF Conv!HandleResponses
<1>3. chosen \in Types
  BY ChosenIs
<1>4. dataTypes = asked /\ asked \in Seq(TypesOrAny)
  BY <1>2 DEF ConvInv, ConvTypes
<1>5. /\ expected \in Seq(TypesOrAny)
      /\ \A type \in Types : LastNamed(asked, type) => LastNamed(expected, type)
  BY <1>4, ExpectedIs
<1>6. /\ response' = {chosen} /\ currentType' = chosen
      /\ dataTypes' = IF expected # <<>> /\ chosen = Head(expected) THEN Tail(expected) ELSE expected
  BY <1>1
<1> HIDE DEF expected, chosen
<1>7. /\ dataTypes' \in Seq(TypesOrAny)
      /\ \A type \in Types : LastNamed(asked, type) =>
             LastNamed(dataTypes', type) \/ (NoneNamed(dataTypes') /\ chosen = type)
  <2>1. CASE expected # <<>> /\ chosen = Head(expected)
    <3>1. Tail(expected) \in Seq(TypesOrAny)
          /\ \A type \in Types : LastNamed(expected, type) =>
                 LastNamed(Tail(expected), type) \/ (type = Head(expected) /\ NoneNamed(Tail(expected)))
      BY <1>5, <2>1, LastOfTail
    <3> QED BY <1>5, <1>6, <2>1, <3>1
  <2>2. CASE ~(expected # <<>> /\ chosen = Head(expected))
    BY <1>5, <1>6, <2>2
  <2> QED BY <2>1, <2>2
<1>8. ConvTypes'
  BY <1>2, <1>3, <1>6, <1>7 DEF ConvInv, ConvTypes, Conv!Pairs
<1>9. OnTheWay'
  <2>1. currentType' \in Conv!Alike(response)'
    <3>1. response' \subseteq Types /\ currentType' \in response'
      BY <1>3, <1>6
    <3> QED BY <3>1 DEF Conv!Alike
  <2> QED BY <1>2, <1>3, <1>6, <1>7, <2>1 DEF OnTheWay, LastNamed, NoneNamed
<1> QED BY <1>2, <1>8, <1>9 DEF ConvInv

LEMMA AlikeThen ==
    ASSUME NEW types, converters' = converters, response' = types
    PROVE  Conv!Alike(response)' = Conv!Alike(types)
BY DEF Conv!Alike, Conv!Closed

LEMMA ApplyIs ==
    ASSUME ConvTypes, NEW pair \in Conv!Pairs, pair[1] \in Conv!Alike(response) \union {"*"},
           converters' = converters, Conv!Apply(pair)
    PROVE  /\ response' \subseteq Types
           /\ \/ /\ phase' = "convert" /\ threw' = threw /\ pair[2] \in Conv!Alike(response)'
                 /\ converters[pair] # "same" => response' = {pair[2]}
              \/ phase' = "parsererror" /\ threw'
<1>1. response \subseteq Types /\ (pair[1] = "*" => converters[pair] # "same")
  BY DEF ConvTypes
<1>2. pair[1] \in Types \union {"*"} /\ pair[2] \in Types /\ pair[1] # pair[2] /\ pair = <<pair[1], pair[2]>>
  BY DEF Conv!Pairs, Conv!AnyType
<1>3. CASE converters[pair] = "same"
  <2>1. UNCHANGED <<response, threw>> /\ phase' = "convert"
    BY <1>3 DEF Conv!Apply
  <2>2. pair[2] \in Conv!Alike(response)
    <3>1. pair[1] \in Conv!Alike(response)
      BY <1>1, <1>3
    <3> QED BY <1>2, <1>3, <3>1, AlikeClosed
  <2>3. Conv!Alike(response)' = Conv!Alike(response)
    BY <2>1, AlikeThen
  <2> QED BY <1>1, <1>3, <2>1, <2>2, <2>3
<1>4. CASE converters[pair] # "same"
  <2>1. \/ response' = {pair[2]} /\ phase' = "convert" /\ threw' = threw
        \/ phase' = "parsererror" /\ threw' = TRUE /\ response' = response
    BY <1>4 DEF Conv!Apply, Conv!AnyType
  <2>2. ASSUME response' = {pair[2]} PROVE pair[2] \in Conv!Alike(response)'
    <3>1. Conv!Alike(response)' = Conv!Alike({pair[2]})
      BY <2>2, AlikeThen
    <3>2. {pair[2]} \subseteq Conv!Alike({pair[2]})
      BY <1>2, AlikeHolds
    <3> QED BY <3>1, <3>2
  <2> QED BY <1>1, <1>2, <2>1, <2>2
<1> QED BY <1>3, <1>4

LEMMA ConvertKeeps == ConvInv /\ Conv!Convert => ConvInv'
<1> SUFFICES ASSUME ConvInv, Conv!Convert PROVE ConvInv'
  OBVIOUS
<1> DEFINE to == Head(dataTypes)
<1>1. phase = "convert" /\ converters' = converters /\ asked' = asked
  BY DEF Conv!Convert
<1>2. /\ ConvTypes /\ OnTheWay /\ asked \in Seq(TypesOrAny) /\ dataTypes \in Seq(TypesOrAny)
      /\ response \subseteq Types /\ currentType \in Types /\ currentType \in Conv!Alike(response)
      /\ \A type \in Types : LastNamed(asked, type) =>
             LastNamed(dataTypes, type) \/ (NoneNamed(dataTypes) /\ currentType = type)
  BY <1>1 DEF ConvInv, ConvTypes, OnTheWay
<1>3. \A pair \in Conv!Pairs : pair[1] = "*" => converters[pair] # "same"
  BY <1>2 DEF ConvTypes
<1>4. dataTypes # <<>> /\ to \notin {"*", currentType} => to \in Types /\ to # currentType
  BY <1>2, LastOfTail DEF TypesOrAny
\* What a step that takes the next type has to show, and one that does not.
<1>5. ASSUME dataTypes # <<>>, dataTypes' = Tail(dataTypes), to \in {"*", currentType'},
             to = "*" => currentType' = currentType,
             response' \subseteq Types, currentType' \in Types,
             phase' = "convert", currentType' \in Conv!Alike(response)'
      PROVE  ConvInv'
  <2>1. dataTypes' \in Seq(TypesOrAny)
    BY <1>2, <1>5, LastOfTail
  <2>2. ASSUME NEW type \in Types, LastNamed(asked, type)
        PROVE  LastNamed(dataTypes', type) \/ (NoneNamed(dataTypes') /\ currentType' = type)
    <3>1. LastNamed(dataTypes, type) \/ (NoneNamed(dataTypes) /\ currentType = type)
      BY <1>2, <2>2
    <3>2. /\ LastNamed(dataTypes, type) =>
                 LastNamed(Tail(dataTypes), type) \/ (type = to /\ NoneNamed(Tail(dataTypes)))
          /\ NoneNamed(dataTypes) => NoneNamed(Tail(dataTypes)) /\ to = "*"
      BY <1>2, <1>5, LastOfTail
    <3>3. type # "*"
      BY TypesAssumption
    <3> HIDE DEF to
    <3> QED BY <1>5, <3>1, <3>2, <3>3
  <2>3. ConvTypes'
    BY <1>1, <1>2, <1>3, <1>5, <2>1 DEF ConvTypes, Conv!Pairs
  <2>4. OnTheWay'
    BY <1>1, <1>5, <2>2 DEF OnTheWay, LastNamed, NoneNamed
  <2> QED BY <1>5, <2>3, <2>4 DEF ConvInv
<1>6. ASSUME dataTypes # <<>>, to \in Types, dataTypes' = dataTypes, response' \subseteq Types,
             currentType' \in Types, phase' = "convert", currentType' \in Conv!Alike(response)'
      PROVE  ConvInv'
  <2>1. ~NoneNamed(dataTypes)
    <3>1. NoneNamed(dataTypes) => to = "*"
      BY <1>2, <1>6, LastOfTail
    <3> QED BY <1>6, <3>1, TypesAssumption
  <2>2. \A type \in Types : LastNamed(asked, type) => LastNamed(dataTypes', type)
    BY <1>2, <1>6, <2>1
  <2>3. ConvTypes'
    BY <1>1, <1>2, <1>3, <1>6 DEF ConvTypes, Conv!Pairs
  <2>4. OnTheWay'
    BY <1>1, <1>6, <2>2 DEF OnTheWay, LastNamed
  <2> QED BY <1>6, <2>3, <2>4 DEF ConvInv
\* A converter that threw ends it.
<1>7. ASSUME phase' = "parsererror", threw', response' \subseteq Types, dataTypes' \in Seq(TypesOrAny)
      PROVE  ConvInv'
  <2>1. ConvTypes'
    BY <1>1, <1>2, <1>3, <1>7 DEF ConvTypes, Conv!Pairs
  <2> QED BY <1>7, <2>1 DEF ConvInv
<1>8. CASE Conv!Converted
  <2>1. dataTypes = <<>> /\ phase' = "success" /\ UNCHANGED <<dataTypes, currentType, response, threw>>
    BY <1>8 DEF Conv!Converted
  <2>2. ConvTypes'
    BY <1>1, <1>2, <1>3, <2>1 DEF ConvTypes, Conv!Pairs
  <2>3. Conv!Alike(response)' = Conv!Alike(response)
    BY <1>1, <2>1, AlikeThen
  <2>4. OnTheWay'
    BY <1>1, <1>2, <2>1, <2>3 DEF OnTheWay, LastNamed, NoneNamed
  <2> QED BY <2>1, <2>2, <2>4 DEF ConvInv
<1>9. CASE Conv!Skip
  <2>1. /\ dataTypes # <<>> /\ to \in {"*", currentType} /\ dataTypes' = Tail(dataTypes)
        /\ UNCHANGED <<currentType, response, phase, threw>>
    BY <1>9 DEF Conv!Skip, Conv!AnyType
  <2>2. Conv!Alike(response)' = Conv!Alike(response)
    BY <1>1, <2>1, AlikeThen
  <2> HIDE DEF to
  <2> QED BY <1>1, <1>2, <1>5, <2>1, <2>2
<1>10. CASE Conv!ConvertDirectly
  <2> DEFINE pair == Conv!Direct(currentType, to)
  <2>1. /\ dataTypes # <<>> /\ to \notin {"*", currentType} /\ Conv!HasDirect(currentType, to)
        /\ Conv!Apply(pair) /\ currentType' = to /\ dataTypes' = Tail(dataTypes)
    BY <1>10 DEF Conv!ConvertDirectly, Conv!AnyType
  <2>2. to \in Types /\ to # currentType
    BY <1>4, <2>1
  <2>3. pair \in Conv!Pairs /\ pair[2] = to /\ pair[1] \in Conv!Alike(response) \union {"*"}
    <3> HIDE DEF to
    <3> QED BY <1>2, <2>1, <2>2, DirectIs
  <2>4. Tail(dataTypes) \in Seq(TypesOrAny)
    BY <1>2, <2>1, LastOfTail
  <2> HIDE DEF to, pair
  <2>5. /\ response' \subseteq Types
        /\ \/ phase' = "convert" /\ pair[2] \in Conv!Alike(response)'
           \/ phase' = "parsererror" /\ threw'
    BY <1>1, <1>2, <2>1, <2>3, ApplyIs
  <2> QED BY <1>5, <1>7, <2>1, <2>2, <2>3, <2>4, <2>5
<1>11. CASE Conv!ConvertInTwo
  <2>1. /\ dataTypes # <<>> /\ to \notin {"*", currentType}
        /\ \E between \in Conv!Through(currentType, to) :
            LET first == Conv!Direct(currentType, between)
                second == <<between, to>>
            IN  IF converters[first] = "same"
                THEN Conv!Apply(second) /\ currentType' = to /\ dataTypes' = Tail(dataTypes)
                ELSE /\ Conv!Apply(first)
                     /\ IF converters[second] # "same"
                        THEN currentType' = between /\ UNCHANGED dataTypes
                        ELSE currentType' = to /\ dataTypes' = Tail(dataTypes)
    BY <1>11 DEF Conv!ConvertInTwo, Conv!AnyType
  <2>2. to \in Types /\ to # currentType
    BY <1>4, <2>1
  <2>3. Tail(dataTypes) \in Seq(TypesOrAny)
    BY <1>2, <2>1, LastOfTail
  <2> HIDE DEF to
  <2>4. PICK between \in Conv!Through(currentType, to) :
            LET first == Conv!Direct(currentType, between)
                second == <<between, to>>
            IN  IF converters[first] = "same"
                THEN Conv!Apply(second) /\ currentType' = to /\ dataTypes' = Tail(dataTypes)
                ELSE /\ Conv!Apply(first)
                     /\ IF converters[second] # "same"
                        THEN currentType' = between /\ UNCHANGED dataTypes
                        ELSE currentType' = to /\ dataTypes' = Tail(dataTypes)
    BY <2>1
  <2> DEFINE first == Conv!Direct(currentType, between)
             second == <<between, to>>
  <2>5. /\ between \in Types /\ between # currentType /\ between # to
        /\ Conv!Defined(between, to) /\ Conv!HasDirect(currentType, between)
    BY DEF Conv!Through
  <2>6. /\ first \in Conv!Pairs /\ first[2] = between
        /\ first = <<currentType, between>> \/ first = <<"*", between>>
    BY <1>2, <2>5, DirectIs
  <2>7. second \in Conv!Pairs /\ second[1] = between /\ second[2] = to
    BY <2>2, <2>5 DEF Conv!Pairs, Conv!AnyType
  <2>8. CASE converters[first] = "same"
    <3>1. Conv!Apply(second) /\ currentType' = to /\ dataTypes' = Tail(dataTypes)
      BY <2>4, <2>8
    <3>2. first = <<currentType, between>>
      BY <1>3, <2>6, <2>8
    <3>3. between \in Conv!Alike(response)
      <4> HIDE DEF first
      <4> QED BY <1>2, <2>5, <2>8, <3>2, AlikeClosed
    <3> HIDE DEF second
    <3>4. /\ response' \subseteq Types
          /\ \/ phase' = "convert" /\ to \in Conv!Alike(response)'
             \/ phase' = "parsererror" /\ threw'
      BY <1>1, <1>2, <2>7, <3>1, <3>3, ApplyIs
    <3> QED BY <1>5, <1>7, <2>1, <2>2, <2>3, <3>1, <3>4
  <2>9. CASE converters[first] # "same"
    <3>1. /\ Conv!Apply(first)
          /\ IF converters[second] # "same"
             THEN currentType' = between /\ UNCHANGED dataTypes
             ELSE currentType' = to /\ dataTypes' = Tail(dataTypes)
      BY <2>4, <2>9
    <3>2. first[1] \in Conv!Alike(response) \union {"*"}
      <4> HIDE DEF first
      <4> QED BY <1>2, <2>6
    <3>3. /\ response' \subseteq Types
          /\ \/ phase' = "convert" /\ between \in Conv!Alike(response)' /\ response' = {between}
             \/ phase' = "parsererror" /\ threw'
      <4> HIDE DEF first
      <4> QED BY <1>1, <1>2, <2>6, <2>9, <3>1, <3>2, ApplyIs
    <3>4. CASE converters[second] # "same"
      BY <1>2, <1>6, <1>7, <2>1, <2>2, <2>5, <3>1, <3>3, <3>4
    <3>5. CASE converters[second] = "same"
      <4>1. response' = {between} => to \in Conv!Alike(response)'
        <5>1. {between} \subseteq Conv!Alike({between})
          BY <2>5, AlikeHolds
        <5>2. to \in Conv!Alike({between})
          BY <2>2, <2>5, <3>5, <5>1, AlikeClosed
        <5> QED BY <1>1, <5>2, AlikeThen
      <4> QED BY <1>5, <1>7, <2>1, <2>2, <2>3, <3>1, <3>3, <3>5, <4>1
    <3> QED BY <3>4, <3>5
  <2> QED BY <2>8, <2>9
<1>12. CASE Conv!NoConversion
  <2>1. /\ dataTypes # <<>> /\ to \notin {"*", currentType}
        /\ ~Conv!HasDirect(currentType, to) /\ Conv!Through(currentType, to) = {}
        /\ phase' = "parsererror" /\ UNCHANGED <<dataTypes, currentType, response, threw>>
    BY <1>12 DEF Conv!NoConversion, Conv!AnyType
  <2>2. Stuck
    BY <1>2, <1>4, <2>1 DEF Stuck
  <2>3. Stuck'
    BY <1>1, <2>1, <2>2
       DEF Stuck, Conv!HasDirect, Conv!Direct, Conv!Defined, Conv!Through, Conv!Pairs
  <2>4. ConvTypes'
    BY <1>1, <1>2, <1>3, <2>1 DEF ConvTypes, Conv!Pairs
  <2> QED BY <2>1, <2>3, <2>4 DEF ConvInv
<1> QED BY <1>8, <1>9, <1>10, <1>11, <1>12 DEF Conv!Convert

LEMMA ConvStutters == ConvInv /\ UNCHANGED Conv!vars => ConvInv'
BY DEF ConvInv, ConvTypes, OnTheWay, Stuck, LastNamed, NoneNamed, Conv!vars,
       Conv!Alike, Conv!Closed, Conv!HasDirect, Conv!Direct, Conv!Defined, Conv!Through, Conv!Pairs

LEMMA ConvGives == ConvInv => Conv!GivesWhatWasAsked
<1> SUFFICES ASSUME ConvInv PROVE Conv!GivesWhatWasAsked
  OBVIOUS
<1>1. ASSUME phase = "success", NEW type \in Types, Conv!Wanted(type) PROVE type \in Conv!Alike(response)
  <2>1. LastNamed(asked, type)
    <3>1. DOMAIN asked = 1 .. Len(asked)
      BY LenProperties DEF ConvInv, ConvTypes
    <3> QED BY <1>1, <3>1 DEF LastNamed, Conv!Wanted, Conv!AnyType
  <2>2. OnTheWay /\ dataTypes = <<>>
    BY <1>1 DEF ConvInv
  <2>3. ~LastNamed(dataTypes, type)
    BY <2>2 DEF LastNamed
  <2> QED BY <2>1, <2>2, <2>3 DEF OnTheWay
<1>2. ASSUME phase = "parsererror", ~threw, NEW between \in Types
      PROVE  LET to == Head(dataTypes)
             IN  /\ ~Conv!HasDirect(currentType, to)
                 /\ ~(Conv!HasDirect(currentType, between) /\ between # to /\ Conv!Defined(between, to))
  <2> DEFINE to == Head(dataTypes)
  <2>1. Stuck
    BY <1>2 DEF ConvInv
  <2>2. /\ currentType \in Types /\ to \in Types /\ to # currentType
        /\ ~Conv!HasDirect(currentType, to) /\ Conv!Through(currentType, to) = {}
    BY <2>1 DEF Stuck
  <2> HIDE DEF to
  <2>3. ~(Conv!HasDirect(currentType, between) /\ between # to /\ Conv!Defined(between, to))
    <3>1. CASE between = currentType
      BY <2>2, <3>1 DEF Conv!HasDirect, Conv!Direct, Conv!Defined, Conv!Pairs
    <3>2. CASE between # currentType
      BY <2>2, <3>2 DEF Conv!Through
    <3> QED BY <3>1, <3>2
  <2> QED BY <2>2, <2>3 DEF to
<1> QED BY <1>1, <1>2 DEF Conv!GivesWhatWasAsked

\* Through every converter and equivalence, the response stays a value of the
\* current type, and the last type asked for is not lost.
THEOREM ConvInvariance == Conv!Spec => []ConvInv
<1>1. ConvInv /\ [Conv!Next]_Conv!vars => ConvInv'
  BY HandleKeeps, ConvertKeeps, ConvStutters DEF Conv!Next
<1> QED BY ConvStarts, <1>1, PTL DEF Conv!Spec

\* A success hands over a value of the type that the caller asked for, and a
\* failure means that a converter threw, or that there was none.
THEOREM GivesIt == Conv!Spec => []GivesWhatWasAsked
<1>1. ConvInv => GivesWhatWasAsked
  BY ConvGives DEF GivesWhatWasAsked
<1> QED BY ConvInvariance, <1>1, PTL
===============================================================================
