------------------------- MODULE EventHandlersProofs -------------------------
(***************************************************************************)
(* Theorems about EventHandlers for every set of functions and any number  *)
(* of calls: a handler runs after the box changed (StateFirst), and a      *)
(* click is heard once by each handler it is for (HeardOnce).              *)
(*                                                                         *)
(* First what the lists of handlers become, by induction on their length;  *)
(* then the parts of the invariant, what each action does to a stack of    *)
(* calls, and part by part that every step keeps the invariant.            *)
(***************************************************************************)
EXTENDS EventHandlers, SequenceTheorems, FiniteSetTheorems, WellFoundedInduction, TLAPS

-----------------------------------------------------------------------------
(* Induction, as the least number of a set.                                *)

LEMMA LeastNumber ==
    ASSUME NEW S, S \subseteq Nat, S # {}
    PROVE  \E n \in S : \A m \in S : n <= m
<1>1. PICK R : R = {p \in Nat \X Nat : p[1] < p[2]}
  OBVIOUS
<1>2. IsWellFoundedOn(R, Nat)
  BY <1>1, NatLessThanWellFounded DEF OpToRel
<1>3. PICK n \in S : \A m \in S : ~(<<m, n>> \in R)
  BY <1>2, WFMin
<1>4. ASSUME NEW m \in S PROVE n <= m
  <2>1. <<m, n>> \in Nat \X Nat
    OBVIOUS
  <2>2. m < n => <<m, n>> \in R
    BY <1>1, <2>1
  <2> QED BY <1>3, <2>2
<1> QED BY <1>4

\* A set that holds 0, and n + 1 with n, holds every number up to a bound.
LEMMA UpTo ==
    ASSUME NEW L \in Nat, NEW S, 0 \in S,
           \A n \in 0 .. L - 1 : n \in S => n + 1 \in S
    PROVE  0 .. L \subseteq S
<1> DEFINE Bad == (0 .. L) \ S
<1> SUFFICES ASSUME Bad # {} PROVE FALSE
  OBVIOUS
<1>0. Bad \subseteq Nat
  OBVIOUS
<1>1. PICK n \in Bad : \A m \in Bad : n <= m
  BY <1>0, LeastNumber
<1>2. n # 0 /\ n \in Nat /\ n <= L /\ n \notin S
  BY <1>1
<1>3. n - 1 \in S
  <2>1. n - 1 \in 0 .. L /\ ~(n <= n - 1)
    BY <1>2
  <2> QED BY <1>1, <2>1
<1> QED BY <1>2, <1>3

-----------------------------------------------------------------------------
(* Taking handlers off a list.                                             *)

\* What is left of the first n of a list, for each n up to m.
Leaves(list, gone, m, left) ==
    /\ left[0] = <<>>
    /\ \A n \in 1 .. m :
           left[n] = IF list[n] \in gone THEN left[n - 1] ELSE Append(left[n - 1], list[n])

LEMMA LeavesExists ==
    ASSUME NEW S, NEW list \in Seq(S), NEW gone
    PROVE  \E left : left \in [0 .. Len(list) -> Seq(S)] /\ Leaves(list, gone, Len(list), left)
<1> DEFINE L == Len(list)
           P == {m \in 0 .. L : \E left \in [0 .. L -> Seq(S)] : Leaves(list, gone, m, left)}
<1>0. L \in Nat /\ \A n \in 1 .. L : list[n] \in S
  BY LenProperties
<1> HIDE DEF L
<1>1. 0 \in P
  <2>1. [n \in 0 .. L |-> <<>>] \in [0 .. L -> Seq(S)]
    BY EmptySeq
  <2>2. Leaves(list, gone, 0, [n \in 0 .. L |-> <<>>])
    BY <1>0 DEF Leaves
  <2>3. 0 \in 0 .. L
    BY <1>0
  <2> QED BY <2>1, <2>2, <2>3
<1>2. ASSUME NEW m \in 0 .. L - 1, m \in P PROVE m + 1 \in P
  <2>1. PICK left \in [0 .. L -> Seq(S)] : Leaves(list, gone, m, left)
    BY <1>2
  <2> DEFINE x == IF list[m + 1] \in gone THEN left[m] ELSE Append(left[m], list[m + 1])
             next == [left EXCEPT ![m + 1] = x]
  <2>2. m + 1 \in 1 .. L /\ m \in 0 .. L
    BY <1>0
  <2>3. x \in Seq(S)
    BY <1>0, <2>2, AppendProperties
  <2> HIDE DEF x
  <2>4. next \in [0 .. L -> Seq(S)] /\ next[m + 1] = x /\ \A n \in 0 .. m : next[n] = left[n]
    BY <1>0, <2>2, <2>3
  <2>5. Leaves(list, gone, m + 1, next)
    <3>1. next[0] = <<>>
      BY <2>1, <2>4 DEF Leaves
    <3>2. ASSUME NEW n \in 1 .. m + 1
          PROVE  next[n] = IF list[n] \in gone THEN next[n - 1] ELSE Append(next[n - 1], list[n])
      <4>1. next[n - 1] = left[n - 1]
        BY <2>4
      <4>2. CASE n = m + 1
        BY <2>4, <4>1, <4>2 DEF x
      <4>3. CASE n # m + 1
        <5>1. n \in 1 .. m
          BY <4>3
        <5>2. next[n] = left[n]
          BY <2>4, <5>1
        <5> QED BY <2>1, <4>1, <5>1, <5>2 DEF Leaves
      <4> QED BY <4>2, <4>3
    <3> QED BY <3>1, <3>2 DEF Leaves
  <2> HIDE DEF next
  <2>6. m + 1 \in 0 .. L
    BY <2>2
  <2> QED BY <2>4, <2>5, <2>6
<1>3. 0 .. L \subseteq P
  <2> HIDE DEF P
  <2> QED BY <1>0, <1>1, <1>2, UpTo
<1> QED BY <1>0, <1>3 DEF L

LEMMA WithoutLeaves ==
    ASSUME NEW S, NEW list \in Seq(S), NEW gone
    PROVE  \E left \in [0 .. Len(list) -> Seq(S)] :
               Leaves(list, gone, Len(list), left) /\ Without(list, gone) = left[Len(list)]
<1> DEFINE Body(f) == [j \in 0 .. Len(list) |->
               IF j = 0 THEN <<>>
               ELSE IF list[j] \in gone THEN f[j - 1] ELSE Append(f[j - 1], list[j])]
           left == CHOOSE f : f = Body(f)
<1>0. Len(list) \in Nat
  BY LenProperties
<1>1. PICK f \in [0 .. Len(list) -> Seq(S)] : Leaves(list, gone, Len(list), f)
  BY LeavesExists
<1>2. f = Body(f)
  <2>1. ASSUME NEW j \in 0 .. Len(list)
        PROVE  f[j] = IF j = 0 THEN <<>>
                      ELSE IF list[j] \in gone THEN f[j - 1] ELSE Append(f[j - 1], list[j])
    <3>1. CASE j = 0
      BY <1>1, <3>1 DEF Leaves
    <3>2. CASE j # 0
      <4>1. j \in 1 .. Len(list)
        BY <1>0, <3>2
      <4> QED BY <1>1, <3>2, <4>1 DEF Leaves
    <3> QED BY <3>1, <3>2
  <2>2. f = [j \in 0 .. Len(list) |-> f[j]]
    BY <1>1
  <2> QED BY <2>1, <2>2
<1>3. left = Body(left)
  <2> HIDE DEF Body
  <2> QED BY <1>2
<1>4. Without(list, gone) = left[Len(list)]
  BY DEF Without
<1> HIDE DEF left
<1>5. left = [j \in 0 .. Len(list) |->
                IF j = 0 THEN <<>>
                ELSE IF list[j] \in gone THEN left[j - 1] ELSE Append(left[j - 1], list[j])]
  BY <1>3
<1> HIDE DEF Body
<1>6. Leaves(list, gone, Len(list), left)
  <2>1. left[0] = <<>>
    BY <1>0, <1>5
  <2>2. ASSUME NEW n \in 1 .. Len(list)
        PROVE  left[n] = IF list[n] \in gone THEN left[n - 1] ELSE Append(left[n - 1], list[n])
    <3>1. n \in 0 .. Len(list) /\ n # 0
      BY <1>0
    <3> QED BY <1>5, <3>1
  <2> QED BY <2>1, <2>2 DEF Leaves
<1>7. 0 .. Len(list) \subseteq {n \in 0 .. Len(list) : left[n] \in Seq(S)}
  <2> DEFINE Q == {n \in 0 .. Len(list) : left[n] \in Seq(S)}
  <2>1. 0 \in Q
    <3>1. left[0] = <<>>
      BY <1>6 DEF Leaves
    <3>2. 0 \in 0 .. Len(list) /\ left[0] \in Seq(S)
      BY <1>0, <3>1, EmptySeq
    <3> QED BY <3>2
  <2>2. ASSUME NEW n \in 0 .. Len(list) - 1, n \in Q PROVE n + 1 \in Q
    <3>1. n + 1 \in 1 .. Len(list) /\ n + 1 \in 0 .. Len(list) /\ (n + 1) - 1 = n
      BY <1>0
    <3>2. list[n + 1] \in S /\ left[n] \in Seq(S)
      BY <2>2, <3>1, ElementOfSeq
    <3>3. left[n + 1] = IF list[n + 1] \in gone THEN left[n] ELSE Append(left[n], list[n + 1])
      BY <1>6, <3>1 DEF Leaves
    <3>4. left[n + 1] \in Seq(S)
      BY <3>2, <3>3, AppendProperties
    <3> QED BY <3>1, <3>4
  <2> HIDE DEF Q
  <2>3. 0 .. Len(list) \subseteq Q
    BY <1>0, <2>1, <2>2, UpTo
  <2> QED BY <2>3 DEF Q
<1>8. left \in [0 .. Len(list) -> Seq(S)]
  BY <1>5, <1>7
<1> QED BY <1>4, <1>6, <1>8

\* Distinct places of s hold what distinct places of list hold, in their order.
Within(s, list, m, gone) ==
    /\ \A i \in 1 .. Len(s) : \E k \in 1 .. m : list[k] \notin gone /\ s[i] = list[k]
    /\ \A i, j \in 1 .. Len(s) : i < j => \E k, l \in 1 .. m : k < l /\ s[i] = list[k] /\ s[j] = list[l]
    /\ m > 0 /\ list[1] \notin gone => Len(s) > 0 /\ s[1] = list[1]

LEMMA WithoutWithin ==
    ASSUME NEW S, NEW list \in Seq(S), NEW gone
    PROVE  /\ Without(list, gone) \in Seq(S)
           /\ Within(Without(list, gone), list, Len(list), gone)
<1>1. PICK left \in [0 .. Len(list) -> Seq(S)] :
          Leaves(list, gone, Len(list), left) /\ Without(list, gone) = left[Len(list)]
  BY WithoutLeaves
<1> DEFINE L == Len(list)
           Q == {n \in 0 .. L : Within(left[n], list, n, gone)}
<1>2. L \in Nat /\ \A n \in 1 .. L : list[n] \in S
  BY LenProperties
<1>3. 0 \in Q
  <2>1. left[0] = <<>> /\ Len(left[0]) = 0
    BY <1>1, EmptySeq DEF Leaves
  <2>2. Within(left[0], list, 0, gone)
    BY <2>1 DEF Within
  <2> QED BY <1>2, <2>2
<1>4. ASSUME NEW n \in 0 .. L - 1, n \in Q PROVE n + 1 \in Q
  <2>1. n + 1 \in 1 .. L /\ n + 1 \in 0 .. L /\ n \in 0 .. L /\ (n + 1) - 1 = n
    BY <1>2
  <2> DEFINE s == left[n]
             x == list[n + 1]
  <2>2. left[n + 1] = IF x \in gone THEN s ELSE Append(s, x)
    BY <1>1, <2>1 DEF Leaves
  <2>3. s \in Seq(S) /\ x \in S /\ Len(s) \in Nat /\ Within(s, list, n, gone)
    BY <1>1, <1>2, <1>4, <2>1, LenProperties
  <2>4. n = 0 => Len(s) = 0
    BY <2>3 DEF Within
  <2> HIDE DEF s
  <2>5. CASE x \in gone
    BY <2>1, <2>2, <2>3, <2>5 DEF Within
  <2>6. CASE x \notin gone
    <3> DEFINE t == Append(s, x)
    <3>1. /\ Len(t) = Len(s) + 1
          /\ \A i \in 1 .. Len(s) : t[i] = s[i]
          /\ t[Len(s) + 1] = x
      BY <2>3, AppendProperties
    <3> HIDE DEF t
    <3>2. \A i \in 1 .. Len(t) : \E k \in 1 .. n + 1 : list[k] \notin gone /\ t[i] = list[k]
      <4> SUFFICES ASSUME NEW i \in 1 .. Len(t)
                   PROVE  \E k \in 1 .. n + 1 : list[k] \notin gone /\ t[i] = list[k]
        OBVIOUS
      <4>1. CASE i = Len(s) + 1
        BY <2>1, <2>6, <3>1, <4>1
      <4>2. CASE i # Len(s) + 1
        <5>1. i \in 1 .. Len(s)
          BY <2>3, <3>1, <4>2
        <5> QED BY <2>1, <2>3, <3>1, <5>1 DEF Within
      <4> QED BY <4>1, <4>2
    <3>3. \A i, j \in 1 .. Len(t) : i < j =>
              \E k, l \in 1 .. n + 1 : k < l /\ t[i] = list[k] /\ t[j] = list[l]
      <4> SUFFICES ASSUME NEW i \in 1 .. Len(t), NEW j \in 1 .. Len(t), i < j
                   PROVE  \E k, l \in 1 .. n + 1 : k < l /\ t[i] = list[k] /\ t[j] = list[l]
        OBVIOUS
      <4>1. i \in 1 .. Len(s) /\ t[i] = s[i]
        BY <2>3, <3>1
      <4>2. CASE j = Len(s) + 1
        <5>1. PICK k \in 1 .. n : s[i] = list[k]
          BY <2>3, <4>1 DEF Within
        <5>2. k \in 1 .. n + 1 /\ n + 1 \in 1 .. n + 1 /\ k < n + 1
          BY <2>1, <5>1
        <5>3. t[i] = list[k] /\ t[j] = list[n + 1]
          BY <3>1, <4>1, <4>2, <5>1
        <5> QED BY <5>2, <5>3
      <4>3. CASE j # Len(s) + 1
        <5>1. j \in 1 .. Len(s) /\ t[j] = s[j]
          BY <2>3, <3>1, <4>3
        <5>2. PICK k \in 1 .. n, l \in 1 .. n : k < l /\ s[i] = list[k] /\ s[j] = list[l]
          BY <2>3, <4>1, <5>1 DEF Within
        <5>3. k \in 1 .. n + 1 /\ l \in 1 .. n + 1
          BY <2>1, <5>2
        <5> QED BY <4>1, <5>1, <5>2, <5>3
      <4> QED BY <4>2, <4>3
    <3>4. list[1] \notin gone => Len(t) > 0 /\ t[1] = list[1]
      <4>1. CASE n = 0
        BY <2>3, <2>4, <3>1, <4>1
      <4>2. CASE n # 0
        <5>1. n > 0
          BY <2>1, <4>2
        <5>2. list[1] \notin gone => Len(s) > 0 /\ s[1] = list[1]
          BY <2>3, <5>1 DEF Within
        <5>3. Len(s) > 0 => t[1] = s[1] /\ Len(t) > 0
          BY <2>3, <3>1
        <5> QED BY <5>2, <5>3
      <4> QED BY <4>1, <4>2
    <3>5. left[n + 1] = t
      BY <2>2, <2>6 DEF t
    <3> QED BY <2>1, <3>2, <3>3, <3>4, <3>5 DEF Within
  <2> QED BY <2>5, <2>6
<1> HIDE DEF Q
<1>5. L \in Q
  <2>1. 0 .. L \subseteq Q
    BY <1>2, <1>3, <1>4, UpTo
  <2> QED BY <1>2, <2>1
<1> QED BY <1>1, <1>2, <1>5 DEF Q

\* The delegates stand in front, and `count' is their number.
Front(list, count) ==
    /\ count \in 0 .. Len(list)
    /\ \A i \in 1 .. Len(list) : list[i].selector <=> i <= count

LEMMA WithoutFront ==
    ASSUME NEW S, NEW list \in Seq(S), NEW gone, NEW count, Front(list, count)
    PROVE  LET s == Without(list, gone)
               delegates == {i \in DOMAIN list : list[i] \in gone /\ list[i].selector}
           IN  Front(s, IF s = <<>> THEN 0 ELSE count - Cardinality(delegates))
<1>1. PICK left \in [0 .. Len(list) -> Seq(S)] :
          Leaves(list, gone, Len(list), left) /\ Without(list, gone) = left[Len(list)]
  BY WithoutLeaves
<1> DEFINE L == Len(list)
           D(n) == {i \in 1 .. n : list[i] \in gone /\ list[i].selector}
           N(n) == (IF n <= count THEN n ELSE count) - Cardinality(D(n))
           OK(n) == Front(left[n], N(n)) /\ (n <= count => Len(left[n]) = N(n))
           Q == {n \in 0 .. L : OK(n)}
<1>2. L \in Nat /\ DOMAIN list = 1 .. L /\ (\A n \in 1 .. L : list[n] \in S) /\ count \in 0 .. L
  BY LenProperties DEF Front
<1>3. 0 \in Q
  <2>1. left[0] = <<>> /\ Len(left[0]) = 0
    BY <1>1, EmptySeq DEF Leaves
  <2>2. Cardinality(D(0)) = 0
    <3>1. D(0) = {}
      OBVIOUS
    <3> QED BY <3>1, FS_EmptySet
  <2>3. N(0) = 0
    BY <1>2, <2>2
  <2> HIDE DEF N
  <2>4. OK(0)
    BY <2>1, <2>3 DEF Front
  <2> QED BY <1>2, <2>4
<1>4. ASSUME NEW n \in 0 .. L - 1, n \in Q PROVE n + 1 \in Q
  <2>1. n + 1 \in 1 .. L /\ n + 1 \in 0 .. L /\ n \in 0 .. L /\ (n + 1) - 1 = n
    BY <1>2
  <2> DEFINE s == left[n]
             x == list[n + 1]
             t == Append(s, x)
  <2>2. left[n + 1] = IF x \in gone THEN s ELSE t
    BY <1>1, <2>1 DEF Leaves
  <2>3. s \in Seq(S) /\ x \in S /\ Len(s) \in Nat
    BY <1>1, <1>2, <2>1, LenProperties
  <2>4. /\ N(n) \in 0 .. Len(s)
        /\ \A i \in 1 .. Len(s) : s[i].selector <=> i <= N(n)
        /\ n <= count => Len(s) = N(n)
    <3> HIDE DEF N
    <3> QED BY <1>4 DEF Front
  <2>5. x.selector <=> n + 1 <= count
    BY <2>1 DEF Front
  <2>6. /\ Len(t) = Len(s) + 1
        /\ \A i \in 1 .. Len(s) : t[i] = s[i]
        /\ t[Len(s) + 1] = x
    BY <2>3, AppendProperties
  <2>7. IsFiniteSet(D(n)) /\ Cardinality(D(n)) \in Nat
    <3>1. IsFiniteSet(1 .. n)
      BY <2>1, FS_Interval
    <3> QED BY <3>1, FS_Subset, FS_CardinalityType
  <2> HIDE DEF s, t
  <2>8. CASE x \in gone /\ x.selector
    <3>1. D(n + 1) = D(n) \cup {n + 1} /\ n + 1 \notin D(n)
      BY <2>1, <2>8
    <3>2. Cardinality(D(n + 1)) = Cardinality(D(n)) + 1
      BY <2>7, <3>1, FS_AddElement
    <3> HIDE DEF D
    <3>3. N(n + 1) = N(n)
      BY <1>2, <2>1, <2>5, <2>7, <2>8, <3>2
    <3>4. n <= count /\ left[n + 1] = s
      BY <1>2, <2>1, <2>2, <2>5, <2>8
    <3> HIDE DEF N
    <3>5. OK(n + 1)
      BY <2>4, <3>3, <3>4 DEF Front
    <3> QED BY <2>1, <3>5
  <2>9. CASE x \in gone /\ ~x.selector
    <3>1. D(n + 1) = D(n)
      BY <2>1, <2>9
    <3>2. ~(n + 1 <= count) /\ left[n + 1] = s
      BY <2>2, <2>5, <2>9
    <3> HIDE DEF D
    <3>3. N(n + 1) = N(n)
      BY <1>2, <2>1, <2>7, <3>1, <3>2
    <3> HIDE DEF N
    <3>4. OK(n + 1)
      BY <2>4, <3>2, <3>3 DEF Front
    <3> QED BY <2>1, <3>4
  <2>10. CASE x \notin gone
    <3>1. D(n + 1) = D(n)
      BY <2>1, <2>10
    <3>2. left[n + 1] = t
      BY <2>2, <2>10
    <3> HIDE DEF D
    <3>3. N(n + 1) = IF n + 1 <= count THEN N(n) + 1 ELSE N(n)
      BY <1>2, <2>1, <2>7, <3>1
    <3> HIDE DEF N
    <3>4. N(n + 1) \in 0 .. Len(t)
      BY <2>3, <2>4, <2>6, <3>3
    <3>5. ASSUME NEW i \in 1 .. Len(t) PROVE t[i].selector <=> i <= N(n + 1)
      <4>1. CASE i = Len(s) + 1
        <5>1. n + 1 <= count => i = N(n + 1)
          BY <1>2, <2>1, <2>4, <3>3, <4>1
        <5>2. ~(n + 1 <= count) => ~(i <= N(n + 1))
          BY <2>3, <2>4, <3>3, <4>1
        <5> QED BY <2>4, <2>5, <2>6, <3>3, <4>1, <5>1, <5>2
      <4>2. CASE i # Len(s) + 1
        <5>1. i \in 1 .. Len(s) /\ t[i] = s[i]
          BY <2>3, <2>6, <4>2
        <5>2. n + 1 <= count => i <= N(n) /\ i <= N(n + 1)
          BY <1>2, <2>1, <2>4, <3>3, <5>1
        <5> QED BY <2>4, <3>3, <5>1, <5>2
      <4> QED BY <4>1, <4>2
    <3>6. n + 1 <= count => Len(t) = N(n + 1)
      BY <1>2, <2>1, <2>4, <2>6, <3>3
    <3>7. OK(n + 1)
      BY <3>2, <3>4, <3>5, <3>6 DEF Front
    <3> QED BY <2>1, <3>7
  <2> QED BY <2>8, <2>9, <2>10
<1>5. L \in Q
  <2> HIDE DEF Q
  <2>1. 0 .. L \subseteq Q
    BY <1>2, <1>3, <1>4, UpTo
  <2> QED BY <1>2, <2>1
<1>6. N(L) = count - Cardinality({i \in DOMAIN list : list[i] \in gone /\ list[i].selector})
  <2>1. D(L) = {i \in DOMAIN list : list[i] \in gone /\ list[i].selector}
    BY <1>2
  <2> HIDE DEF D
  <2> QED BY <1>2, <2>1
<1> HIDE DEF N
<1>7. Front(Without(list, gone), N(L))
  BY <1>1, <1>5
<1>8. Without(list, gone) = <<>> => Front(Without(list, gone), 0)
  BY EmptySeq DEF Front
<1> QED BY <1>6, <1>7, <1>8

-----------------------------------------------------------------------------
(* Types.                                                                  *)

\* What each variable holds.
Kinds == {"user", "dispatch", "trigger", "native", "default", "interrupt", "reinvoke"}
Handle == [id : Nat, guid : Fns \cup {"leverage", "returnTrue"},
           selector : BOOLEAN, once : BOOLEAN]
Frame == [frame : Kinds, event : Nat, this : Elements, elem : Elements, i : Nat,
          queue : Seq(Elements \X Handle)]
EventObject == [click : Nat, target : Elements, native : BOOLEAN,
                prevented : BOOLEAN, stopped : BOOLEAN, immediate : BOOLEAN]
Click == [target : Elements, due : SUBSET Nat, done : BOOLEAN, stopped : BOOLEAN,
          within : SUBSET Nat, leveraged : BOOLEAN]
Saved == [is : {"undefined", "false", "args", "captured"}, event : Nat]

TypesInv ==
    /\ handlers \in [Elements -> Seq(Handle)]
    /\ delegateCount \in [Elements -> Nat]
    /\ saved \in Saved
    /\ triggered \in BOOLEAN /\ checked \in BOOLEAN
    /\ events \in Seq(EventObject)
    /\ stack \in Seq(Frame)
    /\ calls \in Nat
    /\ clicks \in Seq(Click)
    /\ heard \subseteq Nat \X Nat \X BOOLEAN

-----------------------------------------------------------------------------
(* The invariant: the lists of handlers.                                   *)

\* Only what the user registered has a number, and it was given at a call.
Numbered(h, n) == h.id <= n /\ (h.guid \in Fns <=> h.id # 0)

\* The leveraging handler stands in front of the box's list, and nowhere else.
RegistryInv ==
    /\ \A e \in Elements : Front(handlers[e], delegateCount[e])
    /\ \A e \in Elements : \A i \in 1 .. Len(handlers[e]) :
           /\ Numbered(handlers[e][i], calls)
           /\ handlers[e][i].guid = "leverage" => e = "box" /\ i = 1
    /\ handlers["box"] # <<>> => saved.is # "undefined" /\ handlers["box"][1] = Leverage
    /\ delegateCount["box"] = 0
    /\ \A e, d \in Elements : \A i \in 1 .. Len(handlers[e]), k \in 1 .. Len(handlers[d]) :
           handlers[e][i].id = handlers[d][k].id /\ handlers[e][i].id # 0 => e = d /\ i = k

\* Events, clicks and what was heard speak of what there is.
HistoryInv ==
    /\ \A k \in 1 .. Len(events) :
           /\ events[k].click \in 1 .. Len(clicks)
           /\ events[k].immediate => events[k].stopped
    /\ \A c \in 1 .. Len(clicks) : clicks[c].due \subseteq 1 .. calls
    /\ \A h \in heard : h[1] \in 1 .. Len(clicks) /\ h[2] \in 1 .. calls

-----------------------------------------------------------------------------
(* The invariant: the calls.                                               *)

\* The calls by their depth, the innermost is 1, and their events.
Depth == 1 .. Len(stack)
Object(j) == events[stack[j].event]
ClickAt(j) == Object(j).click
Is(j, kinds) == j \in Depth /\ stack[j].frame \in kinds
Walks(j) == Is(j, {"trigger", "native"})

\* What is under a call that another call made.
Stands(j) ==
    /\ stack[j].event \in 1 .. Len(events)
    /\ stack[j].frame = "user" => Is(j + 1, {"dispatch"}) /\ stack[j + 1].event = stack[j].event
    /\ stack[j].frame = "dispatch" => Walks(j + 1) /\ stack[j + 1].event = stack[j].event
    /\ stack[j].frame = "interrupt" =>
           /\ Is(j + 1, {"dispatch"}) /\ stack[j + 1].event = stack[j].event
           /\ ~Object(j).native /\ Object(j).target = "box"
    /\ stack[j].frame = "reinvoke" =>
           /\ Is(j + 1, {"dispatch"}) /\ stack[j + 1].event = stack[j].event
           /\ Is(j + 2, {"native"})
           /\ Is(j + 3, {"interrupt"}) /\ ClickAt(j + 3) = ClickAt(j)
    /\ stack[j].frame = "native" =>
           /\ Object(j).native
           /\ j # Len(stack) => Is(j + 1, {"interrupt", "default"}) /\ ClickAt(j + 1) = ClickAt(j)
    /\ stack[j].frame = "trigger" => ~Object(j).native
    /\ stack[j].frame \in {"trigger", "default"} /\ j # Len(stack) => Is(j + 1, {"user", "reinvoke"})

\* The place on the path; the queue of a dispatch: the leveraging handler is
\* called before any other, and at once.
Queues(j) ==
    /\ stack[j].frame \in {"trigger", "native"} => stack[j].i >= 1
    /\ stack[j].frame # "dispatch" => stack[j].queue = <<>>
    /\ \A k \in 1 .. Len(stack[j].queue) :
           /\ Numbered(stack[j].queue[k][2], calls)
           /\ stack[j].queue[k][2].guid = "leverage" => j = 1 /\ k = 1

\* Each call stands on the one that made it, and its queue is in order.
StackInv == \A j \in Depth : Stands(j) /\ Queues(j)

\* A click that is somebody's default action is not heard, and calls nobody.
TriggeredInv ==
    /\ triggered <=> \E j \in Depth : Is(j, {"default"})
    /\ \A j \in Depth : Is(j, {"default"}) => j = 1 \/ (j = 2 /\ Is(1, {"native"}))

\* Nobody has stopped the event.
Fresh(j) ==
    ~Object(j).stopped /\ ~Object(j).immediate

\* The native click the leverage fires, from its beginning to its end: it is at
\* the box, the leveraging handler is about to be called, or the event was
\* triggered again, which it is at last or which is under way.
Leveraged(j) == Is(j, {"native"}) /\ Is(j + 1, {"interrupt"})
Stage(j) ==
    \/ /\ j = 1 /\ stack[j].i = 1 /\ Object(j).target = "box" /\ Fresh(j)
       /\ saved = Args(stack[j + 1].event) /\ handlers["box"] # <<>>
    \/ /\ j = 2 /\ Is(1, {"dispatch"}) /\ Fresh(j)
       /\ stack[1].queue # <<>> /\ Head(stack[1].queue)[2] = Leverage
       /\ saved = Args(stack[j + 1].event)
    \/ j = 1 /\ Object(j).stopped /\ saved = Captured
    \/ j = 2 /\ Is(1, {"dispatch"}) /\ Object(j).immediate /\ saved = Captured
    \/ j > 2 /\ Is(j - 2, {"reinvoke"})

\* jQuery's data of the box tells how far the leveraged click is.
LeverageInv ==
    /\ saved.is \in {"args", "captured"} => \E j \in Depth : Is(j, {"interrupt"})
    /\ Is(1, {"interrupt"}) => saved = Captured
    /\ \A j \in Depth : Leveraged(j) => Stage(j)

-----------------------------------------------------------------------------
(* The invariant: who will still hear of a click.                          *)

\* The elements a walk will come to, the queue above it, who has heard.
Ahead(j) == {Path(Object(j).target)[k] : k \in stack[j].i .. Len(Path(Object(j).target))}
Queued(j) == IF j > 1 THEN stack[j - 1].queue ELSE <<>>
HeardOf(c) == {h[2] : h \in {x \in heard : x[1] = c}}

\* A walk that waits for another pass of the same click.
Waits(j) == j > 2 /\ Is(j - 2, {"interrupt", "reinvoke"})
Discards(j) == Is(j, {"native"}) /\ Is(j + 1, {"default"})
Live(j) == Walks(j) /\ ~Waits(j) /\ ~Discards(j) /\ ~Object(j).immediate

\* One pass of a click at a time.
OnePassInv ==
    \A j, k \in Depth : j < k /\ Walks(k) /\ ~Is(j, {"dispatch", "user"}) /\ ClickAt(j) = ClickAt(k)
        => Waits(k)

\* Nobody whom the walk will still reach, or who is in the queue, has heard.
NobodyHeard(j) ==
    /\ \A k \in 1 .. Len(Queued(j)) : Queued(j)[k][2].id # 0 =>
           /\ Queued(j)[k][2].id \notin HeardOf(ClickAt(j))
           /\ \A l \in 1 .. Len(Queued(j)) : Queued(j)[l][2].id = Queued(j)[k][2].id => k = l
           /\ \A e \in Ahead(j) : \A h \in Handlers(e) : h.id # Queued(j)[k][2].id
    /\ \A e \in Ahead(j) : \A h \in Handlers(e) : h.id # 0 => h.id \notin HeardOf(ClickAt(j))

\* The same for the whole stack; before the leveraging handler runs nobody has.
UnheardInv ==
    /\ \A j \in Depth : Live(j) => NobodyHeard(j)
    /\ Is(1, {"dispatch"}) /\ stack[1].queue # <<>> /\ Head(stack[1].queue)[2].guid = "leverage" =>
           /\ stack[2].i = 2 /\ Object(1).target = "box" /\ handlers["box"] # <<>>
           /\ \A h \in Handlers("box") : h.id # 0 => h.id \notin HeardOf(ClickAt(1))
    /\ repeats = {}

\* Who should hear has heard, is in the queue or will be reached.
ToHear(j) ==
    \A e \in Elements : \A h \in Handlers(e) : h.id \in clicks[ClickAt(j)].due =>
        \/ h.id \in HeardOf(ClickAt(j))
        \/ \E k \in 1 .. Len(Queued(j)) : Queued(j)[k][2].id = h.id
        \/ e \in Ahead(j) /\ (h.selector => Object(j).target # e)

\* Everybody it is for has heard the click.
Delivered(c) ==
    \A e \in Elements : \A h \in Handlers(e) : h.id \in clicks[c].due => h.id \in HeardOf(c)

\* Unless a handler stopped it, this is so or a walk is on its way to them.
DeliveryInv ==
    \A c \in 1 .. Len(clicks) :
        \/ clicks[c].stopped
        \/ Delivered(c)
        \/ \E j \in Depth : Live(j) /\ ClickAt(j) = c /\ ~Object(j).stopped /\ ToHear(j)

\* A click that has not changed the box yet is about to.
PendingInv ==
    \A c \in 1 .. Len(clicks) : clicks[c].leveraged /\ ~clicks[c].done =>
        /\ stack # <<>> /\ ClickAt(1) = c /\ Fresh(1) /\ ~Object(1).native
        /\ saved.is = "false" /\ ~triggered
        /\ \/ Is(1, {"trigger"}) /\ stack[1].i = 1 /\ Object(1).target = "box" /\ handlers["box"] # <<>>
           \/ /\ Is(1, {"dispatch"}) /\ stack[1].queue # <<>>
              /\ Head(stack[1].queue)[2] = Leverage

-----------------------------------------------------------------------------
(* How a step changes the stack.                                           *)

\* What was under the first k calls, which is one or none, is under n others now.
Shifted(n, k) ==
    /\ stack' \in Seq(Frame)
    /\ Len(stack') = Len(stack) - k + n
    /\ \A j \in n + 1 .. Len(stack') :
           j - n + k \in k + 1 .. Len(stack) /\ stack'[j] = stack[j - n + k]

LEMMA StackTop ==
    ASSUME TypesInv, stack # <<>>
    PROVE  /\ Len(stack) \in Nat \ {0} /\ Top = stack[1] /\ Top \in Frame
           /\ Below \in Seq(Frame) /\ Len(Below) = Len(stack) - 1
           /\ \A j \in 1 .. Len(Below) : Below[j] = stack[j + 1]
<1>1. stack \in Seq(Frame)
  BY DEF TypesInv
<1>2. Len(stack) \in Nat \ {0}
  BY <1>1, EmptySeq
<1> QED BY <1>1, <1>2, HeadTailProperties, ElementOfSeq DEF Top, Below

LEMMA Popped ==
    ASSUME TypesInv, stack # <<>>, stack' = Below
    PROVE  Shifted(0, 1)
<1>1. ASSUME NEW j \in 0 + 1 .. Len(stack')
      PROVE  j - 0 + 1 \in 2 .. Len(stack) /\ stack'[j] = stack[j - 0 + 1]
  BY StackTop
<1> QED BY <1>1, StackTop DEF Shifted

LEMMA Pushing ==
    ASSUME NEW s \in Seq(Frame), NEW a \in Frame
    PROVE  /\ <<a>> \o s \in Seq(Frame)
           /\ Len(<<a>> \o s) = Len(s) + 1
           /\ (<<a>> \o s)[1] = a
           /\ \A j \in 2 .. Len(s) + 1 : (<<a>> \o s)[j] = s[j - 1]
<1>1. <<a>> \in Seq(Frame) /\ Len(<<a>>) = 1 /\ <<a>>[1] = a
  OBVIOUS
<1>2. Len(s) \in Nat
  BY LenProperties
<1>3. /\ <<a>> \o s \in Seq(Frame)
      /\ Len(<<a>> \o s) = 1 + Len(s)
      /\ \A i \in 1 .. 1 + Len(s) : (<<a>> \o s)[i] = IF i <= 1 THEN <<a>>[i] ELSE s[i - 1]
  BY <1>1, ConcatProperties
<1>4. (<<a>> \o s)[1] = a
  BY <1>1, <1>2, <1>3
<1>5. \A j \in 2 .. Len(s) + 1 : (<<a>> \o s)[j] = s[j - 1]
  BY <1>2, <1>3
<1> QED BY <1>2, <1>3, <1>4, <1>5

LEMMA Pushed1 ==
    ASSUME TypesInv, stack # <<>>, NEW a \in Frame, stack' = <<a>> \o Below
    PROVE  Shifted(1, 1) /\ stack'[1] = a
<1>1. Below \in Seq(Frame) /\ Len(stack) \in Nat /\ Len(Below) = Len(stack) - 1
      /\ \A j \in 1 .. Len(Below) : Below[j] = stack[j + 1]
  BY StackTop
<1>2. stack' \in Seq(Frame) /\ Len(stack') = Len(stack) /\ stack'[1] = a
      /\ \A j \in 2 .. Len(stack) : stack'[j] = Below[j - 1]
  BY <1>1, Pushing
<1>3. ASSUME NEW j \in 1 + 1 .. Len(stack')
      PROVE  j - 1 + 1 \in 2 .. Len(stack) /\ stack'[j] = stack[j - 1 + 1]
  <2>1. j \in 2 .. Len(stack) /\ j - 1 \in 1 .. Len(Below) /\ (j - 1) + 1 = j
    BY <1>1, <1>2
  <2> QED BY <1>1, <1>2, <2>1
<1> QED BY <1>1, <1>2, <1>3 DEF Shifted

LEMMA Pushed2 ==
    ASSUME TypesInv, stack # <<>>, NEW a \in Frame, NEW b \in Frame,
           stack' = <<a>> \o (<<b>> \o Below)
    PROVE  Shifted(2, 1) /\ stack'[1] = a /\ stack'[2] = b
<1>1. Below \in Seq(Frame) /\ Len(stack) \in Nat /\ Len(Below) = Len(stack) - 1
      /\ \A j \in 1 .. Len(Below) : Below[j] = stack[j + 1]
  BY StackTop
<1> DEFINE s == <<b>> \o Below
<1>2. s \in Seq(Frame) /\ Len(s) = Len(stack) /\ s[1] = b
      /\ \A j \in 2 .. Len(stack) : s[j] = Below[j - 1]
  BY <1>1, Pushing
<1> HIDE DEF s
<1>3. stack' = <<a>> \o s
  BY DEF s
<1>4. stack' \in Seq(Frame) /\ Len(stack') = Len(stack) + 1 /\ stack'[1] = a
      /\ \A j \in 2 .. Len(stack) + 1 : stack'[j] = s[j - 1]
  <2>1. /\ <<a>> \o s \in Seq(Frame) /\ Len(<<a>> \o s) = Len(s) + 1 /\ (<<a>> \o s)[1] = a
        /\ \A j \in 2 .. Len(s) + 1 : (<<a>> \o s)[j] = s[j - 1]
    BY <1>2, Pushing
  <2> QED BY <1>2, <1>3, <2>1
<1>5. ASSUME NEW j \in 2 + 1 .. Len(stack')
      PROVE  j - 2 + 1 \in 2 .. Len(stack) /\ stack'[j] = stack[j - 2 + 1]
  <2>1. j \in 2 .. Len(stack) + 1 /\ j - 1 \in 2 .. Len(stack) /\ j - 2 \in 1 .. Len(Below)
        /\ (j - 1) - 1 = j - 2 /\ (j - 2) + 1 = j - 2 + 1
    BY <1>1, <1>4
  <2>2. stack'[j] = s[j - 1] /\ s[j - 1] = Below[(j - 1) - 1]
    BY <1>2, <1>4, <2>1
  <2> QED BY <1>1, <2>1, <2>2
<1>6. stack'[2] = b
  <2>1. 2 \in 2 .. Len(stack) + 1
    BY <1>1, StackTop
  <2> QED BY <1>2, <1>4, <2>1
<1> QED BY <1>1, <1>4, <1>5, <1>6 DEF Shifted

LEMMA Pushed3 ==
    ASSUME TypesInv, stack # <<>>, NEW a \in Frame, NEW b \in Frame, NEW c \in Frame,
           stack' = <<a>> \o (<<b>> \o (<<c>> \o Below))
    PROVE  Shifted(3, 1) /\ stack'[1] = a /\ stack'[2] = b /\ stack'[3] = c
<1>1. Below \in Seq(Frame) /\ Len(stack) \in Nat \ {0} /\ Len(Below) = Len(stack) - 1
      /\ \A j \in 1 .. Len(Below) : Below[j] = stack[j + 1]
  BY StackTop
<1> DEFINE s == <<c>> \o Below
           t == <<b>> \o s
<1>2. s \in Seq(Frame) /\ Len(s) = Len(stack) /\ s[1] = c
      /\ \A j \in 2 .. Len(stack) : s[j] = Below[j - 1]
  BY <1>1, Pushing
<1> HIDE DEF s
<1>3. t \in Seq(Frame) /\ Len(t) = Len(stack) + 1 /\ t[1] = b
      /\ \A j \in 2 .. Len(stack) + 1 : t[j] = s[j - 1]
  BY <1>2, Pushing
<1> HIDE DEF t
<1>4. stack' = <<a>> \o t
  BY DEF s, t
<1>5. stack' \in Seq(Frame) /\ Len(stack') = Len(stack) + 2 /\ stack'[1] = a
      /\ \A j \in 2 .. Len(stack) + 2 : stack'[j] = t[j - 1]
  <2>1. /\ <<a>> \o t \in Seq(Frame) /\ Len(<<a>> \o t) = Len(t) + 1 /\ (<<a>> \o t)[1] = a
        /\ \A j \in 2 .. Len(t) + 1 : (<<a>> \o t)[j] = t[j - 1]
    BY <1>3, Pushing
  <2>2. Len(t) + 1 = Len(stack) + 2
    BY <1>1, <1>3
  <2> QED BY <1>4, <2>1, <2>2
<1>6. ASSUME NEW j \in 3 + 1 .. Len(stack')
      PROVE  j - 3 + 1 \in 2 .. Len(stack) /\ stack'[j] = stack[j - 3 + 1]
  <2>1. /\ j \in 2 .. Len(stack) + 2 /\ j - 1 \in 2 .. Len(stack) + 1
        /\ j - 2 \in 2 .. Len(stack) /\ j - 3 \in 1 .. Len(Below)
        /\ (j - 1) - 1 = j - 2 /\ (j - 2) - 1 = j - 3
    BY <1>1, <1>5
  <2>2. stack'[j] = t[j - 1] /\ t[j - 1] = s[j - 2] /\ s[j - 2] = Below[j - 3]
    BY <1>2, <1>3, <1>5, <2>1
  <2> QED BY <1>1, <2>1, <2>2
<1>7. stack'[2] = b /\ stack'[3] = c
  <2>1. 2 \in 2 .. Len(stack) + 2 /\ 3 \in 2 .. Len(stack) + 2 /\ 2 \in 2 .. Len(stack) + 1
        /\ 3 - 1 = 2 /\ 2 - 1 = 1
    BY <1>1
  <2> QED BY <1>2, <1>3, <1>5, <2>1
<1> QED BY <1>1, <1>5, <1>6, <1>7 DEF Shifted

LEMMA PairIsConcat ==
    ASSUME NEW a \in Frame, NEW b \in Frame
    PROVE  <<a, b>> = <<a>> \o <<b>>
<1>1. <<a, b>> \in Seq(Frame) /\ Len(<<a, b>>) = 2 /\ <<a>> \in Seq(Frame) /\ <<b>> \in Seq(Frame)
  OBVIOUS
<1>2. /\ <<a>> \o <<b>> \in Seq(Frame) /\ Len(<<a>> \o <<b>>) = 2
      /\ \A i \in 1 .. 2 : (<<a>> \o <<b>>)[i] = IF i <= 1 THEN <<a>>[i] ELSE <<b>>[i - 1]
  <2>1. Len(<<a>>) = 1 /\ Len(<<b>>) = 1 /\ 1 + 1 = 2
    OBVIOUS
  <2> QED BY <1>1, <2>1, ConcatProperties
<1>3. \A i \in 1 .. 2 : <<a, b>>[i] = (<<a>> \o <<b>>)[i]
  BY <1>2
<1> QED BY <1>1, <1>2, <1>3, SeqEqual

LEMMA Pushed0 ==
    ASSUME TypesInv, NEW a \in Frame, stack' = <<a>> \o stack
    PROVE  Shifted(1, 0) /\ stack'[1] = a
<1>1. stack \in Seq(Frame) /\ Len(stack) \in Nat
  BY LenProperties DEF TypesInv
<1>2. stack' \in Seq(Frame) /\ Len(stack') = Len(stack) + 1 /\ stack'[1] = a
      /\ \A j \in 2 .. Len(stack) + 1 : stack'[j] = stack[j - 1]
  BY <1>1, Pushing
<1>3. ASSUME NEW j \in 1 + 1 .. Len(stack')
      PROVE  j - 1 + 0 \in 0 + 1 .. Len(stack) /\ stack'[j] = stack[j - 1 + 0]
  <2>1. j \in 2 .. Len(stack) + 1 /\ j - 1 + 0 = j - 1 /\ j - 1 \in 1 .. Len(stack)
    BY <1>1, <1>2
  <2> QED BY <1>2, <2>1
<1> QED BY <1>1, <1>2, <1>3 DEF Shifted

\* <<a, b>> \o s and <<a, b, c>> \o s, one call after the other.
LEMMA OneByOne ==
    ASSUME NEW s \in Seq(Frame), NEW a \in Frame, NEW b \in Frame, NEW c \in Frame
    PROVE  /\ <<a, b>> \o s = <<a>> \o (<<b>> \o s)
           /\ <<a, b, c>> \o s = <<a>> \o (<<b>> \o (<<c>> \o s))
<1>1. /\ <<a>> \in Seq(Frame) /\ <<b>> \in Seq(Frame) /\ <<c>> \in Seq(Frame)
      /\ <<a, b>> \in Seq(Frame) /\ <<b, c>> \in Seq(Frame)
    <2> QED OBVIOUS
<1>2. <<a, b>> = <<a>> \o <<b>> /\ <<b, c>> = <<b>> \o <<c>>
  BY PairIsConcat
<1>3. <<a, b, c>> = <<a>> \o <<b, c>>
    <2>1. <<a, b, c>> \in Seq(Frame) /\ Len(<<a, b, c>>) = 3
    OBVIOUS
  <2>2. /\ <<a>> \o <<b, c>> \in Seq(Frame) /\ Len(<<a>> \o <<b, c>>) = 3
        /\ \A i \in 1 .. 3 : (<<a>> \o <<b, c>>)[i] = IF i <= 1 THEN <<a>>[i] ELSE <<b, c>>[i - 1]
    <3>1. Len(<<a>>) = 1 /\ Len(<<b, c>>) = 2 /\ 1 + 2 = 3
      OBVIOUS
    <3> QED BY <1>1, <3>1, ConcatProperties
  <2>3. \A i \in 1 .. 3 : <<a, b, c>>[i] = (<<a>> \o <<b, c>>)[i]
    BY <2>2
  <2> QED BY <2>1, <2>2, <2>3, SeqEqual
<1>4. <<a, b>> \o s = <<a>> \o (<<b>> \o s) /\ <<b, c>> \o s = <<b>> \o (<<c>> \o s)
    <2> QED BY <1>1, <1>2, ConcatAssociative
<1>5. <<a, b, c>> \o s = <<a>> \o (<<b, c>> \o s)
    <2> QED BY <1>1, <1>3, ConcatAssociative
<1> QED BY <1>4, <1>5

-----------------------------------------------------------------------------
(* What the steps push.                                                    *)

LEMMA Paths ==
    /\ Elements = {"box", "form"}
    /\ Len(Path("box")) = 2 /\ Path("box")[1] = "box" /\ Path("box")[2] = "form"
    /\ Len(Path("form")) = 1 /\ Path("form")[1] = "form"
BY DEF Elements, Path

\* Where the queue of an element's handlers starts in its list.
Offset(e, target) == IF target # e THEN 0 ELSE delegateCount[e]

LEMMA QueueOf ==
    ASSUME TypesInv, RegistryInv, NEW e \in Elements, NEW target \in Elements
    PROVE  LET q == HandlerQueue(e, target)
           IN  /\ q \in Seq(Elements \X Handle)
               /\ Offset(e, target) \in 0 .. Len(handlers[e])
               /\ Len(q) = Len(handlers[e]) - Offset(e, target)
               /\ \A k \in 1 .. Len(q) : q[k][2] = handlers[e][k + Offset(e, target)]
<1> DEFINE list == handlers[e]
           n == delegateCount[e]
           L == Len(list)
           P == Elements \X Handle
           front == SubSeq(list, 1, n)
           own == SubSeq(list, n + 1, L)
           f == [i \in DOMAIN front |-> <<target, front[i]>>]
           o == [i \in DOMAIN own |-> <<e, own[i]>>]
<1>1. list \in Seq(Handle) /\ L \in Nat /\ n \in 0 .. L
  BY LenProperties DEF TypesInv, RegistryInv, Front
<1>2. \A i \in 1 .. L : list[i] \in Handle
  BY <1>1
<1> HIDE DEF list, n
<1>3. front \in Seq(Handle) /\ Len(front) = n /\ \A i \in 1 .. n : front[i] = list[i]
  <2>1. \A i \in 1 .. n : list[i] \in Handle
    BY <1>1, <1>2
  <2>2. /\ front \in Seq(Handle) /\ Len(front) = (IF 1 <= n THEN n - 1 + 1 ELSE 0)
        /\ \A i \in 1 .. n - 1 + 1 : front[i] = list[1 + i - 1]
    BY <1>1, <2>1, SubSeqProperties
  <2> QED BY <1>1, <2>2
<1>4. own \in Seq(Handle) /\ Len(own) = L - n /\ \A i \in 1 .. L - n : own[i] = list[n + i]
  <2>1. \A i \in n + 1 .. L : list[i] \in Handle
    BY <1>1, <1>2
  <2>2. /\ own \in Seq(Handle) /\ Len(own) = (IF n + 1 <= L THEN L - (n + 1) + 1 ELSE 0)
        /\ \A i \in 1 .. L - (n + 1) + 1 : own[i] = list[(n + 1) + i - 1]
    BY <1>1, <2>1, SubSeqProperties
  <2> QED BY <1>1, <2>2
<1> HIDE DEF front, own
<1>5. f \in Seq(P) /\ Len(f) = n /\ \A i \in 1 .. n : f[i] = <<target, list[i]>>
  <2>1. DOMAIN front = 1 .. n
    BY <1>1, <1>3, LenProperties
  <2>2. f \in [1 .. n -> P]
    BY <1>1, <1>2, <1>3, <2>1
  <2> QED BY <1>1, <1>3, <2>1, <2>2, SeqDef
<1>6. o \in Seq(P) /\ Len(o) = L - n /\ \A i \in 1 .. L - n : o[i] = <<e, list[n + i]>>
  <2>1. DOMAIN own = 1 .. L - n /\ L - n \in Nat
    BY <1>1, <1>4, LenProperties
  <2>2. o \in [1 .. L - n -> P]
    BY <1>1, <1>2, <1>4, <2>1
  <2> QED BY <1>1, <1>4, <2>1, <2>2, SeqDef
<1>7. HandlerQueue(e, target) = (IF target # e THEN f ELSE <<>>) \o o
  BY DEF HandlerQueue, list, n, front, own
<1> HIDE DEF f, o, P
<1>8. CASE target # e
  <2>1. /\ f \o o \in Seq(P) /\ Len(f \o o) = n + (L - n)
        /\ \A i \in 1 .. n + (L - n) : (f \o o)[i] = IF i <= n THEN f[i] ELSE o[i - n]
    <3>1. f \in Seq(P) /\ o \in Seq(P)
      BY <1>5, <1>6
    <3>2. /\ f \o o \in Seq(P) /\ Len(f \o o) = Len(f) + Len(o)
          /\ \A i \in 1 .. Len(f) + Len(o) :
                 (f \o o)[i] = IF i <= Len(f) THEN f[i] ELSE o[i - Len(f)]
      BY <3>1, ConcatProperties, Zenon
    <3>3. Len(f) = n /\ Len(o) = L - n
      BY <1>5, <1>6
    <3> QED BY <3>2, <3>3, Zenon
  <2>2. ASSUME NEW k \in 1 .. L PROVE (f \o o)[k][2] = list[k + 0]
    <3>1. k \in 1 .. n + (L - n)
      BY <1>1
    <3>2. CASE k <= n
      BY <1>1, <1>5, <2>1, <3>1, <3>2
    <3>3. CASE ~(k <= n)
      <4>1. k - n \in 1 .. L - n /\ n + (k - n) = k /\ k + 0 = k
        BY <1>1, <3>3
      <4> QED BY <1>6, <2>1, <3>1, <3>3, <4>1
    <3> QED BY <3>2, <3>3
  <2>3. n + (L - n) = L /\ L - 0 = L /\ 0 \in 0 .. L
    BY <1>1
  <2> QED BY <1>7, <1>8, <2>1, <2>2, <2>3 DEF Offset, list, P
<1>9. CASE target = e
  <2>1. <<>> \o o = o
    BY <1>6, ConcatEmptySeq
  <2>2. \A k \in 1 .. L - n : o[k][2] = list[k + n]
    BY <1>1, <1>6
  <2> QED BY <1>1, <1>6, <1>7, <1>9, <2>1, <2>2 DEF Offset, list, n, P
<1> QED BY <1>8, <1>9

LEMMA FramesTyped ==
    ASSUME TypesInv, StackInv, stack # <<>>
    PROVE  /\ stack[1].event \in 1 .. Len(events) /\ 1 \in Depth
           /\ Event(stack[1].event) = Object(1) /\ Object(1) \in EventObject
           /\ Len(events) \in Nat
           /\ [stack[1] EXCEPT !.i = @ + 1] \in Frame
<1>1. 1 \in Depth /\ stack[1] \in Frame
  BY StackTop DEF Depth
<1>2. stack[1].event \in 1 .. Len(events)
  BY <1>1 DEF StackInv, Stands
<1>3. events \in Seq(EventObject)
  BY DEF TypesInv
<1>4. Object(1) \in EventObject /\ Len(events) \in Nat
  <2> QED BY <1>2, <1>3, ElementOfSeq, LenProperties DEF Object
<1> QED BY <1>1, <1>2, <1>4 DEF Event, Object, Frame

LEMMA NewFrames ==
    ASSUME NEW ev \in Nat, NEW e \in Elements, NEW q \in Seq(Elements \X Handle)
    PROVE  /\ TriggerFrame(ev) \in Frame /\ NativeFrame(ev) \in Frame
           /\ DispatchFrame(ev, e, q) \in Frame
           /\ \A k \in Kinds : FrameOf(k, ev) \in Frame
           /\ TriggerFrame(ev).frame = "trigger" /\ TriggerFrame(ev).event = ev
           /\ TriggerFrame(ev).i = 1 /\ TriggerFrame(ev).queue = <<>>
           /\ NativeFrame(ev).frame = "native" /\ NativeFrame(ev).event = ev
           /\ NativeFrame(ev).i = 1 /\ NativeFrame(ev).queue = <<>>
           /\ DispatchFrame(ev, e, q).frame = "dispatch" /\ DispatchFrame(ev, e, q).event = ev
           /\ DispatchFrame(ev, e, q).queue = q
           /\ \A k \in Kinds : FrameOf(k, ev).frame = k /\ FrameOf(k, ev).event = ev
                               /\ FrameOf(k, ev).queue = <<>>
<1>1. \A k \in Kinds : Idle(k) \in Frame
  BY EmptySeq DEF Idle, Frame, Elements
<1>2. "trigger" \in Kinds /\ "native" \in Kinds /\ "dispatch" \in Kinds
  BY DEF Kinds
<1> QED BY <1>1, <1>2 DEF TriggerFrame, NativeFrame, DispatchFrame, FrameOf, Frame, Idle

\* The same, without a queue.
LEMMA NewFrame ==
    ASSUME NEW ev \in Nat
    PROVE  /\ TriggerFrame(ev) \in Frame /\ NativeFrame(ev) \in Frame
           /\ \A k \in Kinds : FrameOf(k, ev) \in Frame
           /\ TriggerFrame(ev).frame = "trigger" /\ TriggerFrame(ev).event = ev
           /\ TriggerFrame(ev).i = 1 /\ TriggerFrame(ev).queue = <<>>
           /\ NativeFrame(ev).frame = "native" /\ NativeFrame(ev).event = ev
           /\ NativeFrame(ev).i = 1 /\ NativeFrame(ev).queue = <<>>
           /\ \A k \in Kinds : FrameOf(k, ev).frame = k /\ FrameOf(k, ev).event = ev
                               /\ FrameOf(k, ev).queue = <<>>
<1>1. <<>> \in Seq(Elements \X Handle) /\ "box" \in Elements
  BY EmptySeq DEF Elements
<1> QED BY <1>1, NewFrames

LEMMA VisitEffect ==
    ASSUME TypesInv, RegistryInv, StackInv, stack # <<>>, NEW e \in Elements, Visit(e)
    PROVE  \/ /\ handlers[e] = <<>> \/ triggered
              /\ Shifted(1, 1) /\ stack'[1] = [stack[1] EXCEPT !.i = @ + 1]
           \/ /\ handlers[e] # <<>> /\ ~triggered
              /\ Shifted(2, 1) /\ stack'[2] = [stack[1] EXCEPT !.i = @ + 1]
              /\ stack'[1] = DispatchFrame(stack[1].event, e, HandlerQueue(e, Object(1).target))
<1> DEFINE b == [stack[1] EXCEPT !.i = @ + 1]
           a == DispatchFrame(stack[1].event, e, HandlerQueue(e, Object(1).target))
<1>1. b \in Frame /\ a \in Frame
  <2>1. Object(1).target \in Elements /\ stack[1].event \in Nat
    BY FramesTyped DEF EventObject
  <2> QED BY <2>1, FramesTyped, QueueOf, NewFrames
<1>2. stack' = IF handlers[e] # <<>> /\ ~triggered
               THEN <<a>> \o (<<b>> \o Below) ELSE <<b>> \o Below
  BY StackTop, FramesTyped DEF Visit
<1> HIDE DEF a, b
<1>3. CASE handlers[e] # <<>> /\ ~triggered
  BY <1>1, <1>2, <1>3, Pushed2 DEF a, b
<1>4. CASE ~(handlers[e] # <<>> /\ ~triggered)
  BY <1>1, <1>2, <1>4, Pushed1 DEF a, b
<1> QED BY <1>3, <1>4

-----------------------------------------------------------------------------
(* Registering and taking off.                                             *)

\* s is the list with h put in at a place.
Inserted(s, list, h, at) ==
    /\ s \in Seq(Handle) /\ Len(s) = Len(list) + 1
    /\ at \in 1 .. Len(s) /\ s[at] = h
    /\ \A i \in 1 .. at - 1 : s[i] = list[i]
    /\ \A i \in at + 1 .. Len(s) : i - 1 \in at .. Len(list) /\ s[i] = list[i - 1]

LEMMA InsertIs ==
    ASSUME NEW list \in Seq(Handle), NEW count \in 0 .. Len(list), NEW h \in Handle
    PROVE  Inserted(Insert(list, count, h), list, h,
                    IF h.selector THEN count + 1 ELSE Len(list) + 1)
<1>1. Len(list) \in Nat /\ \A i \in 1 .. Len(list) : list[i] \in Handle
  BY LenProperties
<1>2. CASE ~h.selector
  <2>1. Insert(list, count, h) = Append(list, h)
    BY <1>2 DEF Insert
  <2>2. /\ Append(list, h) \in Seq(Handle) /\ Len(Append(list, h)) = Len(list) + 1
        /\ \A i \in 1 .. Len(list) : Append(list, h)[i] = list[i]
        /\ Append(list, h)[Len(list) + 1] = h
    BY AppendProperties
  <2>3. Inserted(Append(list, h), list, h, Len(list) + 1)
    BY <1>1, <2>2 DEF Inserted
  <2> QED BY <1>2, <2>1, <2>3
<1>3. CASE h.selector
  <2> DEFINE a == SubSeq(list, 1, count)
             b == SubSeq(list, count + 1, Len(list))
             L == Len(list)
  <2>1. a \in Seq(Handle) /\ Len(a) = count /\ \A i \in 1 .. count : a[i] = list[i]
    <3>1. \A i \in 1 .. count : list[i] \in Handle
      BY <1>1
    <3>2. /\ a \in Seq(Handle) /\ Len(a) = (IF 1 <= count THEN count - 1 + 1 ELSE 0)
          /\ \A i \in 1 .. count - 1 + 1 : a[i] = list[1 + i - 1]
      BY <3>1, SubSeqProperties
    <3> QED BY <1>1, <3>2
  <2>2. b \in Seq(Handle) /\ Len(b) = L - count /\ \A i \in 1 .. L - count : b[i] = list[count + i]
    <3>1. \A i \in count + 1 .. L : list[i] \in Handle
      BY <1>1
    <3>2. /\ b \in Seq(Handle) /\ Len(b) = (IF count + 1 <= L THEN L - (count + 1) + 1 ELSE 0)
          /\ \A i \in 1 .. L - (count + 1) + 1 : b[i] = list[(count + 1) + i - 1]
      BY <1>1, <3>1, SubSeqProperties
    <3> QED BY <1>1, <3>2
  <2> HIDE DEF a, b
  <2> DEFINE c == a \o <<h>>
  <2>3. /\ c \in Seq(Handle) /\ Len(c) = count + 1 /\ c[count + 1] = h
        /\ \A i \in 1 .. count : c[i] = list[i]
    <3>1. <<h>> \in Seq(Handle) /\ Len(<<h>>) = 1 /\ <<h>>[1] = h
      OBVIOUS
    <3>2. /\ c \in Seq(Handle) /\ Len(c) = count + 1
          /\ \A i \in 1 .. count + 1 : c[i] = IF i <= count THEN a[i] ELSE <<h>>[i - count]
      BY <2>1, <3>1, ConcatProperties
    <3>3. count + 1 \in 1 .. count + 1 /\ ~(count + 1 <= count) /\ (count + 1) - count = 1
      BY <1>1
    <3>4. c[count + 1] = h
      BY <3>1, <3>2, <3>3
    <3> QED BY <2>1, <3>2, <3>4
  <2>4. Insert(list, count, h) = c \o b
    <3>1. (count + 1) - 1 = count
      BY <1>1
    <3>2. Insert(list, count, h) = Seqs!InsertAt(list, count + 1, h)
      BY <1>3 DEF Insert
    <3>3. Seqs!InsertAt(list, count + 1, h)
          = SubSeq(list, 1, (count + 1) - 1) \o <<h>> \o SubSeq(list, count + 1, Len(list))
      BY DEF Seqs!InsertAt
    <3> QED BY <3>1, <3>2, <3>3 DEF a, b
  <2> HIDE DEF c
  <2>5. /\ c \o b \in Seq(Handle) /\ Len(c \o b) = L + 1
        /\ \A i \in 1 .. L + 1 : (c \o b)[i] = IF i <= count + 1 THEN c[i] ELSE b[i - (count + 1)]
    <3>1. count + 1 + (L - count) = L + 1
      BY <1>1
    <3> QED BY <2>2, <2>3, <3>1, ConcatProperties
  <2>6. \A i \in 1 .. count : (c \o b)[i] = list[i]
    BY <1>1, <2>3, <2>5
  <2>7. (c \o b)[count + 1] = h
    BY <1>1, <2>3, <2>5
  <2>8. \A i \in count + 2 .. L + 1 : (c \o b)[i] = list[i - 1]
    <3>1. ASSUME NEW i \in count + 2 .. L + 1 PROVE (c \o b)[i] = list[i - 1]
      <4>1. /\ i \in 1 .. L + 1 /\ ~(i <= count + 1) /\ i - (count + 1) \in 1 .. L - count
            /\ count + (i - (count + 1)) = i - 1
        BY <1>1
      <4> QED BY <2>2, <2>5, <4>1
    <3> QED BY <3>1
  <2>9. Inserted(c \o b, list, h, count + 1)
    BY <1>1, <2>5, <2>6, <2>7, <2>8, SMTT(30) DEF Inserted
  <2> QED BY <1>3, <2>4, <2>9
<1> QED BY <1>2, <1>3

\* The list Add inserts into.
Start(e) == IF SettingUp(e) THEN <<Leverage>> ELSE handlers[e]

LEMMA StartIs ==
    ASSUME TypesInv, RegistryInv, NEW e \in Elements
    PROVE  /\ Start(e) \in Seq(Handle) /\ Leverage \in Handle
           /\ delegateCount[e] \in 0 .. Len(Start(e))
           /\ Front(Start(e), delegateCount[e])
           /\ \A i \in 1 .. Len(Start(e)) :
                 \/ i \in 1 .. Len(handlers[e]) /\ Start(e)[i] = handlers[e][i]
                 \/ Start(e)[i] = Leverage /\ i = 1 /\ e = "box"
           /\ e = "box" => Len(Start(e)) > 0 /\ Start(e)[1] = Leverage
<1>1. Leverage \in Handle
  BY DEF Leverage, HandleObj, Handle
<1>2. handlers[e] \in Seq(Handle) /\ Len(handlers[e]) \in Nat /\ Front(handlers[e], delegateCount[e])
  BY LenProperties DEF TypesInv, RegistryInv
<1>3. CASE SettingUp(e)
  <2>1. e = "box" /\ handlers[e] = <<>>
    BY <1>3 DEF SettingUp
  <2>2. delegateCount[e] = 0
    BY <2>1 DEF RegistryInv
  <2>3. Len(<<Leverage>>) = 1 /\ <<Leverage>>[1] = Leverage
    OBVIOUS
  <2>4. Start(e) = <<Leverage>>
    BY <1>3 DEF Start
  <2>5. <<Leverage>> \in Seq(Handle)
    <3> QED BY <1>1
  <2>6. Front(Start(e), delegateCount[e])
    BY <2>2, <2>3, <2>4 DEF Front, Leverage, HandleObj
  <2>7. \A i \in 1 .. Len(Start(e)) : Start(e)[i] = Leverage /\ i = 1
    BY <2>3, <2>4
  <2>8. delegateCount[e] \in 0 .. Len(Start(e)) /\ Len(Start(e)) > 0
    BY <2>2, <2>3, <2>4
  <2> QED BY <1>1, <2>1, <2>3, <2>4, <2>5, <2>6, <2>7, <2>8
<1>4. CASE ~SettingUp(e)
  <2>1. Start(e) = handlers[e]
    BY <1>4 DEF Start
  <2>2. e = "box" => Len(handlers[e]) > 0 /\ handlers[e][1] = Leverage
    BY <1>2, <1>4, EmptySeq DEF SettingUp, RegistryInv
  <2> QED BY <1>1, <1>2, <2>1, <2>2 DEF Front
<1> QED BY <1>3, <1>4

\* What Add may be given: a number that nobody had, or none.
New(e, h) ==
    /\ h \in Handle /\ h.guid # "leverage" /\ (e = "box" => ~h.selector)
    /\ h.id \in 0 .. calls' /\ (h.id # 0 => h.id > calls) /\ (h.guid \in Fns <=> h.id # 0)

LEMMA AddEffect ==
    ASSUME TypesInv, RegistryInv, NEW e \in Elements, NEW h, Add(e, h), New(e, h),
           calls' \in Nat, calls <= calls'
    PROVE  /\ handlers' \in [Elements -> Seq(Handle)] /\ delegateCount' \in [Elements -> Nat]
           /\ saved' \in Saved /\ (saved' = saved \/ (saved = Unset /\ saved' = False) \/ saved' = False)
           /\ RegistryInv'
           /\ \A d \in Elements : \A x \in Handlers(d)' : x \in Handlers(d) \/ x.id = 0 \/ x = h
           /\ e = "box" => saved'.is # "undefined" /\ handlers'["box"] # <<>>
<1> DEFINE s == Insert(Start(e), delegateCount[e], h)
           at == IF h.selector THEN delegateCount[e] + 1 ELSE Len(Start(e)) + 1
           n == delegateCount[e] + (IF h.selector THEN 1 ELSE 0)
<1>1. /\ Start(e) \in Seq(Handle) /\ Leverage \in Handle
      /\ delegateCount[e] \in 0 .. Len(Start(e))
      /\ Front(Start(e), delegateCount[e])
      /\ \A i \in 1 .. Len(Start(e)) :
            \/ i \in 1 .. Len(handlers[e]) /\ Start(e)[i] = handlers[e][i]
            \/ Start(e)[i] = Leverage /\ i = 1 /\ e = "box"
      /\ e = "box" => Len(Start(e)) > 0 /\ Start(e)[1] = Leverage
      /\ Len(Start(e)) \in Nat
  BY StartIs, LenProperties
<1>2. h \in Handle
  BY DEF New
<1>3. /\ s \in Seq(Handle) /\ Len(s) = Len(Start(e)) + 1
      /\ at \in 1 .. Len(s) /\ s[at] = h
      /\ \A i \in 1 .. at - 1 : s[i] = Start(e)[i]
      /\ \A i \in at + 1 .. Len(s) : i - 1 \in at .. Len(Start(e)) /\ s[i] = Start(e)[i - 1]
  <2>1. Start(e) \in Seq(Handle) /\ delegateCount[e] \in 0 .. Len(Start(e))
    BY <1>1
  <2>2. Inserted(Insert(Start(e), delegateCount[e], h), Start(e), h,
                 IF h.selector THEN delegateCount[e] + 1 ELSE Len(Start(e)) + 1)
    BY <1>2, <2>1, InsertIs
  <2> QED BY <2>2 DEF Inserted
<1>4. /\ handlers' = [handlers EXCEPT ![e] = s]
      /\ delegateCount' = [delegateCount EXCEPT ![e] = n]
      /\ saved' = IF SettingUp(e) THEN False ELSE saved
  BY DEF Add, Start
<1>5. n \in Nat
  BY <1>1
<1> HIDE DEF s, n
<1>6. handlers' \in [Elements -> Seq(Handle)] /\ delegateCount' \in [Elements -> Nat]
  BY <1>3, <1>4, <1>5 DEF TypesInv
<1>7. handlers'[e] = s /\ delegateCount'[e] = n
      /\ \A d \in Elements : d # e => handlers'[d] = handlers[d] /\ delegateCount'[d] = delegateCount[d]
  BY <1>4 DEF TypesInv
<1>8. saved' \in Saved /\ (saved' = saved \/ saved' = False)
  BY <1>4 DEF TypesInv, Saved, False
<1>10. ~h.selector => at = Len(s)
  BY <1>3
<1>11. h.selector => at = delegateCount[e] + 1 /\ n = delegateCount[e] + 1
  BY <1>1 DEF n
<1>12. ~h.selector => n = delegateCount[e]
  BY <1>1 DEF n
<1> HIDE DEF at
\* Where an element of the new list comes from.
<1>9. ASSUME NEW i \in 1 .. Len(s)
      PROVE  \/ i = at /\ s[i] = h
             \/ i < at /\ i \in 1 .. Len(Start(e)) /\ s[i] = Start(e)[i]
             \/ i > at /\ i - 1 \in 1 .. Len(Start(e)) /\ s[i] = Start(e)[i - 1]
  <2>1. CASE i = at
    BY <1>3, <2>1
  <2>2. CASE i < at
    BY <1>1, <1>3, <2>2
  <2>3. CASE i > at
    <3>1. i \in at + 1 .. Len(s)
      BY <1>1, <1>3, <2>3
    <3> QED BY <1>1, <1>3, <2>3, <3>1
  <2> QED BY <1>1, <1>3, <2>1, <2>2, <2>3
<1>13. Front(s, n)
  <2>1. n \in 0 .. Len(s)
    BY <1>1, <1>3, <1>11, <1>12
  <2>2. ASSUME NEW i \in 1 .. Len(s) PROVE s[i].selector <=> i <= n
    <3>1. CASE i = at /\ s[i] = h
      BY <1>1, <1>2, <1>3, <1>10, <1>11, <1>12, <3>1
    <3>2. CASE i < at /\ i \in 1 .. Len(Start(e)) /\ s[i] = Start(e)[i]
      BY <1>1, <1>3, <1>10, <1>11, <1>12, <3>2 DEF Front
    <3>3. CASE i > at /\ i - 1 \in 1 .. Len(Start(e)) /\ s[i] = Start(e)[i - 1]
      <4>1. h.selector
        BY <1>3, <1>10, <3>3
      <4>2. ~(i - 1 <= delegateCount[e]) /\ ~(i <= n)
        BY <1>1, <1>3, <1>11, <3>3, <4>1
      <4> QED BY <1>1, <3>3, <4>2 DEF Front
    <3> QED BY <1>9, <3>1, <3>2, <3>3
  <2> QED BY <2>1, <2>2 DEF Front
<1>14. ASSUME NEW i \in 1 .. Len(s)
       PROVE  \/ i = at /\ s[i] = h
              \/ s[i] = Leverage /\ i = 1 /\ e = "box"
              \/ \E k \in 1 .. Len(handlers[e]) : s[i] = handlers[e][k] /\ k = IF i < at THEN i ELSE i - 1
  <2>0. e = "box" => at = Len(s)
    BY <1>10 DEF New
  <2>1. CASE i = at /\ s[i] = h
    BY <2>1
  <2>2. CASE i < at /\ i \in 1 .. Len(Start(e)) /\ s[i] = Start(e)[i]
    BY <1>1, <2>2
  <2>3. CASE i > at /\ i - 1 \in 1 .. Len(Start(e)) /\ s[i] = Start(e)[i - 1]
    <3>1. ~(i < at) /\ e # "box"
      BY <1>3, <2>0, <2>3
    <3> QED BY <1>1, <2>3, <3>1
  <2> QED BY <1>9, <2>1, <2>2, <2>3
<1>15. Leverage.id = 0 /\ Leverage.guid = "leverage" /\ "leverage" \notin Fns
  BY FnsAssumption DEF Leverage, HandleObj
<1>16. calls \in Nat /\ \A d \in Elements : Len(handlers[d]) \in Nat
  BY LenProperties DEF TypesInv
<1>17. \A d \in Elements : Front(handlers'[d], delegateCount'[d])
  BY <1>7, <1>13 DEF RegistryInv
<1>18. ASSUME NEW d \in Elements, NEW i \in 1 .. Len(handlers'[d])
       PROVE  /\ Numbered(handlers'[d][i], calls')
              /\ handlers'[d][i].guid = "leverage" => d = "box" /\ i = 1
  <2>1. CASE d # e
    <3>1. handlers'[d] = handlers[d] /\ handlers[d][i] \in Handle
      BY <1>7, <2>1, ElementOfSeq DEF TypesInv
    <3>2. handlers[d][i].id <= calls'
      BY <1>16, <3>1 DEF RegistryInv, Numbered, Handle
    <3> QED BY <3>1, <3>2 DEF RegistryInv, Numbered
  <2>2. CASE d = e
    <3>1. CASE i = at /\ s[i] = h
      BY <1>7, <2>2, <3>1 DEF New, Numbered
    <3>2. CASE s[i] = Leverage /\ i = 1 /\ e = "box"
      BY <1>7, <1>15, <2>2, <3>2 DEF Numbered
    <3>3. CASE \E k \in 1 .. Len(handlers[e]) : s[i] = handlers[e][k] /\ k = IF i < at THEN i ELSE i - 1
      <4>1. PICK k \in 1 .. Len(handlers[e]) : s[i] = handlers[e][k] /\ k = IF i < at THEN i ELSE i - 1
        BY <3>3
      <4>2. handlers[e][k] \in Handle
        BY ElementOfSeq DEF TypesInv
      <4>3. Numbered(s[i], calls')
        BY <1>16, <4>1, <4>2 DEF RegistryInv, Numbered, Handle
      <4>4. s[i].guid = "leverage" => e = "box" /\ i = 1
        <5>1. SUFFICES ASSUME s[i].guid = "leverage" PROVE e = "box" /\ i = 1
          OBVIOUS
        <5>2. e = "box" /\ k = 1
          BY <4>1, <5>1 DEF RegistryInv
        <5>3. at = Len(s) /\ i <= Len(s)
          BY <1>3, <1>7, <1>10, <2>2, <5>2 DEF New
        <5>4. i # at
          BY <1>3, <5>1 DEF New
        <5> QED BY <1>3, <4>1, <5>2, <5>3, <5>4
      <4> QED BY <1>7, <2>2, <4>3, <4>4
    <3> QED BY <1>7, <1>14, <2>2, <3>1, <3>2, <3>3
  <2> QED BY <2>1, <2>2
<1>19. handlers'["box"] # <<>> => saved'.is # "undefined" /\ handlers'["box"][1] = Leverage
  <2>1. CASE e = "box"
    <3>1. 1 \in 1 .. at - 1 /\ s[1] = Start(e)[1]
      BY <1>1, <1>3, <1>10, <2>1 DEF New
    <3>2. saved'.is # "undefined"
      <4>1. CASE SettingUp(e)
        BY <1>4, <4>1 DEF False
      <4>2. CASE ~SettingUp(e)
        BY <1>4, <2>1, <4>2 DEF SettingUp, RegistryInv
      <4> QED BY <4>1, <4>2
    <3> QED BY <1>1, <1>7, <2>1, <3>1, <3>2
  <2>2. CASE e # "box"
    <3>1. ~SettingUp(e)
      BY <2>2 DEF SettingUp
    <3> QED BY <1>4, <1>7, <2>2, <3>1, Paths DEF RegistryInv
  <2> QED BY <2>1, <2>2
<1>20. delegateCount'["box"] = 0
  <2>1. e = "box" => ~h.selector
    BY DEF New
  <2> QED BY <1>7, <1>12, <2>1, Paths DEF RegistryInv
<1>21. ASSUME NEW c \in Elements, NEW d \in Elements,
              NEW i \in 1 .. Len(handlers'[c]), NEW k \in 1 .. Len(handlers'[d]),
              handlers'[c][i].id = handlers'[d][k].id, handlers'[c][i].id # 0
       PROVE  c = d /\ i = k
  \* An element with a number is the new one or comes from its own list.
  <2> DEFINE From(x, m) ==
          \/ x = e /\ m = at /\ handlers'[x][m] = h
          \/ \E l \in 1 .. Len(handlers[x]) :
                 /\ handlers'[x][m] = handlers[x][l]
                 /\ l = IF x # e \/ m < at THEN m ELSE m - 1
                 /\ x = e => m # at
  <2>1. ASSUME NEW x \in Elements, NEW m \in 1 .. Len(handlers'[x]), handlers'[x][m].id # 0
        PROVE  From(x, m)
    <3>1. CASE x # e
      BY <1>7, <3>1
    <3>2. CASE x = e
      <4>1. m \in 1 .. Len(s) /\ s[m] # Leverage
        BY <1>7, <1>15, <2>1, <3>2
      <4>2. \/ m = at /\ s[m] = h
            \/ \E l \in 1 .. Len(handlers[e]) : s[m] = handlers[e][l] /\ l = IF m < at THEN m ELSE m - 1
        BY <1>14, <4>1
      <4>3. CASE m = at
        BY <1>3, <1>7, <3>2, <4>3
      <4>4. CASE m # at
        BY <1>7, <3>2, <4>2, <4>4
      <4> QED BY <4>3, <4>4
    <3> QED BY <3>1, <3>2
  <2>2. ASSUME NEW x \in Elements, NEW l \in 1 .. Len(handlers[x]), h.id # 0
        PROVE  handlers[x][l].id # h.id
    <3>1. handlers[x][l].id <= calls /\ handlers[x][l] \in Handle
      BY ElementOfSeq DEF RegistryInv, Numbered, TypesInv
    <3> QED BY <1>16, <2>2, <3>1 DEF New, Handle
  <2>3. From(c, i) /\ From(d, k)
    BY <1>21, <2>1
  <2>4. CASE c = e /\ i = at /\ handlers'[c][i] = h
    BY <1>21, <2>2, <2>3, <2>4
  <2>5. CASE d = e /\ k = at /\ handlers'[d][k] = h
    BY <1>21, <2>2, <2>3, <2>5
  <2>6. CASE ~(c = e /\ i = at /\ handlers'[c][i] = h) /\ ~(d = e /\ k = at /\ handlers'[d][k] = h)
    <3>1. PICK l \in 1 .. Len(handlers[c]) :
              /\ handlers'[c][i] = handlers[c][l]
              /\ l = IF c # e \/ i < at THEN i ELSE i - 1
              /\ c = e => i # at
      BY <2>3, <2>6
    <3>2. PICK m \in 1 .. Len(handlers[d]) :
              /\ handlers'[d][k] = handlers[d][m]
              /\ m = IF d # e \/ k < at THEN k ELSE k - 1
              /\ d = e => k # at
      BY <2>3, <2>6
    <3>3. c = d /\ l = m
      BY <1>21, <3>1, <3>2 DEF RegistryInv
    <3>4. i \in Int /\ k \in Int /\ at \in Int
      BY <1>1, <1>3
    <3>5. i = k
      <4>1. CASE c # e
        BY <3>1, <3>2, <3>3, <4>1
      <4>2. CASE c = e
        BY <3>1, <3>2, <3>3, <3>4, <4>2
      <4> QED BY <4>1, <4>2
    <3> QED BY <3>3, <3>5
  <2> QED BY <2>4, <2>5, <2>6
<1>22. RegistryInv'
  BY <1>17, <1>18, <1>19, <1>20, <1>21 DEF RegistryInv
<1>23. ASSUME NEW d \in Elements, NEW x \in Handlers(d)'
       PROVE  x \in Handlers(d) \/ x.id = 0 \/ x = h
  <2>1. PICK i \in DOMAIN handlers'[d] : x = handlers'[d][i]
    BY <1>23 DEF Handlers, Seqs!ToSet
  <2>2. DOMAIN handlers'[d] = 1 .. Len(handlers'[d]) /\ DOMAIN handlers[d] = 1 .. Len(handlers[d])
    BY <1>6, LenProperties DEF TypesInv
  <2>3. CASE d # e
    BY <1>7, <2>1, <2>3 DEF Handlers, Seqs!ToSet
  <2>4. CASE d = e
    <3>1. i \in 1 .. Len(s) /\ x = s[i]
      BY <1>7, <2>1, <2>2, <2>4
    <3> QED BY <1>14, <1>15, <2>2, <2>4, <3>1 DEF Handlers, Seqs!ToSet
  <2> QED BY <2>3, <2>4
<1>24. e = "box" => saved'.is # "undefined" /\ handlers'["box"] # <<>>
  <2>1. Len(s) > 0
    BY <1>1, <1>3
  <2>2. s # <<>>
    BY <2>1, EmptySeq
  <2> QED BY <1>7, <1>19, <2>2
<1> QED BY <1>6, <1>8, <1>22, <1>23, <1>24

LEMMA RemoveEffect ==
    ASSUME TypesInv, RegistryInv, NEW e \in Elements, NEW gone, Remove(e, gone),
           Leverage \notin gone \/ Handlers(e) \subseteq gone,
           saved' = saved, calls' \in Nat, calls <= calls'
    PROVE  /\ handlers' \in [Elements -> Seq(Handle)] /\ delegateCount' \in [Elements -> Nat]
           /\ RegistryInv'
           /\ \A d \in Elements : Handlers(d)' \subseteq Handlers(d)
<1> DEFINE list == handlers[e]
           s == Without(list, gone)
           delegates == {i \in DOMAIN list : list[i] \in gone /\ list[i].selector}
           n == IF s = <<>> THEN 0 ELSE delegateCount[e] - Cardinality(delegates)
<1>1. /\ list \in Seq(Handle) /\ Len(list) \in Nat /\ DOMAIN list = 1 .. Len(list)
      /\ calls \in Nat /\ Front(list, delegateCount[e])
  BY LenProperties DEF TypesInv, RegistryInv
<1>2. s \in Seq(Handle) /\ Within(s, list, Len(list), gone)
  BY <1>1, WithoutWithin
<1>3. Front(s, n)
  BY <1>1, WithoutFront
<1>4. /\ handlers' = [handlers EXCEPT ![e] = s]
      /\ delegateCount' = [delegateCount EXCEPT ![e] = n]
  BY DEF Remove, TypesInv
<1>5. Len(s) \in Nat /\ DOMAIN s = 1 .. Len(s) /\ n \in Nat
  BY <1>2, <1>3, LenProperties DEF Front
<1> HIDE DEF s, n, list
<1>6. /\ handlers'[e] = s /\ delegateCount'[e] = n
      /\ \A d \in Elements : d # e => handlers'[d] = handlers[d] /\ delegateCount'[d] = delegateCount[d]
      /\ handlers' \in [Elements -> Seq(Handle)] /\ delegateCount' \in [Elements -> Nat]
  BY <1>2, <1>4, <1>5 DEF TypesInv
<1>7. \A d \in Elements : Front(handlers'[d], delegateCount'[d])
  BY <1>3, <1>6 DEF RegistryInv
<1>8. s # <<>> => Len(s) > 0
  BY <1>2, EmptySeq
\* Distinct places come from distinct places.
<1>9. ASSUME NEW d \in Elements, NEW i \in 1 .. Len(handlers'[d])
      PROVE  \E k \in 1 .. Len(handlers[d]) : handlers'[d][i] = handlers[d][k]
  <2>1. CASE d = e
    BY <1>2, <1>6, <2>1, SMTT(45) DEF Within, list
  <2>2. CASE d # e
    BY <1>6, <2>2
  <2> QED BY <2>1, <2>2
<1>10. ASSUME NEW d \in Elements, NEW i \in 1 .. Len(handlers'[d]), NEW j \in 1 .. Len(handlers'[d]), i < j
       PROVE  \E k, l \in 1 .. Len(handlers[d]) :
                  k < l /\ handlers'[d][i] = handlers[d][k] /\ handlers'[d][j] = handlers[d][l]
  <2>1. CASE d = e
    BY <1>2, <1>6, <1>10, <2>1 DEF Within, list
  <2>2. CASE d # e
    BY <1>6, <1>10, <2>2
  <2> QED BY <2>1, <2>2
<1>11. ASSUME handlers'["box"] # <<>>
       PROVE  handlers["box"] # <<>> /\ handlers'["box"][1] = handlers["box"][1]
  <2>1. CASE e = "box"
    <3>1. Len(s) > 0 /\ 1 \in 1 .. Len(s)
      BY <1>5, <1>6, <1>8, <1>11, <2>1
    <3>2. PICK k \in 1 .. Len(list) : list[k] \notin gone
      BY <1>2, <3>1 DEF Within
    <3>3. list # <<>>
      BY <3>2, EmptySeq
    <3>4. list[1] = Leverage
      BY <2>1, <3>3 DEF RegistryInv, list
    <3>5. ~(Handlers(e) \subseteq gone)
      BY <1>1, <3>2 DEF Handlers, Seqs!ToSet, list
    <3>6. s[1] = list[1]
      BY <1>1, <1>2, <3>2, <3>4, <3>5 DEF Within
    <3> QED BY <1>6, <2>1, <3>3, <3>6 DEF list
  <2>2. CASE e # "box"
    BY <1>6, <1>11, <2>2, Paths
  <2> QED BY <2>1, <2>2
<1>12. ASSUME NEW d \in Elements, NEW i \in 1 .. Len(handlers'[d])
       PROVE  /\ Numbered(handlers'[d][i], calls')
              /\ handlers'[d][i].guid = "leverage" => d = "box" /\ i = 1
  <2>1. PICK k \in 1 .. Len(handlers[d]) : handlers'[d][i] = handlers[d][k]
    BY <1>9
  <2>2. handlers[d][k] \in Handle
    BY <2>1, ElementOfSeq DEF TypesInv
  <2>3. Numbered(handlers'[d][i], calls')
    BY <1>1, <2>1, <2>2 DEF RegistryInv, Numbered, Handle
  <2>4. ASSUME handlers'[d][i].guid = "leverage", i # 1 PROVE FALSE
    <3>1. 1 \in 1 .. Len(handlers'[d]) /\ 1 < i
      BY <2>4
    <3>2. PICK l \in 1 .. Len(handlers[d]), m \in 1 .. Len(handlers[d]) :
              l < m /\ handlers'[d][i] = handlers[d][m]
      BY <1>10, <3>1
    <3>3. m = 1
      BY <2>4, <3>2 DEF RegistryInv
    <3> QED BY <3>2, <3>3
  <2>5. handlers'[d][i].guid = "leverage" => d = "box"
    BY <2>1 DEF RegistryInv
  <2> QED BY <2>3, <2>4, <2>5
<1>13. delegateCount'["box"] = 0
  <2>1. CASE e = "box"
    <3>1. ASSUME n # 0 PROVE FALSE
      <4>1. 1 \in 1 .. Len(s) /\ s[1].selector
        BY <1>3, <1>5, <3>1 DEF Front
      <4>2. PICK k \in 1 .. Len(list) : s[1] = list[k]
        BY <1>2, <4>1 DEF Within
      <4>3. delegateCount[e] = 0 /\ (list[k].selector <=> k <= 0)
        BY <1>1, <2>1, <4>2 DEF Front, RegistryInv
      <4> QED BY <4>1, <4>2, <4>3
    <3> QED BY <1>6, <2>1, <3>1
  <2>2. CASE e # "box"
    BY <1>6, <2>2, Paths DEF RegistryInv
  <2> QED BY <2>1, <2>2
<1>14. ASSUME NEW c \in Elements, NEW d \in Elements,
              NEW i \in 1 .. Len(handlers'[c]), NEW k \in 1 .. Len(handlers'[d]),
              handlers'[c][i].id = handlers'[d][k].id, handlers'[c][i].id # 0
       PROVE  c = d /\ i = k
  <2>1. c = d
    <3>1. PICK l \in 1 .. Len(handlers[c]) : handlers'[c][i] = handlers[c][l]
      BY <1>9
    <3>2. PICK m \in 1 .. Len(handlers[d]) : handlers'[d][k] = handlers[d][m]
      BY <1>9
    <3> QED BY <1>14, <3>1, <3>2 DEF RegistryInv
  <2>2. ASSUME NEW x \in 1 .. Len(handlers'[c]), NEW y \in 1 .. Len(handlers'[c]), x < y,
               handlers'[c][x].id = handlers'[c][y].id, handlers'[c][x].id # 0
        PROVE  FALSE
    <3>1. PICK l \in 1 .. Len(handlers[c]), m \in 1 .. Len(handlers[c]) :
              l < m /\ handlers'[c][x] = handlers[c][l] /\ handlers'[c][y] = handlers[c][m]
      BY <1>10, <2>2
    <3>2. l = m
      BY <2>2, <3>1 DEF RegistryInv
    <3> QED BY <3>1, <3>2
  <2>3. i = k \/ i < k \/ k < i
    OBVIOUS
  <2> QED BY <1>14, <2>1, <2>2, <2>3
<1>15. RegistryInv'
  BY <1>7, <1>11, <1>12, <1>13, <1>14 DEF RegistryInv
<1>16. ASSUME NEW d \in Elements PROVE Handlers(d)' \subseteq Handlers(d)
  <2>1. DOMAIN handlers'[d] = 1 .. Len(handlers'[d]) /\ DOMAIN handlers[d] = 1 .. Len(handlers[d])
    BY <1>6, LenProperties DEF TypesInv
  <2>2. ASSUME NEW x \in Handlers(d)' PROVE x \in Handlers(d)
    <3>1. PICK i \in 1 .. Len(handlers'[d]) : x = handlers'[d][i]
      BY <2>1, <2>2 DEF Handlers, Seqs!ToSet
    <3>2. PICK k \in 1 .. Len(handlers[d]) : x = handlers[d][k]
      BY <1>9, <3>1
    <3> QED BY <2>1, <3>2 DEF Handlers, Seqs!ToSet
  <2> QED BY <2>2
<1> QED BY <1>6, <1>15, <1>16

\* Nothing happens to the lists.
LEMMA RegistrySame ==
    ASSUME TypesInv, RegistryInv, UNCHANGED registry, calls' \in Nat, calls <= calls',
           saved' \in Saved, saved.is # "undefined" => saved'.is # "undefined"
    PROVE  RegistryInv' /\ (\A d \in Elements : Handlers(d)' = Handlers(d))
           /\ handlers' \in [Elements -> Seq(Handle)] /\ delegateCount' \in [Elements -> Nat]
<1>1. handlers' = handlers /\ delegateCount' = delegateCount
  BY DEF registry
<1>2. ASSUME NEW d \in Elements, NEW i \in 1 .. Len(handlers[d])
      PROVE  Numbered(handlers[d][i], calls')
  <2>1. handlers[d][i] \in Handle /\ calls \in Nat
    BY ElementOfSeq DEF TypesInv
  <2> QED BY <2>1 DEF RegistryInv, Numbered, Handle
<1> QED BY <1>1, <1>2 DEF RegistryInv, Handlers, TypesInv

-----------------------------------------------------------------------------
(* The steps.                                                              *)

\* What every action needs to know.
BaseInv == TypesInv /\ RegistryInv /\ HistoryInv /\ StackInv

\* What no step takes back.
Grows ==
    /\ calls <= calls'
    /\ Len(events) <= Len(events')
    /\ \A k \in 1 .. Len(events) :
           /\ events'[k].click = events[k].click /\ events'[k].target = events[k].target
           /\ events'[k].native = events[k].native
    /\ Len(clicks) <= Len(clicks')
    /\ \A c \in 1 .. Len(clicks) :
           /\ clicks'[c].due = clicks[c].due /\ clicks'[c].leveraged = clicks[c].leveraged
           /\ clicks[c].stopped => clicks'[c].stopped
           /\ clicks[c].done => clicks'[c].done
    /\ \A d \in Elements : \A x \in Handlers(d)' : x \in Handlers(d) \/ x.id = 0 \/ x.id > calls

\* The sequences, and one more or another element.
LEMMA Lens ==
    ASSUME TypesInv
    PROVE  /\ Len(events) \in Nat /\ \A k \in 1 .. Len(events) : events[k] \in EventObject
           /\ Len(clicks) \in Nat /\ \A k \in 1 .. Len(clicks) : clicks[k] \in Click
           /\ Len(stack) \in Nat /\ \A j \in 1 .. Len(stack) : stack[j] \in Frame
           /\ DOMAIN events = 1 .. Len(events) /\ DOMAIN clicks = 1 .. Len(clicks)
           /\ DOMAIN stack = 1 .. Len(stack) /\ (stack = <<>> <=> Len(stack) = 0)
<1>1. events \in Seq(EventObject) /\ clicks \in Seq(Click) /\ stack \in Seq(Frame)
  BY DEF TypesInv
<1>2. stack = <<>> <=> Len(stack) = 0
  BY <1>1, EmptySeq
<1> QED BY <1>1, <1>2, LenProperties, ElementOfSeq

LEMMA OneMoreEvent ==
    ASSUME TypesInv, NEW click \in Nat, NEW target \in Elements, NEW native \in BOOLEAN,
           events' = Append(events, NewEvent(click, target, native))
    PROVE  /\ events' \in Seq(EventObject) /\ Len(events') = Len(events) + 1
           /\ \A k \in 1 .. Len(events) : events'[k] = events[k]
           /\ events'[Len(events) + 1] = NewEvent(click, target, native)
<1>1. NewEvent(click, target, native) \in EventObject
  BY DEF NewEvent, EventObject
<1> QED BY <1>1, AppendProperties DEF TypesInv

\* One event is another object, of the same click.
LEMMA OneEventChanges ==
    ASSUME TypesInv, NEW ev \in 1 .. Len(events), NEW x \in EventObject,
           events' = [events EXCEPT ![ev] = x]
    PROVE  /\ events' \in Seq(EventObject) /\ Len(events') = Len(events)
           /\ \A k \in 1 .. Len(events) : events'[k] = IF k = ev THEN x ELSE events[k]
<1>1. events \in Seq(EventObject)
  BY DEF TypesInv
<1> QED BY <1>1, ExceptSeq

LEMMA OneMoreClick ==
    ASSUME TypesInv, NEW x \in Click, clicks' = Append(clicks, x)
    PROVE  /\ clicks' \in Seq(Click) /\ Len(clicks') = Len(clicks) + 1
           /\ \A c \in 1 .. Len(clicks) : clicks'[c] = clicks[c]
           /\ clicks'[Len(clicks) + 1] = x
BY AppendProperties DEF TypesInv

LEMMA OneClickChanges ==
    ASSUME TypesInv, NEW c \in 1 .. Len(clicks), NEW x \in Click, clicks' = [clicks EXCEPT ![c] = x]
    PROVE  /\ clicks' \in Seq(Click) /\ Len(clicks') = Len(clicks)
           /\ \A k \in 1 .. Len(clicks) : clicks'[k] = IF k = c THEN x ELSE clicks[k]
<1>1. clicks \in Seq(Click)
  BY DEF TypesInv
<1> QED BY <1>1, ExceptSeq

\* A call stands as it did when what is under it is the same.
LEMMA StandsAt ==
    ASSUME TypesInv, StackInv, Grows, events' \in Seq(EventObject), stack' \in Seq(Frame),
           NEW m \in 1 .. Len(stack), NEW j \in 1 .. Len(stack'),
           Len(stack') - j = Len(stack) - m,
           stack'[j].frame = stack[m].frame, stack'[j].event = stack[m].event,
           \A i \in 1 .. Len(stack) - m : stack'[j + i] = stack[m + i]
    PROVE  Stands(j)'
<1>1. /\ Len(stack) \in Nat /\ Len(stack') \in Nat /\ Len(events) \in Nat /\ Len(events') \in Nat
      /\ \A i \in Depth : stack[i].event \in 1 .. Len(events)
  BY Lens, LenProperties DEF StackInv, Stands
<1>2. Stands(m)
  BY DEF StackInv, Depth
<1>3. ASSUME NEW i \in {1, 2, 3}, m + i \in Depth
      PROVE  /\ stack'[j + i] = stack[m + i] /\ j + i \in Depth'
             /\ Object(j + i)'.click = Object(m + i).click /\ Object(j + i)'.native = Object(m + i).native
  <2>1. i \in 1 .. Len(stack) - m
    BY <1>1, <1>3 DEF Depth
  <2>2. j + i \in Depth'
    BY <1>1, <1>3 DEF Depth
  <2> QED BY <1>1, <1>3, <2>1, <2>2 DEF Object, Grows
<1>4. m \in Depth /\ j \in Depth'
  BY DEF Depth
<1>5. /\ Object(j)'.click = Object(m).click /\ Object(j)'.native = Object(m).native
      /\ Object(j)'.target = Object(m).target
  BY <1>1, <1>4 DEF Object, Grows
<1>6. \A i \in {1, 2, 3} : \A kinds : Is(m + i, kinds) =>
          Is(j + i, kinds)' /\ stack'[j + i] = stack[m + i] /\ ClickAt(j + i)' = ClickAt(m + i)
  <2>1. \A i \in {1, 2, 3} : m + i \in Depth =>
            /\ stack'[j + i] = stack[m + i] /\ j + i \in Depth'
            /\ Object(j + i)'.click = Object(m + i).click
    BY <1>3
  <2> QED BY <2>1 DEF Is, ClickAt
<1>7. stack'[j].event \in 1 .. Len(events')
  BY <1>1, <1>4 DEF Grows
<1>8. stack'[j].frame = "user" => Is(j + 1, {"dispatch"})' /\ stack'[j + 1].event = stack'[j].event
  BY <1>2, <1>6 DEF Stands
<1>9. stack'[j].frame = "dispatch" => Walks(j + 1)' /\ stack'[j + 1].event = stack'[j].event
  BY <1>2, <1>6 DEF Stands, Walks
<1>10. stack'[j].frame = "interrupt" =>
          /\ Is(j + 1, {"dispatch"})' /\ stack'[j + 1].event = stack'[j].event
          /\ ~Object(j)'.native /\ Object(j)'.target = "box"
  BY <1>2, <1>5, <1>6 DEF Stands
<1>11. stack'[j].frame = "reinvoke" =>
          /\ Is(j + 1, {"dispatch"})' /\ stack'[j + 1].event = stack'[j].event
          /\ Is(j + 2, {"native"})'
          /\ Is(j + 3, {"interrupt"})' /\ ClickAt(j + 3)' = ClickAt(j)'
  BY <1>2, <1>5, <1>6 DEF Stands, ClickAt
<1>12. stack'[j].frame = "native" =>
          /\ Object(j)'.native
          /\ j # Len(stack') => Is(j + 1, {"interrupt", "default"})' /\ ClickAt(j + 1)' = ClickAt(j)'
  <2>1. j # Len(stack') => m # Len(stack)
    BY <1>1
  <2> QED BY <1>2, <1>5, <1>6, <2>1 DEF Stands, ClickAt
<1>13. stack'[j].frame = "trigger" => ~Object(j)'.native
  BY <1>2, <1>5 DEF Stands
<1>14. stack'[j].frame \in {"trigger", "default"} /\ j # Len(stack') => Is(j + 1, {"user", "reinvoke"})'
  <2>1. j # Len(stack') => m # Len(stack)
    BY <1>1
  <2> QED BY <1>2, <1>6, <2>1 DEF Stands
<1> QED BY <1>7, <1>8, <1>9, <1>10, <1>11, <1>12, <1>13, <1>14 DEF Stands

\* The calls a step leaves alone stand and queue as they did.
LEMMA Stand ==
    ASSUME TypesInv, StackInv, Grows, NEW n \in Nat, NEW k \in {0, 1}, Shifted(n, k),
           k = 0 => stack = <<>> \/ stack[1].frame = "user",
           calls' \in Nat, events' \in Seq(EventObject), NEW j \in n + 1 .. Len(stack')
    PROVE  Stands(j)' /\ Queues(j)' /\ stack'[j] = stack[j - n + k]
           /\ j - n + k \in k + 1 .. Len(stack)
<1> DEFINE m == j - n + k
<1>1. /\ m \in k + 1 .. Len(stack) /\ stack'[j] = stack[m] /\ stack' \in Seq(Frame)
      /\ Len(stack') = Len(stack) - k + n /\ Len(stack) \in Nat
  BY Lens DEF Shifted
<1>2. k = 0 \/ k = 1
  OBVIOUS
<1>3. m \in 1 .. Len(stack) /\ j \in 1 .. Len(stack') /\ Len(stack') - j = Len(stack) - m
  BY <1>1, <1>2
<1>4. ASSUME NEW i \in 1 .. Len(stack) - m PROVE stack'[j + i] = stack[m + i]
  <2>1. j + i \in n + 1 .. Len(stack') /\ (j + i) - n + k = m + i
    BY <1>1, <1>2
  <2>2. stack'[j + i] = stack[(j + i) - n + k]
    BY <2>1 DEF Shifted
  <2> QED BY <2>1, <2>2
<1>5. Stands(j)'
  <2> HIDE DEF m
  <2> QED BY <1>1, <1>3, <1>4, StandsAt
<1>6. Queues(m) /\ stack[m] \in Frame
  BY <1>3, Lens DEF StackInv, Depth
<1> HIDE DEF m
<1>7. Queues(j)'
  <2>1. ASSUME NEW q \in 1 .. Len(stack[m].queue)
        PROVE  Numbered(stack[m].queue[q][2], calls') /\ stack[m].queue[q][2].guid # "leverage"
    <3>1. stack[m].queue \in Seq(Elements \X Handle) /\ calls \in Nat
      BY <1>6 DEF Frame, TypesInv
    <3>2. stack[m].queue[q][2] \in Handle
      BY <3>1, ElementOfSeq
    <3>3. Numbered(stack[m].queue[q][2], calls) /\ (stack[m].queue[q][2].guid = "leverage" => m = 1)
      BY <1>6 DEF Queues
    <3>4. m # 1
      <4>1. CASE k = 1
        BY <1>1, <4>1
      <4>2. CASE k = 0
        <5>1. m = 1 => stack[m].queue = <<>>
          BY <1>1, <1>6, <4>2, Lens DEF Queues
        <5> QED BY <5>1, EmptySeq
      <4> QED BY <1>2, <4>1, <4>2
    <3>5. calls <= calls'
      BY DEF Grows
    <3>6. stack[m].queue[q][2].id \in Nat
      BY <3>2 DEF Handle
    <3> QED BY <3>1, <3>3, <3>4, <3>5, <3>6, SMTT(15) DEF Numbered
  <2> QED BY <1>1, <1>6, <2>1 DEF Queues
<1> QED BY <1>1, <1>5, <1>7 DEF m

\* A user's call, and what it leaves alone.
LEMMA Call ==
    ASSUME TypesInv, Calling
    PROVE  /\ calls \in Nat /\ calls' = calls + 1 /\ calls' \in Nat /\ calls <= calls'
           /\ stack = <<>> \/ (stack # <<>> /\ stack[1].frame = "user")
BY StackTop DEF TypesInv, Calling, User, In

\* The history, when no event and no click is added.
LEMMA HistoryKept ==
    ASSUME TypesInv, HistoryInv, calls' \in Nat, calls <= calls',
           UNCHANGED <<events, clicks, heard>>
    PROVE  HistoryInv'
<1>1. calls \in Nat /\ \A S : S \subseteq 1 .. calls => S \subseteq 1 .. calls'
  BY DEF TypesInv
<1>2. \A x \in 1 .. calls : x \in 1 .. calls'
  BY <1>1
<1> QED BY <1>1, <1>2 DEF HistoryInv

LEMMA StackKept ==
    ASSUME TypesInv, StackInv, Grows, UNCHANGED stack, calls' \in Nat, events' \in Seq(EventObject),
           stack = <<>> \/ stack[1].frame = "user"
    PROVE  StackInv'
<1>1. Shifted(0, 0)
  BY Lens DEF Shifted, TypesInv
<1>2. ASSUME NEW j \in Depth' PROVE Stands(j)' /\ Queues(j)'
  <2>1. j \in 0 + 1 .. Len(stack')
    BY Lens DEF Depth
  <2> QED BY <1>1, <2>1, Stand
<1> QED BY <1>2 DEF StackInv

LEMMA OnStep ==
    ASSUME BaseInv, On
    PROVE  /\ BaseInv' /\ Grows
           /\ UNCHANGED <<triggered, events, stack, clicks, heard, repeats>>
           /\ saved' = saved \/ saved' = False
           /\ stack = <<>> \/ (stack # <<>> /\ stack[1].frame = "user")
<1>1. /\ calls \in Nat /\ calls' = calls + 1 /\ calls' \in Nat /\ calls <= calls'
      /\ stack = <<>> \/ (stack # <<>> /\ stack[1].frame = "user")
      /\ UNCHANGED <<triggered, checked, events, stack, clicks, heard, repeats>>
  BY Call DEF BaseInv, On, history
<1>2. PICK e \in Elements, fn \in Fns, selector \in BOOLEAN, once \in BOOLEAN :
          /\ selector => e = "form"
          /\ Add(e, HandleObj(calls + 1, fn, selector, once))
  BY DEF On
<1> DEFINE h == HandleObj(calls + 1, fn, selector, once)
<1>3. New(e, h)
  BY <1>1, <1>2, FnsAssumption DEF New, HandleObj, Handle
<1>4. /\ handlers' \in [Elements -> Seq(Handle)] /\ delegateCount' \in [Elements -> Nat]
      /\ saved' \in Saved /\ (saved' = saved \/ saved' = False)
      /\ RegistryInv'
      /\ \A d \in Elements : \A x \in Handlers(d)' : x \in Handlers(d) \/ x.id = 0 \/ x = h
  <2>1. Add(e, h)
    BY <1>2
  <2> HIDE DEF h
  <2> QED BY <1>1, <1>3, <2>1, AddEffect DEF BaseInv
<1>5. h.id > calls
  BY <1>1 DEF HandleObj
<1> HIDE DEF h
<1>6. TypesInv'
  BY <1>1, <1>4 DEF BaseInv, TypesInv
<1>7. Grows
  BY <1>1, <1>4, <1>5, Lens DEF Grows, BaseInv
<1>8. HistoryInv'
  BY <1>1, HistoryKept DEF BaseInv
<1>9. StackInv'
  BY <1>1, <1>6, <1>7, StackKept DEF BaseInv, TypesInv
<1> QED BY <1>1, <1>4, <1>6, <1>7, <1>8, <1>9 DEF BaseInv

LEMMA OffStep ==
    ASSUME BaseInv, Off
    PROVE  /\ BaseInv' /\ Grows
           /\ UNCHANGED <<triggered, events, stack, clicks, heard, repeats, saved>>
           /\ stack = <<>> \/ (stack # <<>> /\ stack[1].frame = "user")
<1>1. /\ calls \in Nat /\ calls' = calls + 1 /\ calls' \in Nat /\ calls <= calls'
      /\ stack = <<>> \/ (stack # <<>> /\ stack[1].frame = "user")
      /\ UNCHANGED <<triggered, checked, events, stack, clicks, heard, repeats, saved>>
  BY Call DEF BaseInv, Off, history
<1>2. PICK e \in Elements :
          \/ \E fn \in Fns : Remove(e, {h \in Handlers(e) : h.guid = fn})
          \/ Remove(e, Handlers(e))
  BY DEF Off
<1>3. /\ handlers' \in [Elements -> Seq(Handle)] /\ delegateCount' \in [Elements -> Nat]
      /\ RegistryInv'
      /\ \A d \in Elements : Handlers(d)' \subseteq Handlers(d)
  <2>1. ASSUME NEW fn \in Fns, Remove(e, {h \in Handlers(e) : h.guid = fn}) 
        PROVE  /\ handlers' \in [Elements -> Seq(Handle)] /\ delegateCount' \in [Elements -> Nat]
               /\ RegistryInv'
               /\ \A d \in Elements : Handlers(d)' \subseteq Handlers(d)
    <3>1. Leverage \notin {h \in Handlers(e) : h.guid = fn}
      BY FnsAssumption DEF Leverage, HandleObj
    <3> QED BY <1>1, <2>1, <3>1, RemoveEffect DEF BaseInv
  <2>2. CASE Remove(e, Handlers(e))
    BY <1>1, <2>2, RemoveEffect DEF BaseInv
  <2> QED BY <1>2, <2>1, <2>2
<1>4. TypesInv'
  BY <1>1, <1>3 DEF BaseInv, TypesInv
<1>5. Grows
  BY <1>1, <1>3, Lens DEF Grows, BaseInv
<1>6. HistoryInv'
  BY <1>1, HistoryKept DEF BaseInv
<1>7. StackInv'
  BY <1>1, <1>4, <1>5, StackKept DEF BaseInv, TypesInv
<1> QED BY <1>1, <1>3, <1>4, <1>5, <1>6, <1>7 DEF BaseInv

\* Whom a click should reach.
LEMMA DueIs ==
    ASSUME handlers' \in [Elements -> Seq(Handle)], RegistryInv', calls' \in Nat, NEW target \in Elements
    PROVE  /\ Due(target) \subseteq 1 .. calls' /\ Due(target) \in SUBSET Nat
           /\ \A e \in Elements : \A h \in Handlers(e)' : h.id \in Due(target) =>
                  /\ e \in {Path(target)[k] : k \in 1 .. Len(Path(target))}
                  /\ h.selector => target # e
<1>1. \A e \in Elements : DOMAIN handlers'[e] = 1 .. Len(handlers'[e])
      /\ \A i \in 1 .. Len(handlers'[e]) : handlers'[e][i] \in Handle
  BY LenProperties, ElementOfSeq
<1> DEFINE P == {Path(target)[k] : k \in 1 .. Len(Path(target))}
<1>2. DOMAIN Path(target) = 1 .. Len(Path(target)) /\ P \subseteq Elements
  <2>1. target = "box" \/ target = "form"
    BY Paths
  <2>2. Path("box") \in Seq(Elements) /\ Path("form") \in Seq(Elements)
    BY DEF Path, Elements
  <2> QED BY <2>1, <2>2, LenProperties, ElementOfSeq
<1>3. ASSUME NEW x \in Due(target)
      PROVE  \E e \in P : \E i \in 1 .. Len(handlers'[e]) :
                 /\ handlers'[e][i].id = x /\ x # 0 /\ (handlers'[e][i].selector => target # e)
  <2>1. PICK e \in {Path(target)[k] : k \in DOMAIN Path(target)} :
            x \in {handlers'[e][i].id : i \in {j \in DOMAIN handlers'[e] :
                       handlers'[e][j].id # 0 /\ (handlers'[e][j].selector => target # e)}}
    BY DEF Due
  <2> QED BY <1>1, <1>2, <2>1
<1>4. Due(target) \subseteq 1 .. calls'
  <2>1. ASSUME NEW x \in Due(target) PROVE x \in 1 .. calls'
    <3>1. PICK e \in P : \E i \in 1 .. Len(handlers'[e]) : handlers'[e][i].id = x /\ x # 0
      BY <1>3
    <3>2. PICK i \in 1 .. Len(handlers'[e]) : handlers'[e][i].id = x /\ x # 0
      BY <3>1
    <3>3. x \in Nat /\ x <= calls'
      BY <1>1, <1>2, <3>2 DEF RegistryInv, Numbered, Handle
    <3> QED BY <3>2, <3>3
  <2> QED BY <2>1
<1>5. ASSUME NEW e \in Elements, NEW h \in Handlers(e)', h.id \in Due(target)
      PROVE  e \in P /\ (h.selector => target # e)
  <2>1. PICK k \in 1 .. Len(handlers'[e]) : h = handlers'[e][k]
    BY <1>1, <1>5 DEF Handlers, Seqs!ToSet
  <2>2. PICK d \in P : \E i \in 1 .. Len(handlers'[d]) :
            /\ handlers'[d][i].id = h.id /\ h.id # 0 /\ (handlers'[d][i].selector => target # d)
    BY <1>3, <1>5
  <2>3. PICK i \in 1 .. Len(handlers'[d]) :
            /\ handlers'[d][i].id = h.id /\ h.id # 0 /\ (handlers'[d][i].selector => target # d)
    BY <2>2
  <2>4. d \in Elements
    BY <1>2
  <2>5. d = e /\ i = k
    BY <2>1, <2>3, <2>4 DEF RegistryInv
  <2> QED BY <2>1, <2>3, <2>5
<1>6. Due(target) \in SUBSET Nat
  BY <1>4
<1> QED BY <1>4, <1>5, <1>6

\* The history, when a click and its event are added.
LEMMA HistoryAdded ==
    ASSUME TypesInv, HistoryInv, calls' \in Nat, calls <= calls',
           NEW target \in Elements, NEW native \in BOOLEAN, NEW x \in Click,
           x.due \subseteq 1 .. calls',
           events' = Append(events, NewEvent(Len(clicks) + 1, target, native)),
           clicks' = Append(clicks, x), heard' = heard
    PROVE  /\ HistoryInv' /\ events' \in Seq(EventObject) /\ clicks' \in Seq(Click)
           /\ Len(events') = Len(events) + 1 /\ Len(clicks') = Len(clicks) + 1
           /\ \A k \in 1 .. Len(events) : events'[k] = events[k]
           /\ \A c \in 1 .. Len(clicks) : clicks'[c] = clicks[c]
           /\ events'[Len(events) + 1] = NewEvent(Len(clicks) + 1, target, native)
           /\ clicks'[Len(clicks) + 1] = x
<1>1. Len(events) \in Nat /\ Len(clicks) \in Nat /\ calls \in Nat
  BY Lens DEF TypesInv
<1>2. /\ events' \in Seq(EventObject) /\ Len(events') = Len(events) + 1
      /\ \A k \in 1 .. Len(events) : events'[k] = events[k]
      /\ events'[Len(events) + 1] = NewEvent(Len(clicks) + 1, target, native)
  BY <1>1, OneMoreEvent
<1>3. /\ clicks' \in Seq(Click) /\ Len(clicks') = Len(clicks) + 1
      /\ \A c \in 1 .. Len(clicks) : clicks'[c] = clicks[c]
      /\ clicks'[Len(clicks) + 1] = x
  BY OneMoreClick
<1>4. ASSUME NEW k \in 1 .. Len(events')
      PROVE  /\ events'[k].click \in 1 .. Len(clicks')
             /\ events'[k].immediate => events'[k].stopped
  <2>1. CASE k = Len(events) + 1
    BY <1>1, <1>2, <1>3, <2>1 DEF NewEvent
  <2>2. CASE k # Len(events) + 1
    <3>1. k \in 1 .. Len(events)
      BY <1>1, <1>2, <2>2
    <3> QED BY <1>1, <1>2, <1>3, <3>1 DEF HistoryInv
  <2> QED BY <2>1, <2>2
<1>5. ASSUME NEW c \in 1 .. Len(clicks') PROVE clicks'[c].due \subseteq 1 .. calls'
  <2>1. CASE c = Len(clicks) + 1
    BY <1>3, <2>1
  <2>2. CASE c # Len(clicks) + 1
    <3>1. c \in 1 .. Len(clicks)
      BY <1>1, <1>3, <2>2
    <3>2. clicks[c].due \subseteq 1 .. calls
      BY <3>1 DEF HistoryInv
    <3> QED BY <1>1, <1>3, <3>1, <3>2
  <2> QED BY <2>1, <2>2
<1>6. \A h \in heard' : h[1] \in 1 .. Len(clicks') /\ h[2] \in 1 .. calls'
  BY <1>1, <1>3 DEF HistoryInv
<1>7. HistoryInv'
  BY <1>4, <1>5, <1>6 DEF HistoryInv
<1> QED BY <1>2, <1>3, <1>7

\* A call on top of what was there, or of what was there without its top.
LEMMA StackPushed ==
    ASSUME TypesInv, StackInv, Grows, NEW n \in Nat, NEW k \in {0, 1}, Shifted(n, k),
           k = 0 => stack = <<>> \/ stack[1].frame = "user",
           calls' \in Nat, events' \in Seq(EventObject),
           \A j \in 1 .. n : Stands(j)' /\ Queues(j)'
    PROVE  StackInv'
<1>1. ASSUME NEW j \in Depth' PROVE Stands(j)' /\ Queues(j)'
  <2>1. Len(stack') \in Nat
    BY LenProperties DEF Shifted
  <2>2. CASE j <= n
    <3>1. j \in 1 .. n
      BY <2>1, <2>2 DEF Depth
    <3> QED BY <3>1
  <2>3. CASE ~(j <= n)
    <3>1. j \in n + 1 .. Len(stack')
      BY <2>1, <2>3 DEF Depth
    <3> QED BY <3>1, Stand
  <2> QED BY <2>2, <2>3
<1> QED BY <1>1 DEF StackInv

LEMMA TriggerStep ==
    ASSUME BaseInv, Trigger
    PROVE  /\ BaseInv' /\ Grows
           /\ UNCHANGED <<triggered, heard, repeats>>
           /\ saved' = saved \/ saved' = False
           /\ stack = <<>> \/ (stack # <<>> /\ stack[1].frame = "user")
           /\ Shifted(1, 0) /\ stack'[1] = TriggerFrame(Len(events) + 1)
           /\ \E target \in Elements :
                 /\ Len(events') = Len(events) + 1 /\ Len(clicks') = Len(clicks) + 1
                 /\ \A k \in 1 .. Len(events) : events'[k] = events[k]
                 /\ \A c \in 1 .. Len(clicks) : clicks'[c] = clicks[c]
                 /\ events'[Len(events) + 1] = NewEvent(Len(clicks) + 1, target, FALSE)
                 /\ clicks'[Len(clicks) + 1].due = Due(target)
                 /\ clicks'[Len(clicks) + 1].leveraged =>
                       target = "box" /\ saved'.is = "false" /\ handlers'["box"] # <<>>
                 /\ \A e \in Elements : \A h \in Handlers(e)' : h.id \in Due(target) =>
                       /\ e \in {Path(target)[k] : k \in 1 .. Len(Path(target))}
                       /\ h.selector => target # e
<1>1. /\ calls \in Nat /\ calls' = calls + 1 /\ calls' \in Nat /\ calls <= calls'
      /\ stack = <<>> \/ (stack # <<>> /\ stack[1].frame = "user")
      /\ UNCHANGED <<triggered, checked, heard, repeats>>
  BY Call DEF BaseInv, Trigger
<1>2. PICK target \in Elements :
          /\ IF target = "box" /\ saved = Unset
             THEN Add("box", ReturnTrue)
             ELSE UNCHANGED <<registry, saved>>
          /\ events' = Append(events, NewEvent(Len(clicks) + 1, target, FALSE))
          /\ stack' = <<TriggerFrame(Len(events) + 1)>> \o stack
          /\ NewClick(target)
  BY DEF Trigger
<1>3. /\ handlers' \in [Elements -> Seq(Handle)] /\ delegateCount' \in [Elements -> Nat]
      /\ saved' \in Saved /\ (saved' = saved \/ saved' = False)
      /\ RegistryInv'
      /\ \A d \in Elements : \A x \in Handlers(d)' : x \in Handlers(d) \/ x.id = 0
  <2>1. CASE target = "box" /\ saved = Unset
    <3>1. Add("box", ReturnTrue)
      BY <1>2, <2>1
    <3>2. New("box", ReturnTrue) /\ ReturnTrue.id = 0
      BY <1>1, FnsAssumption DEF New, ReturnTrue, HandleObj, Handle
    <3> QED BY <1>1, <3>1, <3>2, AddEffect, Paths DEF BaseInv
  <2>2. CASE ~(target = "box" /\ saved = Unset)
    <3>1. UNCHANGED <<registry, saved>>
      BY <1>2, <2>2
    <3>2. saved' \in Saved
      BY <3>1 DEF BaseInv, TypesInv
    <3> QED BY <1>1, <3>1, <3>2, RegistrySame DEF BaseInv
  <2> QED BY <2>1, <2>2
<1>4. /\ Due(target) \subseteq 1 .. calls' /\ Due(target) \in SUBSET Nat
      /\ \A e \in Elements : \A h \in Handlers(e)' : h.id \in Due(target) =>
             /\ e \in {Path(target)[k] : k \in 1 .. Len(Path(target))}
             /\ h.selector => target # e
  BY <1>1, <1>3, DueIs
<1>5. PICK x \in Click :
          /\ clicks' = Append(clicks, x) /\ x.due = Due(target)
          /\ x.leveraged => target = "box" /\ saved'.is = "false" /\ handlers'["box"] # <<>>
  <2> DEFINE x == [target |-> target, due |-> Due(target), done |-> FALSE, stopped |-> FALSE,
                   within |-> Clicking,
                   leveraged |-> target = "box" /\ saved'.is = "false" /\ handlers'["box"] # <<>>]
  <2>1. clicks' = Append(clicks, x)
    BY <1>2 DEF NewClick
  <2>2. Clicking \in SUBSET Nat
    <3>1. \A i \in DOMAIN stack : Event(stack[i].event).click \in Nat
      <4>1. ASSUME NEW i \in DOMAIN stack PROVE Event(stack[i].event).click \in Nat
        <5>1. i \in Depth /\ stack[i].event \in 1 .. Len(events)
          BY <4>1, Lens DEF Depth, BaseInv, StackInv, Stands
        <5>2. events[stack[i].event] \in EventObject
          BY <5>1, Lens DEF BaseInv
        <5> QED BY <5>2 DEF Event, EventObject
      <4> QED BY <4>1
    <3> QED BY <3>1 DEF Clicking
  <2>3. (target = "box" /\ saved'.is = "false" /\ handlers'["box"] # <<>>) \in BOOLEAN
    OBVIOUS
  <2>4. x \in Click
    BY <1>4, <2>2, <2>3 DEF Click
  <2> QED BY <2>1, <2>4
<1>6. /\ HistoryInv' /\ events' \in Seq(EventObject) /\ clicks' \in Seq(Click)
      /\ Len(events') = Len(events) + 1 /\ Len(clicks') = Len(clicks) + 1
      /\ \A k \in 1 .. Len(events) : events'[k] = events[k]
      /\ \A c \in 1 .. Len(clicks) : clicks'[c] = clicks[c]
      /\ events'[Len(events) + 1] = NewEvent(Len(clicks) + 1, target, FALSE)
      /\ clicks'[Len(clicks) + 1] = x
  BY <1>1, <1>2, <1>4, <1>5, HistoryAdded DEF BaseInv
<1>7. Len(events) \in Nat /\ Len(clicks) \in Nat
  BY Lens DEF BaseInv
<1>8. /\ TriggerFrame(Len(events) + 1) \in Frame /\ TriggerFrame(Len(events) + 1).frame = "trigger"
      /\ TriggerFrame(Len(events) + 1).event = Len(events) + 1
      /\ TriggerFrame(Len(events) + 1).queue = <<>> /\ TriggerFrame(Len(events) + 1).i = 1
  <2>1. Len(events) + 1 \in Nat
    BY <1>7
  <2> QED BY <2>1, NewFrame
<1>9. Shifted(1, 0) /\ stack'[1] = TriggerFrame(Len(events) + 1)
  BY <1>2, <1>8, Pushed0 DEF BaseInv
<1>10. TypesInv'
  BY <1>1, <1>3, <1>6, <1>9 DEF BaseInv, TypesInv, Shifted
<1>11. Grows
  BY <1>1, <1>3, <1>6, <1>7 DEF Grows
<1>12. Stands(1)' /\ Queues(1)'
  <2>1. ~Object(1)'.native
    BY <1>6, <1>8, <1>9 DEF Object, NewEvent
  <2>2. stack'[1].event \in 1 .. Len(events')
    BY <1>6, <1>7, <1>8, <1>9
  <2>3. 1 # Len(stack') => Is(2, {"user", "reinvoke"})'
    <3>1. stack # <<>> => 2 \in Depth' /\ stack'[2] = stack[1]
      BY <1>9, Lens DEF Shifted, Depth, BaseInv
    <3>2. stack = <<>> => Len(stack') = 1
      BY <1>9, Lens DEF Shifted, BaseInv
    <3> QED BY <1>1, <3>1, <3>2 DEF Is
  <2>4. Stands(1)'
    BY <1>8, <1>9, <2>1, <2>2, <2>3 DEF Stands
  <2> QED BY <1>8, <1>9, <2>4, EmptySeq DEF Queues
<1>13. StackInv'
  BY <1>1, <1>6, <1>9, <1>11, <1>12, StackPushed DEF BaseInv
<1> QED BY <1>1, <1>3, <1>4, <1>5, <1>6, <1>9, <1>10, <1>11, <1>13 DEF BaseInv

LEMMA RealClickStep ==
    ASSUME BaseInv, RealClick
    PROVE  /\ BaseInv' /\ Grows
           /\ UNCHANGED <<registry, triggered, saved, heard, repeats>>
           /\ stack = <<>>
           /\ Shifted(1, 0) /\ stack'[1] = NativeFrame(Len(events) + 1) /\ Len(stack') = 1
           /\ \E target \in Elements :
                 /\ Len(events') = Len(events) + 1 /\ Len(clicks') = Len(clicks) + 1
                 /\ \A k \in 1 .. Len(events) : events'[k] = events[k]
                 /\ \A c \in 1 .. Len(clicks) : clicks'[c] = clicks[c]
                 /\ events'[Len(events) + 1] = NewEvent(Len(clicks) + 1, target, TRUE)
                 /\ clicks'[Len(clicks) + 1].due = Due(target)
                 /\ clicks'[Len(clicks) + 1].done
                 /\ \A e \in Elements : \A h \in Handlers(e)' : h.id \in Due(target) =>
                       /\ e \in {Path(target)[k] : k \in 1 .. Len(Path(target))}
                       /\ h.selector => target # e
<1>1. /\ calls \in Nat /\ calls' = calls + 1 /\ calls' \in Nat /\ calls <= calls'
      /\ stack = <<>>
      /\ UNCHANGED <<registry, triggered, saved, heard, repeats>>
  BY DEF BaseInv, TypesInv, RealClick
<1>2. PICK target \in Elements :
          /\ events' = Append(events, NewEvent(Len(clicks) + 1, target, TRUE))
          /\ checked' = IF target = "box" THEN ~checked ELSE checked
          /\ clicks' = Append(clicks, [target |-> target, due |-> Due(target), done |-> TRUE,
                                       stopped |-> FALSE, within |-> {}, leveraged |-> TRUE])
          /\ stack' = <<NativeFrame(Len(events) + 1)>>
  BY DEF RealClick
<1>3. /\ handlers' \in [Elements -> Seq(Handle)] /\ delegateCount' \in [Elements -> Nat]
      /\ RegistryInv' /\ saved' \in Saved
      /\ \A d \in Elements : Handlers(d)' = Handlers(d)
  <2>1. saved' \in Saved
    BY <1>1 DEF BaseInv, TypesInv
  <2> QED BY <1>1, <2>1, RegistrySame DEF BaseInv
<1>4. /\ Due(target) \subseteq 1 .. calls' /\ Due(target) \in SUBSET Nat
      /\ \A e \in Elements : \A h \in Handlers(e)' : h.id \in Due(target) =>
             /\ e \in {Path(target)[k] : k \in 1 .. Len(Path(target))}
             /\ h.selector => target # e
  BY <1>1, <1>3, DueIs
<1> DEFINE x == [target |-> target, due |-> Due(target), done |-> TRUE,
                 stopped |-> FALSE, within |-> {}, leveraged |-> TRUE]
<1>5. x \in Click /\ x.due = Due(target) /\ x.done
  BY <1>4 DEF Click
<1> HIDE DEF x
<1>6. /\ HistoryInv' /\ events' \in Seq(EventObject) /\ clicks' \in Seq(Click)
      /\ Len(events') = Len(events) + 1 /\ Len(clicks') = Len(clicks) + 1
      /\ \A k \in 1 .. Len(events) : events'[k] = events[k]
      /\ \A c \in 1 .. Len(clicks) : clicks'[c] = clicks[c]
      /\ events'[Len(events) + 1] = NewEvent(Len(clicks) + 1, target, TRUE)
      /\ clicks'[Len(clicks) + 1] = x
  <2>1. clicks' = Append(clicks, x)
    BY <1>2 DEF x
  <2> QED BY <1>1, <1>2, <1>4, <1>5, <2>1, HistoryAdded DEF BaseInv
<1>7. Len(events) \in Nat /\ Len(clicks) \in Nat /\ Len(events) + 1 \in Nat /\ Len(stack) = 0
  BY <1>1, Lens DEF BaseInv
<1>8. /\ NativeFrame(Len(events) + 1) \in Frame /\ NativeFrame(Len(events) + 1).frame = "native"
      /\ NativeFrame(Len(events) + 1).event = Len(events) + 1
      /\ NativeFrame(Len(events) + 1).queue = <<>> /\ NativeFrame(Len(events) + 1).i = 1
  BY <1>7, NewFrame
<1>9. Shifted(1, 0) /\ stack'[1] = NativeFrame(Len(events) + 1) /\ Len(stack') = 1
  <2>1. <<NativeFrame(Len(events) + 1)>> \in Seq(Frame)
    BY <1>8
  <2>2. stack' = <<NativeFrame(Len(events) + 1)>> \o stack
    BY <1>1, <1>2, <2>1, ConcatEmptySeq
  <2>3. Shifted(1, 0) /\ stack'[1] = NativeFrame(Len(events) + 1)
    BY <1>8, <2>2, Pushed0 DEF BaseInv
  <2> QED BY <1>7, <2>3 DEF Shifted
<1>10. TypesInv'
  <2>1. checked' \in BOOLEAN
    BY <1>2 DEF BaseInv, TypesInv
  <2> QED BY <1>1, <1>3, <1>6, <1>9, <2>1 DEF BaseInv, TypesInv, Shifted
<1>11. Grows
  BY <1>1, <1>3, <1>6, <1>7 DEF Grows
<1>12. Stands(1)' /\ Queues(1)'
  <2>1. Object(1)'.native
    BY <1>6, <1>8, <1>9 DEF Object, NewEvent
  <2>2. stack'[1].event \in 1 .. Len(events')
    BY <1>6, <1>7, <1>8, <1>9
  <2>3. Stands(1)'
    BY <1>8, <1>9, <2>1, <2>2 DEF Stands
  <2> QED BY <1>8, <1>9, <2>3, EmptySeq DEF Queues
<1>13. StackInv'
  BY <1>1, <1>6, <1>9, <1>11, <1>12, StackPushed DEF BaseInv
<1> QED BY <1>1, <1>3, <1>4, <1>5, <1>6, <1>9, <1>10, <1>11, <1>13 DEF BaseInv

\* A step that calls nothing new, and what it does to the events.
LEMMA StackPopped ==
    ASSUME TypesInv, StackInv, Grows, stack # <<>>, stack' = Below,
           calls' \in Nat, events' \in Seq(EventObject)
    PROVE  StackInv' /\ Shifted(0, 1)
<1>1. Shifted(0, 1)
  BY Popped
<1> QED BY <1>1, StackPushed

LEMMA HistoryFlags ==
    ASSUME TypesInv, HistoryInv, UNCHANGED <<calls, heard>>,
           Len(events') = Len(events), Len(clicks') = Len(clicks),
           \A k \in 1 .. Len(events) :
               /\ events'[k].click = events[k].click
               /\ events'[k].immediate => events'[k].stopped,
           \A c \in 1 .. Len(clicks) : clicks'[c].due = clicks[c].due
    PROVE  HistoryInv'
BY DEF HistoryInv

LEMMA ReturnStep ==
    ASSUME BaseInv, Return
    PROVE  /\ BaseInv' /\ Grows
           /\ UNCHANGED <<registry, saved, triggered, heard, repeats>>
           /\ stack # <<>> /\ stack[1].frame = "user" /\ Shifted(0, 1)
           /\ Len(events') = Len(events) /\ Len(clicks') = Len(clicks)
           /\ \A k \in 1 .. Len(events) : k # stack[1].event => events'[k] = events[k]
           /\ events'[stack[1].event].stopped =>
                 Object(1).stopped \/ clicks'[ClickAt(1)].stopped
           /\ Object(1).immediate => events'[stack[1].event].immediate
           /\ \A c \in 1 .. Len(clicks) : clicks'[c].stopped => clicks[c].stopped \/ c = ClickAt(1)
<1>1. /\ stack # <<>> /\ stack[1].frame = "user" /\ stack' = Below /\ Top = stack[1]
      /\ UNCHANGED <<registry, saved, triggered, checked, calls, heard, repeats>>
      /\ handlers' = handlers /\ delegateCount' = delegateCount
  BY StackTop DEF BaseInv, Return, In, registry
<1> DEFINE ev == stack[1].event
           c == events[ev].click
<1>2. /\ ev \in 1 .. Len(events) /\ Object(1) = events[ev] /\ events[ev] \in EventObject
      /\ ClickAt(1) = c /\ Event(ev) = events[ev]
      /\ c \in 1 .. Len(clicks) /\ clicks[c] \in Click
      /\ (events[ev].immediate => events[ev].stopped)
  <2>1. ev \in 1 .. Len(events) /\ Object(1) = events[ev] /\ ClickAt(1) = c
    BY <1>1, FramesTyped DEF BaseInv, ClickAt, Object
  <2>2. Event(ev) = events[ev] /\ events[ev] \in EventObject
    BY <1>1, <2>1, FramesTyped DEF BaseInv
  <2>3. c \in 1 .. Len(clicks) /\ (events[ev].immediate => events[ev].stopped)
    BY <2>1 DEF BaseInv, HistoryInv
  <2>4. clicks[c] \in Click
    BY <2>3, Lens DEF BaseInv
  <2> QED BY <2>1, <2>2, <2>3, <2>4
<1>3. PICK prevent \in BOOLEAN, stop \in BOOLEAN, immediate \in BOOLEAN :
          /\ immediate => stop
          /\ events' = [events EXCEPT ![ev].prevented = @ \/ prevent,
                                      ![ev].stopped = @ \/ stop,
                                      ![ev].immediate = @ \/ immediate]
          /\ clicks' = [clicks EXCEPT ![c].stopped = @ \/ stop]
  <2>1. Top.event = ev /\ Event(Top.event).click = c
    BY <1>1, <1>2
  <2> QED BY <2>1, Zenon DEF Return
<1> DEFINE x == [events[ev] EXCEPT !.prevented = @ \/ prevent, !.stopped = @ \/ stop,
                                   !.immediate = @ \/ immediate]
           y == [clicks[c] EXCEPT !.stopped = @ \/ stop]
<1>4. /\ x \in EventObject /\ x.click = events[ev].click /\ x.target = events[ev].target
      /\ x.native = events[ev].native /\ (x.immediate => x.stopped)
      /\ (x.stopped => events[ev].stopped \/ stop) /\ (events[ev].immediate => x.immediate)
  BY <1>2, <1>3 DEF EventObject
<1>5. y \in Click /\ y.due = clicks[c].due /\ y.leveraged = clicks[c].leveraged
      /\ y.done = clicks[c].done /\ (y.stopped <=> clicks[c].stopped \/ stop)
  BY <1>2 DEF Click
<1>6. events' = [events EXCEPT ![ev] = x]
  <2>1. events \in Seq(EventObject)
    BY DEF BaseInv, TypesInv
  <2> QED BY <1>2, <1>3, <2>1
<1>7. clicks' = [clicks EXCEPT ![c] = y]
  BY <1>3
<1> HIDE DEF x, y
<1>8. /\ events' \in Seq(EventObject) /\ Len(events') = Len(events)
      /\ \A k \in 1 .. Len(events) : events'[k] = IF k = ev THEN x ELSE events[k]
  BY <1>2, <1>4, <1>6, OneEventChanges DEF BaseInv
<1>9. /\ clicks' \in Seq(Click) /\ Len(clicks') = Len(clicks)
      /\ \A k \in 1 .. Len(clicks) : clicks'[k] = IF k = c THEN y ELSE clicks[k]
  BY <1>2, <1>5, <1>7, OneClickChanges DEF BaseInv
<1> HIDE DEF ev, c
<1>10. calls \in Nat /\ calls' = calls /\ saved' \in Saved
  BY <1>1 DEF BaseInv, TypesInv
<1>11. /\ RegistryInv' /\ \A d \in Elements : Handlers(d)' = Handlers(d)
  BY <1>1, <1>10, RegistrySame DEF BaseInv
<1>12. Grows
  BY <1>2, <1>4, <1>5, <1>8, <1>9, <1>10, <1>11, Lens DEF Grows, BaseInv
<1>13. StackInv' /\ Shifted(0, 1)
  BY <1>1, <1>8, <1>10, <1>12, StackPopped DEF BaseInv
<1>14. TypesInv'
  BY <1>1, <1>8, <1>9, <1>10, <1>13 DEF BaseInv, TypesInv, Shifted
<1>15. HistoryInv'
  BY <1>1, <1>4, <1>5, <1>8, <1>9, HistoryFlags DEF BaseInv, HistoryInv
<1>16. \A k \in 1 .. Len(clicks) : clicks'[k].stopped => clicks[k].stopped \/ k = c
  BY <1>9
<1>17. x.stopped => events[ev].stopped \/ clicks'[c].stopped
  BY <1>2, <1>4, <1>5, <1>9
<1>18. events[ev].immediate => events'[ev].immediate
  BY <1>2, <1>4, <1>8
<1> QED BY <1>1, <1>2, <1>8, <1>9, <1>11, <1>12, <1>13, <1>14, <1>15, <1>16, <1>17, <1>18 DEF BaseInv, ev

\* The lists, the clicks, the events and what was heard stay.
LEMMA BaseKept ==
    ASSUME BaseInv, UNCHANGED <<registry, events, calls, clicks, heard>>, saved' \in Saved,
           saved.is # "undefined" => saved'.is # "undefined"
    PROVE  /\ Grows /\ RegistryInv' /\ HistoryInv' /\ calls' \in Nat /\ calls <= calls'
           /\ events' \in Seq(EventObject) /\ clicks' \in Seq(Click) /\ heard' \subseteq Nat \X Nat \X BOOLEAN
           /\ handlers' \in [Elements -> Seq(Handle)] /\ delegateCount' \in [Elements -> Nat]
<1>1. calls \in Nat /\ calls' = calls
  BY DEF BaseInv, TypesInv
<1>2. /\ RegistryInv' /\ \A d \in Elements : Handlers(d)' = Handlers(d)
      /\ handlers' \in [Elements -> Seq(Handle)] /\ delegateCount' \in [Elements -> Nat]
  BY <1>1, RegistrySame DEF BaseInv
<1>3. HistoryInv'
  BY <1>1, HistoryKept DEF BaseInv
<1>4. Grows
  BY <1>1, <1>2, Lens DEF BaseInv, Grows
<1> QED BY <1>1, <1>2, <1>3, <1>4 DEF BaseInv, TypesInv

\* The walk of a trigger or of a native click comes to an element.
VisitNext == TriggerVisit \/ NativeVisit
LEMMA VisitStep ==
    ASSUME BaseInv, VisitNext
    PROVE  /\ BaseInv' /\ Grows
           /\ UNCHANGED <<registry, saved, triggered, events, clicks, heard, repeats>>
           /\ stack # <<>> /\ stack[1].frame \in {"trigger", "native"} /\ ~Object(1).stopped
           /\ stack[1].i \in 1 .. Len(Path(Object(1).target))
           /\ LET e == Path(Object(1).target)[stack[1].i]
                  next == [stack[1] EXCEPT !.i = @ + 1]
                  q == HandlerQueue(e, Object(1).target)
              IN  /\ e \in Elements
                  /\ \/ /\ handlers[e] = <<>> \/ triggered
                        /\ Shifted(1, 1) /\ stack'[1] = next
                     \/ /\ handlers[e] # <<>> /\ ~triggered
                        /\ Shifted(2, 1) /\ stack'[2] = next
                        /\ stack'[1] = DispatchFrame(stack[1].event, e, q)
<1>1. /\ stack # <<>> /\ stack[1].frame \in {"trigger", "native"} /\ Top = stack[1]
      /\ UNCHANGED <<registry, saved, triggered, checked, events, calls, clicks, heard, repeats>>
  BY StackTop DEF BaseInv, VisitNext, TriggerVisit, NativeVisit, Walking, In, history
<1>2. /\ stack[1].event \in 1 .. Len(events) /\ 1 \in Depth
      /\ Event(stack[1].event) = Object(1) /\ Object(1) \in EventObject
      /\ stack[1] \in Frame /\ [stack[1] EXCEPT !.i = @ + 1] \in Frame
  BY <1>1, FramesTyped, StackTop DEF BaseInv
<1> DEFINE p == Path(Object(1).target)
           e == p[stack[1].i]
           next == [stack[1] EXCEPT !.i = @ + 1]
           q == HandlerQueue(e, Object(1).target)
<1>3. ~Object(1).stopped /\ stack[1].i <= Len(p) /\ Visit(e)
  BY <1>1, <1>2 DEF VisitNext, TriggerVisit, NativeVisit, Walking
<1>4. stack[1].i \in 1 .. Len(p) /\ e \in Elements /\ Object(1).target \in Elements
  <2>1. stack[1].i \in Nat /\ stack[1].i >= 1 /\ Object(1).target \in Elements
    BY <1>1, <1>2 DEF BaseInv, StackInv, Queues, Frame, EventObject
  <2>2. stack[1].i \in 1 .. Len(p)
    BY <1>3, <2>1, Paths
  <2> QED BY <2>1, <2>2, Paths
<1>5. /\ q \in Seq(Elements \X Handle)
      /\ Offset(e, Object(1).target) \in 0 .. Len(handlers[e])
      /\ Len(q) = Len(handlers[e]) - Offset(e, Object(1).target)
      /\ \A k \in 1 .. Len(q) : q[k][2] = handlers[e][k + Offset(e, Object(1).target)]
  BY <1>4, QueueOf DEF BaseInv
<1>6. \/ /\ handlers[e] = <<>> \/ triggered
         /\ Shifted(1, 1) /\ stack'[1] = next
      \/ /\ handlers[e] # <<>> /\ ~triggered
         /\ Shifted(2, 1) /\ stack'[2] = next
         /\ stack'[1] = DispatchFrame(stack[1].event, e, q)
  BY <1>1, <1>3, <1>4, VisitEffect DEF BaseInv
<1> HIDE DEF q, e, p
<1>7. /\ next.frame = stack[1].frame /\ next.event = stack[1].event /\ next.queue = stack[1].queue
      /\ next.i = stack[1].i + 1
  BY <1>2 DEF Frame
<1> HIDE DEF next
<1>8. saved' \in Saved /\ saved' = saved
  BY <1>1 DEF BaseInv, TypesInv
<1>9. /\ Grows /\ RegistryInv' /\ HistoryInv' /\ calls' \in Nat
      /\ events' \in Seq(EventObject) /\ clicks' \in Seq(Click) /\ heard' \subseteq Nat \X Nat \X BOOLEAN
      /\ handlers' \in [Elements -> Seq(Handle)] /\ delegateCount' \in [Elements -> Nat]
  BY <1>1, <1>8, BaseKept
\* The walk, one element further, stands where it stood.
<1>10. ASSUME NEW n \in {1, 2}, Shifted(n, 1), stack'[n] = next
       PROVE  Stands(n)' /\ Queues(n)' /\ n \in Depth'
  <2>1. Len(stack') = Len(stack) - 1 + n /\ Len(stack) \in Nat \ {0} /\ stack' \in Seq(Frame)
    BY <1>1, <1>10, StackTop DEF Shifted, BaseInv
  <2>2. n \in 1 .. Len(stack') /\ 1 \in 1 .. Len(stack) /\ Len(stack') - n = Len(stack) - 1
    BY <2>1
  <2>3. ASSUME NEW i \in 1 .. Len(stack) - 1 PROVE stack'[n + i] = stack[1 + i]
    <3>1. n + i \in n + 1 .. Len(stack') /\ (n + i) - n + 1 = 1 + i
      BY <2>1
    <3> QED BY <1>10, <3>1 DEF Shifted
  <2>4. Stands(n)'
    <3>1. stack'[n].frame = stack[1].frame /\ stack'[n].event = stack[1].event
      BY <1>7, <1>10
    <3> QED BY <1>9, <2>1, <2>2, <2>3, <3>1, StandsAt DEF BaseInv
  <2>5. stack[1].queue = <<>> /\ stack[1].i >= 1 /\ stack[1].i \in Nat
    BY <1>1, <1>2 DEF BaseInv, StackInv, Queues, Frame
  <2>6. Queues(n)'
    BY <1>7, <1>10, <2>5, EmptySeq DEF Queues
  <2> QED BY <2>2, <2>4, <2>6 DEF Depth
<1>11. StackInv' /\ stack' \in Seq(Frame)
  <2>1. CASE Shifted(1, 1) /\ stack'[1] = next
    <3>1. \A j \in 1 .. 1 : Stands(j)' /\ Queues(j)'
      BY <1>10, <2>1
    <3>2. StackInv'
      BY <1>9, <2>1, <3>1, StackPushed DEF BaseInv
    <3> QED BY <2>1, <3>2 DEF Shifted
  <2>2. CASE /\ handlers[e] # <<>> /\ Shifted(2, 1) /\ stack'[2] = next
             /\ stack'[1] = DispatchFrame(stack[1].event, e, q)
    <3>1. Stands(2)' /\ Queues(2)' /\ 2 \in Depth'
      BY <1>10, <2>2
    <3>2. /\ stack'[1].frame = "dispatch" /\ stack'[1].event = stack[1].event
          /\ stack'[1].queue = q
      <4>1. stack[1].event \in Nat
        BY <1>2 DEF Frame
      <4> QED BY <1>4, <1>5, <2>2, <4>1, NewFrames
    <3>3. Stands(1)'
      <4>1. stack'[1].event \in 1 .. Len(events')
        BY <1>1, <1>2, <3>2
      <4>2. Walks(2)' /\ stack'[2].event = stack'[1].event
        BY <1>1, <1>7, <2>2, <3>1, <3>2 DEF Walks, Is
      <4> QED BY <3>2, <4>1, <4>2 DEF Stands
    <3>4. Queues(1)'
      <4>1. ASSUME NEW k \in 1 .. Len(q)
            PROVE  Numbered(q[k][2], calls') /\ (q[k][2].guid = "leverage" => k = 1)
        <5>1. k + Offset(e, Object(1).target) \in 1 .. Len(handlers[e])
              /\ q[k][2] = handlers[e][k + Offset(e, Object(1).target)]
          BY <1>5, <4>1, Lens, SMTT(45) DEF BaseInv, TypesInv
        <5>2. Numbered(q[k][2], calls) /\ (q[k][2].guid = "leverage" => k + Offset(e, Object(1).target) = 1)
          BY <1>4, <5>1 DEF BaseInv, RegistryInv
        <5>3. calls' = calls
          BY <1>1
        <5>4. k + Offset(e, Object(1).target) = 1 => k = 1
          BY <1>5, <4>1
        <5> QED BY <5>2, <5>3, <5>4
      <4> QED BY <3>2, <4>1 DEF Queues
    <3>5. \A j \in 1 .. 2 : Stands(j)' /\ Queues(j)'
      BY <3>1, <3>3, <3>4
    <3>6. StackInv'
      BY <1>9, <2>2, <3>5, StackPushed, Z3T(30) DEF BaseInv
    <3> QED BY <2>2, <3>6 DEF Shifted
  <2> QED BY <1>6, <2>1, <2>2
<1>12. TypesInv'
  BY <1>1, <1>8, <1>9, <1>11 DEF BaseInv, TypesInv
<1>13. BaseInv'
  BY <1>9, <1>11, <1>12 DEF BaseInv
<1> QED BY <1>1, <1>3, <1>4, <1>6, <1>9, <1>13 DEF e, p, q, next

\* A call ends: the walk is over or was stopped, the default action was taken,
\* the queue is empty or what is left of it is not called.
EndNext == TriggerEnd \/ NativeEnd \/ DispatchEnd
LEMMA EndStep ==
    ASSUME BaseInv, EndNext
    PROVE  /\ BaseInv' /\ Grows
           /\ UNCHANGED <<registry, saved, events, clicks, heard, repeats>>
           /\ stack # <<>> /\ Shifted(0, 1)
           /\ stack[1].frame \in {"trigger", "native", "dispatch", "default"}
           /\ stack[1].frame \in {"trigger", "native"} =>
                 Object(1).stopped \/ stack[1].i > Len(Path(Object(1).target))
           /\ stack[1].frame = "dispatch" =>
                 stack[1].queue = <<>> \/ Object(1).immediate \/ Object(1).stopped
           /\ triggered' = IF stack[1].frame = "default" THEN FALSE ELSE triggered
<1>1. /\ stack # <<>> /\ stack' = Below /\ Top = stack[1]
      /\ stack[1].frame \in {"trigger", "native", "dispatch", "default"}
      /\ UNCHANGED <<registry, saved, events, calls, clicks, heard, repeats>>
  BY StackTop DEF BaseInv, EndNext, TriggerEnd, NativeEnd, DispatchEnd, Walked, In, history
<1>2. Event(stack[1].event) = Object(1) /\ Object(1) \in EventObject
  BY <1>1, FramesTyped DEF BaseInv
<1>3. stack[1].frame \in {"trigger", "native"} =>
          Object(1).stopped \/ stack[1].i > Len(Path(Object(1).target))
  BY <1>1, <1>2 DEF EndNext, TriggerEnd, NativeEnd, DispatchEnd, Walked, In
<1>4. stack[1].frame = "dispatch" =>
          stack[1].queue = <<>> \/ Object(1).immediate \/ Object(1).stopped
  BY <1>1, <1>2 DEF EndNext, TriggerEnd, NativeEnd, DispatchEnd, Walked, In, Ended
<1>5. triggered' = IF stack[1].frame = "default" THEN FALSE ELSE triggered
  BY <1>1 DEF EndNext, TriggerEnd, NativeEnd, DispatchEnd, Walked, In
<1>6. saved' = saved /\ saved' \in Saved
  BY <1>1 DEF BaseInv, TypesInv
<1>7. /\ Grows /\ RegistryInv' /\ HistoryInv' /\ calls' \in Nat
      /\ events' \in Seq(EventObject) /\ clicks' \in Seq(Click) /\ heard' \subseteq Nat \X Nat \X BOOLEAN
      /\ handlers' \in [Elements -> Seq(Handle)] /\ delegateCount' \in [Elements -> Nat]
  BY <1>1, <1>6, BaseKept
<1>8. StackInv' /\ Shifted(0, 1)
  BY <1>1, <1>7, StackPopped DEF BaseInv
<1>9. TypesInv'
  <2>1. triggered' \in BOOLEAN
    BY <1>5 DEF BaseInv, TypesInv
  <2>2. checked' \in BOOLEAN
    BY DEF BaseInv, TypesInv, EndNext, TriggerEnd, NativeEnd, DispatchEnd
  <2> QED BY <1>6, <1>7, <1>8, <2>1, <2>2 DEF TypesInv, Shifted
<1> QED BY <1>1, <1>3, <1>4, <1>5, <1>7, <1>8, <1>9 DEF BaseInv

\* The end of a call of the leverage stops the event at once.
LEMMA StopsAtOnce ==
    ASSUME BaseInv, NEW ev \in 1 .. Len(events), NEW prevent \in BOOLEAN, StopImmediately(ev, prevent),
           UNCHANGED <<registry, calls, clicks, heard>>, saved' \in Saved,
           saved.is # "undefined" => saved'.is # "undefined"
    PROVE  /\ Grows /\ RegistryInv' /\ HistoryInv' /\ calls' \in Nat
           /\ events' \in Seq(EventObject) /\ clicks' \in Seq(Click) /\ heard' \subseteq Nat \X Nat \X BOOLEAN
           /\ handlers' \in [Elements -> Seq(Handle)] /\ delegateCount' \in [Elements -> Nat]
           /\ Len(events') = Len(events)
           /\ \A k \in 1 .. Len(events) : k # ev => events'[k] = events[k]
           /\ events'[ev].stopped /\ events'[ev].immediate
<1> DEFINE x == [events[ev] EXCEPT !.stopped = TRUE, !.immediate = TRUE, !.prevented = @ \/ prevent]
<1>1. events[ev] \in EventObject /\ events \in Seq(EventObject)
  BY Lens DEF BaseInv, TypesInv
<1>2. /\ x \in EventObject /\ x.click = events[ev].click /\ x.target = events[ev].target
      /\ x.native = events[ev].native /\ x.immediate /\ x.stopped
  BY <1>1 DEF EventObject
<1>3. events' = [events EXCEPT ![ev] = x]
  BY <1>1 DEF StopImmediately
<1> HIDE DEF x
<1>4. /\ events' \in Seq(EventObject) /\ Len(events') = Len(events)
      /\ \A k \in 1 .. Len(events) : events'[k] = IF k = ev THEN x ELSE events[k]
  BY <1>2, <1>3, OneEventChanges DEF BaseInv
<1>5. calls \in Nat /\ calls' = calls
  BY DEF BaseInv, TypesInv
<1>6. /\ RegistryInv' /\ \A d \in Elements : Handlers(d)' = Handlers(d)
      /\ handlers' \in [Elements -> Seq(Handle)] /\ delegateCount' \in [Elements -> Nat]
  BY <1>5, RegistrySame DEF BaseInv
<1>7. Grows
  BY <1>2, <1>4, <1>5, <1>6, Lens DEF BaseInv, Grows
<1>8. HistoryInv'
  <2>1. \A k \in 1 .. Len(events) :
            /\ events'[k].click = events[k].click
            /\ events'[k].immediate => events'[k].stopped
    BY <1>2, <1>4 DEF BaseInv, HistoryInv
  <2> QED BY <1>4, <2>1, HistoryFlags DEF BaseInv
<1> QED BY <1>2, <1>4, <1>5, <1>6, <1>7, <1>8 DEF BaseInv, TypesInv

LEMMA ReinvokedStep ==
    ASSUME BaseInv, Reinvoked
    PROVE  /\ BaseInv' /\ Grows
           /\ UNCHANGED <<registry, triggered, clicks, heard, repeats>> /\ saved' = Captured
           /\ stack # <<>> /\ Shifted(0, 1) /\ stack[1].frame = "reinvoke"
           /\ Len(events') = Len(events)
           /\ \A k \in 1 .. Len(events) : k # stack[1].event => events'[k] = events[k]
           /\ events'[stack[1].event].stopped /\ events'[stack[1].event].immediate
<1>1. /\ stack # <<>> /\ stack' = Below /\ Top = stack[1] /\ stack[1].frame = "reinvoke"
      /\ UNCHANGED <<registry, triggered, checked, calls, clicks, heard, repeats>> /\ saved' = Captured
      /\ StopImmediately(stack[1].event, FALSE)
  BY StackTop DEF BaseInv, Reinvoked, In, history
<1>2. stack[1].event \in 1 .. Len(events)
  BY <1>1, FramesTyped DEF BaseInv
<1>3. saved' \in Saved /\ saved'.is # "undefined"
  BY <1>1 DEF Captured, Saved
<1>4. /\ Grows /\ RegistryInv' /\ HistoryInv' /\ calls' \in Nat
      /\ events' \in Seq(EventObject) /\ clicks' \in Seq(Click) /\ heard' \subseteq Nat \X Nat \X BOOLEAN
      /\ handlers' \in [Elements -> Seq(Handle)] /\ delegateCount' \in [Elements -> Nat]
      /\ Len(events') = Len(events)
      /\ \A k \in 1 .. Len(events) : k # stack[1].event => events'[k] = events[k]
      /\ events'[stack[1].event].stopped /\ events'[stack[1].event].immediate
  BY <1>1, <1>2, <1>3, StopsAtOnce
<1>5. StackInv' /\ Shifted(0, 1)
  BY <1>1, <1>4, StackPopped DEF BaseInv
<1>6. TypesInv'
  BY <1>1, <1>3, <1>4, <1>5 DEF TypesInv, BaseInv, Shifted
<1> QED BY <1>1, <1>4, <1>5, <1>6 DEF BaseInv

LEMMA InterruptedStep ==
    ASSUME BaseInv, Interrupted
    PROVE  /\ BaseInv' /\ Grows
           /\ UNCHANGED <<registry, triggered, clicks, heard, repeats>> /\ saved' = False
           /\ stack # <<>> /\ Shifted(0, 1) /\ stack[1].frame = "interrupt"
           /\ saved # Args(stack[1].event) =>
                 /\ Len(events') = Len(events)
                 /\ \A k \in 1 .. Len(events) : k # stack[1].event => events'[k] = events[k]
                 /\ events'[stack[1].event].stopped /\ events'[stack[1].event].immediate
<1>1. /\ stack # <<>> /\ stack' = Below /\ Top = stack[1] /\ stack[1].frame = "interrupt"
      /\ UNCHANGED <<registry, triggered, checked, calls, clicks, heard, repeats>> /\ saved' = False
      /\ IF saved # Args(stack[1].event) THEN StopImmediately(stack[1].event, TRUE) ELSE UNCHANGED events
  BY StackTop DEF BaseInv, Interrupted, In, history
<1>2. stack[1].event \in 1 .. Len(events)
  BY <1>1, FramesTyped DEF BaseInv
<1>3. saved' \in Saved /\ saved'.is # "undefined"
  BY <1>1 DEF False, Saved
<1>4. /\ Grows /\ RegistryInv' /\ HistoryInv' /\ calls' \in Nat
      /\ events' \in Seq(EventObject) /\ clicks' \in Seq(Click) /\ heard' \subseteq Nat \X Nat \X BOOLEAN
      /\ handlers' \in [Elements -> Seq(Handle)] /\ delegateCount' \in [Elements -> Nat]
      /\ saved # Args(stack[1].event) =>
            /\ Len(events') = Len(events)
            /\ \A k \in 1 .. Len(events) : k # stack[1].event => events'[k] = events[k]
            /\ events'[stack[1].event].stopped /\ events'[stack[1].event].immediate
  <2>1. CASE saved # Args(stack[1].event)
    BY <1>1, <1>2, <1>3, <2>1, StopsAtOnce
  <2>2. CASE saved = Args(stack[1].event)
    BY <1>1, <1>3, <2>2, BaseKept
  <2> QED BY <2>1, <2>2
<1>5. StackInv' /\ Shifted(0, 1)
  BY <1>1, <1>4, StackPopped DEF BaseInv
<1>6. TypesInv'
  BY <1>1, <1>3, <1>4, <1>5 DEF TypesInv, BaseInv, Shifted
<1> QED BY <1>1, <1>4, <1>5, <1>6 DEF BaseInv

\* elem.click(): a native event of the same click.
LEMMA Clicked ==
    ASSUME BaseInv, NEW c \in 1 .. Len(clicks), NEW target \in Elements, NativeClick(c, target),
           UNCHANGED <<registry, calls, heard>>, saved' \in Saved,
           saved.is # "undefined" => saved'.is # "undefined"
    PROVE  /\ Grows /\ RegistryInv' /\ HistoryInv' /\ calls' \in Nat /\ checked' \in BOOLEAN
           /\ events' \in Seq(EventObject) /\ clicks' \in Seq(Click) /\ heard' \subseteq Nat \X Nat \X BOOLEAN
           /\ handlers' \in [Elements -> Seq(Handle)] /\ delegateCount' \in [Elements -> Nat]
           /\ Len(events') = Len(events) + 1 /\ Len(clicks') = Len(clicks)
           /\ \A k \in 1 .. Len(events) : events'[k] = events[k]
           /\ events'[Len(events) + 1] = NewEvent(c, target, TRUE)
           /\ \A k \in 1 .. Len(clicks) : clicks'[k].stopped = clicks[k].stopped
           /\ clicks'[c].done
<1>1. Len(clicks) \in Nat /\ Len(events) \in Nat /\ c \in Nat /\ clicks[c] \in Click
  BY Lens DEF BaseInv
<1>2. /\ events' \in Seq(EventObject) /\ Len(events') = Len(events) + 1
      /\ \A k \in 1 .. Len(events) : events'[k] = events[k]
      /\ events'[Len(events) + 1] = NewEvent(c, target, TRUE)
  BY <1>1, OneMoreEvent DEF BaseInv, NativeClick
<1> DEFINE y == [clicks[c] EXCEPT !.done = TRUE]
<1>3. /\ y \in Click /\ y.done /\ y.due = clicks[c].due /\ y.stopped = clicks[c].stopped
      /\ y.leveraged = clicks[c].leveraged
  BY <1>1 DEF Click
<1>4. clicks' = [clicks EXCEPT ![c] = y]
  BY DEF NativeClick
<1> HIDE DEF y
<1>5. /\ clicks' \in Seq(Click) /\ Len(clicks') = Len(clicks)
      /\ \A k \in 1 .. Len(clicks) : clicks'[k] = IF k = c THEN y ELSE clicks[k]
  BY <1>3, <1>4, OneClickChanges DEF BaseInv
<1>6. calls \in Nat /\ calls' = calls
  BY DEF BaseInv, TypesInv
<1>7. /\ RegistryInv' /\ \A d \in Elements : Handlers(d)' = Handlers(d)
      /\ handlers' \in [Elements -> Seq(Handle)] /\ delegateCount' \in [Elements -> Nat]
  BY <1>6, RegistrySame DEF BaseInv
<1>8. Grows
  BY <1>1, <1>2, <1>3, <1>5, <1>6, <1>7, Lens, SMTT(30) DEF BaseInv, Grows
<1>9. HistoryInv'
  <2>1. ASSUME NEW k \in 1 .. Len(events')
        PROVE  events'[k].click \in 1 .. Len(clicks') /\ (events'[k].immediate => events'[k].stopped)
    <3>1. CASE k = Len(events) + 1
      BY <1>2, <1>5, <3>1 DEF NewEvent
    <3>2. CASE k # Len(events) + 1
      <4>1. k \in 1 .. Len(events)
        BY <1>1, <1>2, <3>2
      <4> QED BY <1>2, <1>5, <4>1 DEF BaseInv, HistoryInv
    <3> QED BY <3>1, <3>2
  <2>2. \A k \in 1 .. Len(clicks') : clicks'[k].due \subseteq 1 .. calls'
    BY <1>3, <1>5, <1>6 DEF BaseInv, HistoryInv
  <2>3. \A h \in heard' : h[1] \in 1 .. Len(clicks') /\ h[2] \in 1 .. calls'
    BY <1>5, <1>6 DEF BaseInv, HistoryInv
  <2> QED BY <2>1, <2>2, <2>3 DEF HistoryInv
<1>10. checked' \in BOOLEAN
  BY DEF NativeClick, BaseInv, TypesInv
<1> QED BY <1>2, <1>3, <1>5, <1>6, <1>7, <1>8, <1>9, <1>10 DEF BaseInv, TypesInv

LEMMA TriggerDefaultStep ==
    ASSUME BaseInv, TriggerDefault
    PROVE  /\ BaseInv' /\ Grows
           /\ UNCHANGED <<registry, saved, heard, repeats>> /\ triggered' = TRUE
           /\ stack # <<>> /\ stack[1].frame = "trigger" /\ Shifted(2, 1)
           /\ stack'[1] = NativeFrame(Len(events) + 1)
           /\ stack'[2] = FrameOf("default", stack[1].event)
           /\ Object(1).stopped \/ stack[1].i > Len(Path(Object(1).target))
           /\ Len(events') = Len(events) + 1 /\ Len(clicks') = Len(clicks)
           /\ \A k \in 1 .. Len(events) : events'[k] = events[k]
           /\ events'[Len(events) + 1] = NewEvent(ClickAt(1), Object(1).target, TRUE)
           /\ \A k \in 1 .. Len(clicks) : clicks'[k].stopped = clicks[k].stopped
<1>1. /\ stack # <<>> /\ Top = stack[1] /\ stack[1].frame = "trigger"
      /\ UNCHANGED <<registry, saved, calls, heard, repeats>> /\ triggered' = TRUE
      /\ stack' = <<NativeFrame(Len(events) + 1), FrameOf("default", stack[1].event)>> \o Below
  BY StackTop DEF BaseInv, TriggerDefault, Walked, In
<1>2. /\ stack[1].event \in 1 .. Len(events) /\ Event(stack[1].event) = Object(1)
      /\ Object(1) \in EventObject /\ Len(events) \in Nat
  BY <1>1, FramesTyped DEF BaseInv
<1>3. /\ Object(1).stopped \/ stack[1].i > Len(Path(Object(1).target))
      /\ NativeClick(ClickAt(1), Object(1).target)
  BY <1>1, <1>2 DEF TriggerDefault, Walked, ClickAt
<1>4. ClickAt(1) \in 1 .. Len(clicks) /\ Object(1).target \in Elements
  BY <1>2 DEF ClickAt, Object, EventObject, BaseInv, HistoryInv
<1>5. saved' \in Saved /\ saved' = saved
  BY <1>1 DEF BaseInv, TypesInv
<1>6. /\ Grows /\ RegistryInv' /\ HistoryInv' /\ calls' \in Nat /\ checked' \in BOOLEAN
      /\ events' \in Seq(EventObject) /\ clicks' \in Seq(Click) /\ heard' \subseteq Nat \X Nat \X BOOLEAN
      /\ handlers' \in [Elements -> Seq(Handle)] /\ delegateCount' \in [Elements -> Nat]
      /\ Len(events') = Len(events) + 1 /\ Len(clicks') = Len(clicks)
      /\ \A k \in 1 .. Len(events) : events'[k] = events[k]
      /\ events'[Len(events) + 1] = NewEvent(ClickAt(1), Object(1).target, TRUE)
      /\ \A k \in 1 .. Len(clicks) : clicks'[k].stopped = clicks[k].stopped
  BY <1>1, <1>3, <1>4, <1>5, Clicked
<1> DEFINE a == NativeFrame(Len(events) + 1)
           b == FrameOf("default", stack[1].event)
<1>7. /\ a \in Frame /\ b \in Frame
      /\ a.frame = "native" /\ a.event = Len(events) + 1 /\ a.queue = <<>> /\ a.i = 1
      /\ b.frame = "default" /\ b.event = stack[1].event /\ b.queue = <<>>
  <2>1. Len(events) + 1 \in Nat /\ stack[1].event \in Nat /\ "default" \in Kinds
    BY <1>2 DEF Kinds
  <2> QED BY <2>1, NewFrame
<1>8. stack' = <<a, b>> \o Below
  BY <1>1
<1> HIDE DEF a, b
<1>9. Shifted(2, 1) /\ stack'[1] = a /\ stack'[2] = b
  <2>1. stack' = <<a>> \o (<<b>> \o Below)
    BY <1>1, <1>7, <1>8, StackTop, OneByOne DEF BaseInv
  <2> QED BY <1>1, <1>7, <2>1, Pushed2 DEF BaseInv
<1>10. Len(stack') \in Nat /\ Len(stack') >= 2 /\ 2 \in Depth'
  <2>1. Len(stack) \in Nat \ {0}
    BY <1>1, StackTop DEF BaseInv
  <2> QED BY <1>9, <2>1 DEF Shifted, Depth
<1>11. Stands(1)' /\ Queues(1)'
  <2>1. Object(1)'.native /\ Object(1)'.click = ClickAt(1)
    BY <1>6, <1>7, <1>9 DEF Object, NewEvent
  <2>2. Is(2, {"interrupt", "default"})' /\ ClickAt(2)' = ClickAt(1)
    BY <1>2, <1>6, <1>7, <1>9, <1>10 DEF Is, ClickAt, Object
  <2>3. stack'[1].event \in 1 .. Len(events')
    BY <1>2, <1>6, <1>7, <1>9
  <2>4. Stands(1)'
    BY <1>7, <1>9, <2>1, <2>2, <2>3 DEF Stands, ClickAt
  <2> QED BY <1>7, <1>9, <2>4, EmptySeq DEF Queues
<1>12. Stands(2)' /\ Queues(2)'
  <2>1. stack'[2].event \in 1 .. Len(events')
    BY <1>2, <1>6, <1>7, <1>9
  <2>2. 2 # Len(stack') => Is(3, {"user", "reinvoke"})'
    <3>1. 2 # Len(stack') => Is(2, {"user", "reinvoke"})
      BY <1>1, <1>2, <1>9, StackTop, FramesTyped DEF Shifted, BaseInv, StackInv, Stands
    <3>2. Is(2, {"user", "reinvoke"}) => 3 \in Depth' /\ stack'[3] = stack[2]
      BY <1>9, StackTop DEF Is, Depth, Shifted, BaseInv
    <3> QED BY <3>1, <3>2 DEF Is
  <2>3. Stands(2)'
    BY <1>7, <1>9, <2>1, <2>2 DEF Stands
  <2> QED BY <1>7, <1>9, <2>3, EmptySeq DEF Queues
<1>13. StackInv'
  <2>1. \A j \in 1 .. 2 : Stands(j)' /\ Queues(j)'
    BY <1>11, <1>12
  <2>2. TypesInv /\ StackInv /\ Shifted(2, 1) /\ Grows /\ calls' \in Nat /\ events' \in Seq(EventObject)
    BY <1>6, <1>9 DEF BaseInv
  <2> QED BY <2>1, <2>2, StackPushed
<1>14. TypesInv'
  BY <1>1, <1>5, <1>6, <1>9 DEF TypesInv, Shifted
<1> QED BY <1>1, <1>3, <1>6, <1>9, <1>13, <1>14 DEF BaseInv, a, b

\* A dispatch comes to the next of its queue.
LEMMA CalleeIs ==
    ASSUME BaseInv, In("dispatch"), ~Ended
    PROVE  /\ stack # <<>> /\ Top = stack[1] /\ stack[1].frame = "dispatch" /\ 1 \in Depth
           /\ stack[1].queue \in Seq(Elements \X Handle) /\ stack[1].queue # <<>>
           /\ Len(stack[1].queue) \in Nat \ {0}
           /\ Head(stack[1].queue) = stack[1].queue[1] /\ Callee = stack[1].queue[1][2]
           /\ Callee \in Handle /\ Numbered(Callee, calls) /\ Callee.id \in Nat
           /\ Event(stack[1].event) = Object(1) /\ Object(1) \in EventObject
           /\ stack[1].event \in 1 .. Len(events) /\ stack[1].event \in Nat
           /\ ClickAt(1) \in 1 .. Len(clicks)
           /\ ~Object(1).immediate
           /\ Object(1).stopped => stack[1].elem = stack[1].queue[1][1]
           /\ Walks(2) /\ stack[2].event = stack[1].event /\ Object(2) = Object(1)
           /\ Len(stack) \in Nat /\ Len(stack) >= 2
           /\ Following \in Frame /\ Following.frame = "dispatch" /\ Following.event = stack[1].event
           /\ Len(Following.queue) = Len(stack[1].queue) - 1
           /\ \A k \in 1 .. Len(Following.queue) :
                 Following.queue[k] = stack[1].queue[k + 1] /\ k + 1 \in 1 .. Len(stack[1].queue)
<1>1. /\ stack # <<>> /\ Top = stack[1] /\ stack[1].frame = "dispatch" /\ stack[1] \in Frame
      /\ Len(stack) \in Nat \ {0}
  BY StackTop DEF BaseInv, In
<1>2. /\ stack[1].event \in 1 .. Len(events) /\ 1 \in Depth
      /\ Event(stack[1].event) = Object(1) /\ Object(1) \in EventObject /\ Len(events) \in Nat
  BY <1>1, FramesTyped DEF BaseInv
<1> DEFINE q == stack[1].queue
<1>3. q \in Seq(Elements \X Handle) /\ q # <<>> /\ ~Object(1).immediate
      /\ (Object(1).stopped => stack[1].elem = Head(q)[1])
  BY <1>1, <1>2 DEF Ended, Frame
<1>4. /\ Len(q) \in Nat \ {0} /\ Head(q) = q[1] /\ q[1] \in Elements \X Handle
      /\ Tail(q) \in Seq(Elements \X Handle) /\ Len(Tail(q)) = Len(q) - 1
      /\ \A k \in 1 .. Len(Tail(q)) : Tail(q)[k] = q[k + 1]
  BY <1>3, EmptySeq, HeadTailProperties, ElementOfSeq
<1>5. Callee = q[1][2] /\ Callee \in Handle /\ Callee.id \in Nat
  BY <1>1, <1>4 DEF Callee, Handle
<1>6. Numbered(Callee, calls)
  BY <1>2, <1>4, <1>5 DEF BaseInv, StackInv, Queues
<1>7. ClickAt(1) \in 1 .. Len(clicks)
  BY <1>2 DEF ClickAt, Object, BaseInv, HistoryInv
<1>8. Walks(2) /\ stack[2].event = stack[1].event
  BY <1>1, <1>2 DEF BaseInv, StackInv, Stands
<1>9. Len(stack) >= 2
  BY <1>1, <1>8 DEF Walks, Is, Depth
<1>10. Following = [stack[1] EXCEPT !.queue = Tail(q), !.elem = q[1][1]]
  BY <1>1, <1>4 DEF Following
<1>11. /\ Following \in Frame /\ Following.frame = "dispatch" /\ Following.event = stack[1].event
       /\ Following.queue = Tail(q)
  <2> HIDE DEF q
  <2> QED BY <1>1, <1>4, <1>10 DEF Frame
<1>12. \A k \in 1 .. Len(Tail(q)) : k + 1 \in 1 .. Len(q)
  BY <1>4
<1> QED BY <1>1, <1>2, <1>3, <1>4, <1>5, <1>6, <1>7, <1>8, <1>9, <1>11, <1>12 DEF Object

\* Wherever the rest of the dispatch is then, it stands and queues.
LEMMA FollowingAt ==
    ASSUME BaseInv, In("dispatch"), ~Ended, Grows, NEW n \in {1, 2, 3}, Shifted(n, 1),
           stack'[n] = Following, calls' \in Nat, events' \in Seq(EventObject)
    PROVE  Stands(n)' /\ Queues(n)' /\ n \in Depth' /\ Walks(n + 1)'
<1>1. /\ stack # <<>> /\ 1 \in Depth /\ stack[1].frame = "dispatch"
      /\ stack[1].queue \in Seq(Elements \X Handle) /\ Len(stack[1].queue) \in Nat \ {0}
      /\ Len(stack) \in Nat /\ Len(stack) >= 2 /\ Walks(2)
      /\ Following.frame = "dispatch" /\ Following.event = stack[1].event
      /\ Len(Following.queue) = Len(stack[1].queue) - 1
      /\ \A k \in 1 .. Len(Following.queue) :
            Following.queue[k] = stack[1].queue[k + 1] /\ k + 1 \in 1 .. Len(stack[1].queue)
  BY CalleeIs
<1>2. Len(stack') = Len(stack) - 1 + n /\ stack' \in Seq(Frame)
  BY DEF Shifted
<1>3. n \in 1 .. Len(stack') /\ 1 \in 1 .. Len(stack) /\ Len(stack') - n = Len(stack) - 1
      /\ n + 1 \in 1 .. Len(stack')
  BY <1>1, <1>2, SMTT(15)
<1>4. ASSUME NEW i \in 1 .. Len(stack) - 1 PROVE stack'[n + i] = stack[1 + i]
  <2>1. n + i \in n + 1 .. Len(stack') /\ (n + i) - n + 1 = 1 + i
    BY <1>1, <1>2
  <2> QED BY <2>1 DEF Shifted
<1>5. Stands(n)'
  <2>1. TypesInv /\ StackInv /\ stack'[n].frame = stack[1].frame /\ stack'[n].event = stack[1].event
    BY <1>1 DEF BaseInv
  <2> QED BY <1>2, <1>3, <1>4, <2>1, StandsAt
<1>6. ASSUME NEW k \in 1 .. Len(Following.queue)
      PROVE  Numbered(Following.queue[k][2], calls') /\ Following.queue[k][2].guid # "leverage"
  <2>1. Following.queue[k] = stack[1].queue[k + 1] /\ k + 1 \in 1 .. Len(stack[1].queue)
    BY <1>1
  <2>2. stack[1].queue[k + 1][2] \in Handle
    BY <1>1, <2>1, ElementOfSeq
  <2>3. /\ Numbered(stack[1].queue[k + 1][2], calls)
        /\ stack[1].queue[k + 1][2].guid = "leverage" => k + 1 = 1
    BY <1>1, <2>1 DEF BaseInv, StackInv, Queues
  <2>4. calls \in Nat /\ calls <= calls'
    BY DEF Grows, BaseInv, TypesInv
  <2>5. k + 1 # 1
    BY <1>1
  <2> QED BY <2>1, <2>2, <2>3, <2>4, <2>5 DEF Numbered, Handle
<1>7. Queues(n)'
  BY <1>1, <1>6 DEF Queues
<1>8. Walks(n + 1)'
  <2>1. stack'[n + 1] = stack[1 + 1]
    BY <1>1, <1>4
  <2> QED BY <1>1, <1>3, <2>1 DEF Walks, Is, Depth
<1> QED BY <1>3, <1>5, <1>7, <1>8 DEF Depth

LEMMA UserStep ==
    ASSUME BaseInv, CallUser
    PROVE  /\ BaseInv' /\ Grows
           /\ UNCHANGED <<saved, triggered, events, calls, clicks>>
           /\ In("dispatch") /\ ~Ended /\ Callee.guid \in Fns /\ Callee.id # 0
           /\ LET hears == <<ClickAt(1), Callee.id, Callee.once>>
              IN  /\ heard' = heard \cup {hears}
                  /\ repeats' = repeats \cup ({hears} \cap heard)
           /\ \A d \in Elements : Handlers(d)' \subseteq Handlers(d)
           /\ Shifted(2, 1) /\ stack'[1] = FrameOf("user", stack[1].event) /\ stack'[2] = Following
<1>1. /\ In("dispatch") /\ ~Ended /\ Callee.guid \in Fns
      /\ UNCHANGED <<saved, triggered, checked, events, calls, clicks>>
  BY DEF CallUser, Calls
<1>2. /\ stack # <<>> /\ Top = stack[1] /\ Event(stack[1].event) = Object(1)
      /\ Callee \in Handle /\ Numbered(Callee, calls) /\ Callee.id \in Nat
      /\ stack[1].event \in 1 .. Len(events) /\ stack[1].event \in Nat
      /\ ClickAt(1) \in 1 .. Len(clicks) /\ Following \in Frame
  BY <1>1, CalleeIs
<1>3. /\ Len(events) \in Nat /\ Len(clicks) \in Nat /\ calls \in Nat /\ calls' = calls
      /\ events' = events /\ clicks' = clicks /\ saved' = saved /\ saved' \in Saved
      /\ events' \in Seq(EventObject)
  BY <1>1, Lens DEF BaseInv, TypesInv
<1> DEFINE hears == <<ClickAt(1), Callee.id, Callee.once>>
<1>4. heard' = heard \cup {hears} /\ repeats' = repeats \cup ({hears} \cap heard)
  BY <1>2 DEF CallUser, ClickAt
<1>5. Callee.id # 0 /\ Callee.id \in 1 .. calls
  BY <1>1, <1>2, <1>3 DEF Numbered
<1>6. hears \in Nat \X Nat \X BOOLEAN /\ hears[1] = ClickAt(1) /\ hears[2] = Callee.id
  BY <1>2, <1>3 DEF Handle
<1> HIDE DEF hears
<1>7. /\ handlers' \in [Elements -> Seq(Handle)] /\ delegateCount' \in [Elements -> Nat]
      /\ RegistryInv'
      /\ \A d \in Elements : Handlers(d)' \subseteq Handlers(d)
  <2>1. CASE Callee.once
    <3> DEFINE e == stack[1].this
               gone == {h \in Handlers(e) : h.guid = Callee.guid /\ (Callee.selector => h.selector)}
    <3>1. e \in Elements
      BY <1>2, StackTop DEF BaseInv, Frame
    <3>2. Remove(e, gone)
      BY <1>2, <2>1 DEF CallUser
    <3>3. Leverage \notin gone
      BY <1>1, FnsAssumption DEF Leverage, HandleObj
    <3> HIDE DEF e, gone
    <3> QED BY <1>3, <3>1, <3>2, <3>3, RemoveEffect DEF BaseInv
  <2>2. CASE ~Callee.once
    <3>1. UNCHANGED registry
      BY <2>2 DEF CallUser
    <3> QED BY <1>3, <3>1, RegistrySame DEF BaseInv
  <2> QED BY <2>1, <2>2
<1>8. Grows
  BY <1>3, <1>7 DEF Grows
<1> DEFINE a == FrameOf("user", stack[1].event)
<1>9. a \in Frame /\ a.frame = "user" /\ a.event = stack[1].event /\ a.queue = <<>>
  BY <1>2, NewFrame DEF Kinds
<1>10. stack' = <<a, Following>> \o Below
  BY <1>2 DEF CallUser
<1> HIDE DEF a
<1>11. Shifted(2, 1) /\ stack'[1] = a /\ stack'[2] = Following
  <2>1. stack' = <<a>> \o (<<Following>> \o Below)
    BY <1>2, <1>9, <1>10, StackTop, OneByOne DEF BaseInv
  <2> QED BY <1>2, <1>9, <2>1, Pushed2 DEF BaseInv
<1>12. Stands(2)' /\ Queues(2)' /\ 2 \in Depth' /\ Following.frame = "dispatch"
       /\ Following.event = stack[1].event
  BY <1>1, <1>3, <1>8, <1>11, CalleeIs, FollowingAt
<1>13. Stands(1)' /\ Queues(1)'
  <2>1. Is(2, {"dispatch"})'
    BY <1>11, <1>12 DEF Is
  <2>2. Stands(1)'
    BY <1>2, <1>3, <1>9, <1>11, <1>12, <2>1 DEF Stands
  <2> QED BY <1>9, <1>11, <2>2, EmptySeq DEF Queues
<1>14. StackInv'
  <2>1. \A j \in 1 .. 2 : Stands(j)' /\ Queues(j)'
    BY <1>12, <1>13
  <2>2. TypesInv /\ StackInv /\ Shifted(2, 1) /\ Grows /\ calls' \in Nat /\ events' \in Seq(EventObject)
    BY <1>3, <1>8, <1>11 DEF BaseInv
  <2> QED BY <2>1, <2>2, StackPushed
<1>15. TypesInv'
  BY <1>1, <1>3, <1>4, <1>6, <1>7, <1>11 DEF BaseInv, TypesInv, Shifted
<1>16. HistoryInv'
  BY <1>2, <1>3, <1>4, <1>5, <1>6 DEF BaseInv, HistoryInv
<1> QED BY <1>1, <1>4, <1>5, <1>7, <1>8, <1>11, <1>14, <1>15, <1>16 DEF BaseInv, hears, a

LEMMA PassStep ==
    ASSUME BaseInv, Pass
    PROVE  /\ BaseInv' /\ Grows
           /\ UNCHANGED <<registry, saved, triggered, events, calls, clicks, heard, repeats>>
           /\ In("dispatch") /\ ~Ended /\ Callee.guid \notin Fns /\ Callee.id = 0
           /\ Callee.guid = "leverage" => (~Object(1).native <=> saved.is = "args")
           /\ Shifted(1, 1) /\ stack'[1] = Following
<1>1. /\ In("dispatch") /\ ~Ended /\ Callee.guid \in {"leverage", "returnTrue"}
      /\ UNCHANGED <<registry, saved, triggered, checked, events, calls, clicks, heard, repeats>>
  BY DEF Pass, Calls, history
<1>2. /\ stack # <<>> /\ Top = stack[1] /\ Event(stack[1].event) = Object(1)
      /\ Numbered(Callee, calls) /\ Following \in Frame
  BY <1>1, CalleeIs
<1>3. Callee.guid \notin Fns /\ Callee.id = 0
  BY <1>1, <1>2, FnsAssumption DEF Numbered
<1>4. Callee.guid = "leverage" => (~Object(1).native <=> saved.is = "args")
  BY <1>2 DEF Pass, Calls, Synthetic
<1>5. saved' = saved /\ saved' \in Saved
  BY <1>1 DEF BaseInv, TypesInv
<1>6. /\ Grows /\ RegistryInv' /\ HistoryInv' /\ calls' \in Nat
      /\ events' \in Seq(EventObject) /\ clicks' \in Seq(Click) /\ heard' \subseteq Nat \X Nat \X BOOLEAN
      /\ handlers' \in [Elements -> Seq(Handle)] /\ delegateCount' \in [Elements -> Nat]
  BY <1>1, <1>5, BaseKept
<1>7. Shifted(1, 1) /\ stack'[1] = Following
  <2>1. stack' = <<Following>> \o Below
    BY DEF Pass
  <2> QED BY <1>2, <2>1, Pushed1 DEF BaseInv
<1>8. StackInv'
  <2>1. Stands(1)' /\ Queues(1)'
    BY <1>1, <1>6, <1>7, FollowingAt
  <2>2. \A j \in 1 .. 1 : Stands(j)' /\ Queues(j)'
    BY <2>1
  <2>3. TypesInv /\ StackInv /\ Shifted(1, 1) /\ Grows /\ calls' \in Nat /\ events' \in Seq(EventObject)
    BY <1>6, <1>7 DEF BaseInv
  <2> QED BY <2>2, <2>3, StackPushed
<1>9. TypesInv'
  BY <1>1, <1>5, <1>6, <1>7 DEF BaseInv, TypesInv, Shifted
<1> QED BY <1>1, <1>3, <1>4, <1>6, <1>7, <1>8, <1>9 DEF BaseInv

LEMMA InterruptStep ==
    ASSUME BaseInv, UnheardInv, Interrupt
    PROVE  /\ BaseInv' /\ Grows
           /\ UNCHANGED <<registry, triggered, calls, heard, repeats>>
           /\ saved' = Args(stack[1].event)
           /\ In("dispatch") /\ ~Ended /\ Callee.guid = "leverage"
           /\ ~Object(1).native /\ Object(1).target = "box" /\ stack[2].i = 2
           /\ handlers["box"] # <<>>
           /\ \A h \in Handlers("box") : h.id # 0 => h.id \notin HeardOf(ClickAt(1))
           /\ Shifted(3, 1)
           /\ stack'[1] = NativeFrame(Len(events) + 1)
           /\ stack'[2] = FrameOf("interrupt", stack[1].event)
           /\ stack'[3] = Following
           /\ Len(events') = Len(events) + 1 /\ Len(clicks') = Len(clicks)
           /\ \A k \in 1 .. Len(events) : events'[k] = events[k]
           /\ events'[Len(events) + 1] = NewEvent(ClickAt(1), "box", TRUE)
           /\ \A k \in 1 .. Len(clicks) : clicks'[k].stopped = clicks[k].stopped
           /\ clicks'[ClickAt(1)].done
<1>1. /\ In("dispatch") /\ ~Ended /\ Callee.guid = "leverage"
      /\ UNCHANGED <<registry, triggered, calls, heard, repeats>>
  BY DEF Interrupt, Calls
<1>2. /\ stack # <<>> /\ Top = stack[1] /\ Event(stack[1].event) = Object(1) /\ 1 \in Depth
      /\ stack[1].frame = "dispatch" /\ stack[1].queue # <<>> /\ Head(stack[1].queue)[2] = Callee
      /\ stack[1].event \in 1 .. Len(events) /\ stack[1].event \in Nat
      /\ ClickAt(1) \in 1 .. Len(clicks) /\ Following \in Frame
  BY <1>1, CalleeIs
<1>3. ~Object(1).native /\ saved' = Args(stack[1].event) /\ NativeClick(ClickAt(1), "box")
  BY <1>2 DEF Interrupt, Synthetic, ClickAt
<1>4. /\ stack[2].i = 2 /\ Object(1).target = "box" /\ handlers["box"] # <<>>
      /\ \A h \in Handlers("box") : h.id # 0 => h.id \notin HeardOf(ClickAt(1))
  BY <1>1, <1>2 DEF UnheardInv, Is
<1>5. saved' \in Saved /\ saved'.is # "undefined" /\ Len(events) \in Nat /\ "box" \in Elements
  BY <1>2, <1>3, Lens, Paths DEF Args, Saved, BaseInv
<1>6. /\ Grows /\ RegistryInv' /\ HistoryInv' /\ calls' \in Nat /\ checked' \in BOOLEAN
      /\ events' \in Seq(EventObject) /\ clicks' \in Seq(Click) /\ heard' \subseteq Nat \X Nat \X BOOLEAN
      /\ handlers' \in [Elements -> Seq(Handle)] /\ delegateCount' \in [Elements -> Nat]
      /\ Len(events') = Len(events) + 1 /\ Len(clicks') = Len(clicks)
      /\ \A k \in 1 .. Len(events) : events'[k] = events[k]
      /\ events'[Len(events) + 1] = NewEvent(ClickAt(1), "box", TRUE)
      /\ \A k \in 1 .. Len(clicks) : clicks'[k].stopped = clicks[k].stopped
      /\ clicks'[ClickAt(1)].done
  BY <1>1, <1>2, <1>3, <1>5, Clicked
<1> DEFINE a == NativeFrame(Len(events) + 1)
           b == FrameOf("interrupt", stack[1].event)
<1>7. /\ a \in Frame /\ b \in Frame
      /\ a.frame = "native" /\ a.event = Len(events) + 1 /\ a.queue = <<>> /\ a.i = 1
      /\ b.frame = "interrupt" /\ b.event = stack[1].event /\ b.queue = <<>>
  <2>1. Len(events) + 1 \in Nat /\ stack[1].event \in Nat /\ "interrupt" \in Kinds
    BY <1>2, <1>5 DEF Kinds
  <2> QED BY <2>1, NewFrame
<1>8. stack' = <<a, b, Following>> \o Below
  BY <1>2 DEF Interrupt
<1> HIDE DEF a, b
<1>9. Shifted(3, 1) /\ stack'[1] = a /\ stack'[2] = b /\ stack'[3] = Following
  <2>1. stack' = <<a>> \o (<<b>> \o (<<Following>> \o Below))
    <3>1. Below \in Seq(Frame)
      BY <1>2, StackTop DEF BaseInv
    <3>2. <<a, b, Following>> \o Below = <<a>> \o (<<b>> \o (<<Following>> \o Below))
      BY <1>2, <1>7, <3>1, OneByOne
    <3> QED BY <1>8, <3>2
  <2> QED BY <1>2, <1>7, <2>1, Pushed3 DEF BaseInv
<1>10. Stands(3)' /\ Queues(3)' /\ 3 \in Depth' /\ Following.frame = "dispatch"
       /\ Following.event = stack[1].event
  BY <1>1, <1>6, <1>9, CalleeIs, FollowingAt
<1>11. 1 \in Depth' /\ 2 \in Depth'
  BY <1>10 DEF Depth
<1>12. Stands(2)' /\ Queues(2)'
  <2>1. Is(3, {"dispatch"})' /\ stack'[3].event = stack'[2].event
    BY <1>7, <1>9, <1>10 DEF Is
  <2>2. stack'[2].event \in 1 .. Len(events') /\ Object(2)' = Object(1)
    BY <1>2, <1>5, <1>6, <1>7, <1>9 DEF Object
  <2>3. ~Object(2)'.native /\ Object(2)'.target = "box"
    BY <1>3, <1>4, <2>2
  <2>4. Stands(2)'
    BY <1>7, <1>9, <2>1, <2>2, <2>3 DEF Stands
  <2> QED BY <1>7, <1>9, <2>4, EmptySeq DEF Queues
<1>13. Stands(1)' /\ Queues(1)'
  <2>1. Object(1)'.native /\ Object(1)'.click = ClickAt(1)
    BY <1>6, <1>7, <1>9 DEF Object, NewEvent
  <2>2. Is(2, {"interrupt", "default"})' /\ ClickAt(2)' = ClickAt(1)
    BY <1>2, <1>6, <1>7, <1>9, <1>11 DEF Is, ClickAt, Object
  <2>3. stack'[1].event \in 1 .. Len(events')
    BY <1>5, <1>6, <1>7, <1>9
  <2>4. Stands(1)'
    BY <1>7, <1>9, <2>1, <2>2, <2>3 DEF Stands, ClickAt
  <2> QED BY <1>7, <1>9, <2>4, EmptySeq DEF Queues
<1>14. StackInv'
  <2>1. \A j \in 1 .. 3 : Stands(j)' /\ Queues(j)'
    BY <1>10, <1>12, <1>13
  <2>2. TypesInv /\ StackInv /\ Shifted(3, 1) /\ Grows /\ calls' \in Nat /\ events' \in Seq(EventObject)
    BY <1>6, <1>9 DEF BaseInv
  <2> QED BY <2>1, <2>2, StackPushed
<1>15. TypesInv'
  BY <1>1, <1>5, <1>6, <1>9 DEF BaseInv, TypesInv, Shifted
<1> QED BY <1>1, <1>3, <1>4, <1>6, <1>9, <1>14, <1>15 DEF BaseInv, a, b

LEMMA ThirdPlace ==
    ASSUME NEW L \in Nat, NEW m \in 1 .. L, m # 1, m # 2
    PROVE  L # 2 /\ 3 \in 1 .. L
OBVIOUS

\* Where the synthetic event is triggered again: the native click is under the
\* dispatch, the interrupted event under that.
LEMMA ReinvokedWhere ==
    ASSUME BaseInv, TriggeredInv, LeverageInv, In("dispatch"), ~Ended, Object(1).native,
           saved.is = "args"
    PROVE  /\ Is(2, {"native"}) /\ Is(3, {"interrupt"}) /\ ClickAt(3) = ClickAt(1)
           /\ saved = Args(stack[3].event) /\ saved.event = stack[3].event
           /\ ~Object(3).native /\ Object(3).target = "box"
           /\ stack[3].event \in 1 .. Len(events)
<1>1. /\ 1 \in Depth /\ stack[1].frame = "dispatch" /\ Walks(2) /\ Object(2) = Object(1)
      /\ ~Object(1).immediate /\ Len(stack) \in Nat /\ Len(stack) >= 2
  BY CalleeIs
<1>2. Stands(2)
  BY <1>1 DEF Walks, Is, BaseInv, StackInv
<1>3. Is(2, {"native"})
  BY <1>1, <1>2 DEF Walks, Is, Stands
<1>4. PICK m \in Depth : Is(m, {"interrupt"})
  BY DEF LeverageInv
<1>5. 2 # Len(stack) /\ 3 \in Depth
  <2>1. m # 1 /\ m # 2
    BY <1>1, <1>3, <1>4 DEF Is
  <2>2. m \in 1 .. Len(stack)
    BY <1>4 DEF Depth
  <2>3. Len(stack) # 2 /\ 3 \in 1 .. Len(stack)
    BY <1>1, <2>1, <2>2, ThirdPlace
  <2> QED BY <2>3 DEF Depth
<1>6. Is(3, {"interrupt", "default"}) /\ ClickAt(3) = ClickAt(2)
  BY <1>2, <1>3, <1>5 DEF Stands, Is
<1>7. Is(3, {"interrupt"})
  BY <1>5, <1>6 DEF Is, TriggeredInv
<1>8. saved = Args(stack[3].event)
  <2>1. 2 \in Depth /\ Is(2 + 1, {"interrupt"})
    BY <1>3, <1>7 DEF Is
  <2>2. ~Is(1, {"interrupt", "reinvoke"})
    BY <1>1 DEF Is
  <2> QED BY <1>1, <1>3, <2>1, <2>2 DEF LeverageInv, Leveraged, Stage
<1>9. Stands(3)
  BY <1>5 DEF BaseInv, StackInv
<1>10. ~Object(3).native /\ Object(3).target = "box" /\ stack[3].event \in 1 .. Len(events)
  BY <1>7, <1>9 DEF Stands, Is
<1> QED BY <1>1, <1>3, <1>6, <1>7, <1>8, <1>10 DEF ClickAt, Args

LEMMA ReinvokeStep ==
    ASSUME BaseInv, TriggeredInv, LeverageInv, Reinvoke
    PROVE  /\ BaseInv' /\ Grows
           /\ UNCHANGED <<registry, saved, triggered, calls, clicks, heard, repeats>>
           /\ In("dispatch") /\ ~Ended /\ Callee.guid = "leverage"
           /\ Object(1).native /\ saved.is = "args"
           /\ Shifted(3, 1)
           /\ stack'[1] = TriggerFrame(stack[3].event)
           /\ stack'[2] = FrameOf("reinvoke", stack[1].event)
           /\ stack'[3] = Following
           /\ Len(events') = Len(events)
           /\ \A k \in 1 .. Len(events) : k # stack[3].event => events'[k] = events[k]
           /\ ~events'[stack[3].event].stopped /\ ~events'[stack[3].event].immediate
<1>1. /\ In("dispatch") /\ ~Ended /\ Callee.guid = "leverage" /\ saved.is = "args"
      /\ UNCHANGED <<registry, saved, triggered, checked, calls, clicks, heard, repeats>>
  BY DEF Reinvoke, Calls, history
<1>2. /\ stack # <<>> /\ Top = stack[1] /\ Event(stack[1].event) = Object(1) /\ 1 \in Depth
      /\ stack[1].frame = "dispatch" /\ Len(stack) \in Nat
      /\ stack[1].event \in 1 .. Len(events) /\ stack[1].event \in Nat
      /\ ClickAt(1) \in 1 .. Len(clicks) /\ Following \in Frame
      /\ Following.frame = "dispatch" /\ Following.event = stack[1].event
  BY <1>1, CalleeIs
<1>3. Object(1).native
  BY <1>2 DEF Reinvoke, Synthetic
<1> DEFINE ev == stack[3].event
<1>4. /\ Is(2, {"native"}) /\ Is(3, {"interrupt"}) /\ ClickAt(3) = ClickAt(1)
      /\ saved = Args(ev) /\ saved.event = ev /\ ~Object(3).native
      /\ ev \in 1 .. Len(events)
  BY <1>1, <1>3, ReinvokedWhere
<1> DEFINE x == [events[ev] EXCEPT !.prevented = FALSE, !.stopped = FALSE, !.immediate = FALSE]
<1>5. events[ev] \in EventObject /\ events \in Seq(EventObject) /\ Len(events) \in Nat /\ ev \in Nat
  BY <1>4, Lens DEF BaseInv, TypesInv
<1>6. /\ x \in EventObject /\ x.click = events[ev].click /\ x.target = events[ev].target
      /\ x.native = events[ev].native /\ ~x.immediate /\ ~x.stopped
  BY <1>5 DEF EventObject
<1>7. events' = [events EXCEPT ![ev] = x]
  BY <1>4, <1>5 DEF Reinvoke
<1> HIDE DEF x, ev
<1>8. /\ events' \in Seq(EventObject) /\ Len(events') = Len(events)
      /\ \A k \in 1 .. Len(events) : events'[k] = IF k = ev THEN x ELSE events[k]
  BY <1>4, <1>6, <1>7, OneEventChanges DEF BaseInv
<1>9. calls \in Nat /\ calls' = calls /\ saved' \in Saved /\ saved' = saved
  BY <1>1 DEF BaseInv, TypesInv
<1>10. /\ RegistryInv' /\ \A d \in Elements : Handlers(d)' = Handlers(d)
       /\ handlers' \in [Elements -> Seq(Handle)] /\ delegateCount' \in [Elements -> Nat]
  BY <1>1, <1>9, RegistrySame DEF BaseInv
<1>11. Grows
  <2>1. \A k \in 1 .. Len(events) :
            /\ events'[k].click = events[k].click /\ events'[k].target = events[k].target
            /\ events'[k].native = events[k].native
    BY <1>6, <1>8
  <2>2. clicks' = clicks /\ Len(clicks) \in Nat
    BY <1>1, Lens DEF BaseInv
  <2> QED BY <1>5, <1>8, <1>9, <1>10, <2>1, <2>2 DEF Grows
<1>12. HistoryInv'
  <2>1. \A k \in 1 .. Len(events) :
            /\ events'[k].click = events[k].click
            /\ events'[k].immediate => events'[k].stopped
    BY <1>6, <1>8 DEF BaseInv, HistoryInv
  <2> QED BY <1>1, <1>8, <2>1, HistoryFlags DEF BaseInv
<1> DEFINE a == TriggerFrame(ev)
           b == FrameOf("reinvoke", stack[1].event)
<1>13. /\ a \in Frame /\ b \in Frame
       /\ a.frame = "trigger" /\ a.event = ev /\ a.queue = <<>> /\ a.i = 1
       /\ b.frame = "reinvoke" /\ b.event = stack[1].event /\ b.queue = <<>>
  <2>1. ev \in Nat /\ stack[1].event \in Nat /\ "reinvoke" \in Kinds
    BY <1>2, <1>5 DEF Kinds
  <2> QED BY <2>1, NewFrame
<1>14. stack' = <<a, b, Following>> \o Below
  BY <1>2, <1>4 DEF Reinvoke
<1> HIDE DEF a, b
<1>15. Shifted(3, 1) /\ stack'[1] = a /\ stack'[2] = b /\ stack'[3] = Following
  <2>1. stack' = <<a>> \o (<<b>> \o (<<Following>> \o Below))
    <3>1. Below \in Seq(Frame)
      BY <1>2, StackTop DEF BaseInv
    <3>2. <<a, b, Following>> \o Below = <<a>> \o (<<b>> \o (<<Following>> \o Below))
      BY <1>2, <1>13, <3>1, OneByOne
    <3> QED BY <1>14, <3>2
  <2> QED BY <1>2, <1>13, <2>1, Pushed3 DEF BaseInv
<1>16. Stands(3)' /\ Queues(3)' /\ 3 \in Depth'
  BY <1>1, <1>8, <1>9, <1>11, <1>15, FollowingAt
<1>17. 1 \in Depth' /\ 2 \in Depth' /\ 1 # Len(stack')
  BY <1>16 DEF Depth
<1>18. 4 \in Depth' /\ 5 \in Depth' /\ stack'[4] = stack[2] /\ stack'[5] = stack[3]
  BY <1>2, <1>4, <1>15 DEF Shifted, Is, Depth
<1>19. Stands(2)' /\ Queues(2)'
  <2>1. Is(3, {"dispatch"})' /\ stack'[3].event = stack'[2].event
    BY <1>2, <1>13, <1>15, <1>16 DEF Is
  <2>2. stack'[2].event \in 1 .. Len(events')
    BY <1>2, <1>8, <1>13, <1>15
  <2>3. Is(4, {"native"})' /\ Is(5, {"interrupt"})'
    BY <1>4, <1>18 DEF Is
  <2>4. ClickAt(5)' = ClickAt(2)'
    <3>1. ClickAt(2)' = ClickAt(1)
      BY <1>2, <1>6, <1>8, <1>13, <1>15 DEF ClickAt, Object
    <3>2. ClickAt(5)' = ClickAt(3)
      BY <1>4, <1>6, <1>8, <1>18 DEF ClickAt, Object, ev
    <3> QED BY <1>4, <3>1, <3>2
  <2>5. Stands(2)'
    BY <1>13, <1>15, <2>1, <2>2, <2>3, <2>4 DEF Stands
  <2> QED BY <1>13, <1>15, <2>5, EmptySeq DEF Queues
<1>20. Stands(1)' /\ Queues(1)'
  <2>1. ~Object(1)'.native
    BY <1>4, <1>6, <1>8, <1>13, <1>15 DEF Object, ev
  <2>2. Is(2, {"user", "reinvoke"})'
    BY <1>13, <1>15, <1>17 DEF Is
  <2>3. stack'[1].event \in 1 .. Len(events')
    BY <1>4, <1>8, <1>13, <1>15
  <2>4. Stands(1)'
    BY <1>13, <1>15, <2>1, <2>2, <2>3 DEF Stands
  <2> QED BY <1>13, <1>15, <2>4, EmptySeq DEF Queues
<1>21. StackInv'
  <2>1. \A j \in 1 .. 3 : Stands(j)' /\ Queues(j)'
    BY <1>16, <1>19, <1>20
  <2>2. TypesInv /\ StackInv /\ Shifted(3, 1) /\ Grows /\ calls' \in Nat /\ events' \in Seq(EventObject)
    BY <1>8, <1>9, <1>11, <1>15 DEF BaseInv
  <2> QED BY <2>1, <2>2, StackPushed
<1>22. TypesInv'
  BY <1>1, <1>8, <1>9, <1>10, <1>15 DEF BaseInv, TypesInv, Shifted
<1>23. /\ \A k \in 1 .. Len(events) : k # ev => events'[k] = events[k]
       /\ ~events'[ev].stopped /\ ~events'[ev].immediate
  BY <1>4, <1>6, <1>8
<1> QED BY <1>1, <1>3, <1>8, <1>10, <1>11, <1>12, <1>15, <1>21, <1>22, <1>23 DEF BaseInv, a, b, ev

-----------------------------------------------------------------------------
(* The invariant of the calls: who is under whom after a step.             *)

\* What a call that a step leaves alone was.
LEMMA MovedCall ==
    ASSUME BaseInv, BaseInv', Grows, NEW n \in Nat, NEW k \in {0, 1}, Shifted(n, k),
           NEW j \in n + 1 .. Len(stack'), NEW m, m = j - n + k
    PROVE  /\ m \in Depth /\ j \in Depth' /\ stack'[j] = stack[m] /\ ClickAt(j)' = ClickAt(m)
           /\ m \in Nat /\ j \in Nat
           /\ Object(j)'.target = Object(m).target /\ Object(j)'.native = Object(m).native
<1>1. /\ m \in k + 1 .. Len(stack) /\ stack'[j] = stack[m]
      /\ Len(stack') = Len(stack) - k + n /\ Len(stack) \in Nat
  BY Lens DEF Shifted, BaseInv
<1>2. k = 0 \/ k = 1
  OBVIOUS
<1>3. m \in 1 .. Len(stack) /\ j \in 1 .. Len(stack') /\ m \in Nat /\ j \in Nat
  BY <1>1, <1>2
<1>4. stack[m].event \in 1 .. Len(events) /\ stack'[j].event = stack[m].event
  BY <1>1, <1>3 DEF BaseInv, StackInv, Stands, Depth
<1>5. /\ ClickAt(j)' = ClickAt(m)
      /\ Object(j)'.target = Object(m).target /\ Object(j)'.native = Object(m).native
  BY <1>4 DEF ClickAt, Object, Grows
<1> QED BY <1>1, <1>3, <1>5 DEF Depth

\* What a call that a step leaves alone was, and what is around it.
LEMMA Moved ==
    ASSUME BaseInv, BaseInv', Grows, NEW n \in Nat, NEW k \in {0, 1}, Shifted(n, k),
           NEW j \in n + 1 .. Len(stack'), NEW m, m = j - n + k
    PROVE  /\ m \in Depth /\ m \in k + 1 .. Len(stack) /\ j \in Depth' /\ stack'[j] = stack[m]
           /\ m \in Nat /\ j \in Nat
           /\ ClickAt(j)' = ClickAt(m)
           /\ Object(j)'.target = Object(m).target /\ Object(j)'.native = Object(m).native
           /\ \A kinds : Is(j, kinds)' <=> Is(m, kinds)
           /\ \A kinds : Is(j + 1, kinds)' <=> Is(m + 1, kinds)
           /\ Is(m + 1, Kinds) => stack'[j + 1] = stack[m + 1]
           /\ \A d \in {1, 2} : m - d \in k + 1 .. Len(stack) =>
                 /\ j - d \in n + 1 .. Len(stack') /\ stack'[j - d] = stack[m - d]
                 /\ \A kinds : Is(j - d, kinds)' <=> Is(m - d, kinds)
<1>1. /\ m \in k + 1 .. Len(stack) /\ stack'[j] = stack[m] /\ stack' \in Seq(Frame)
      /\ Len(stack') = Len(stack) - k + n /\ Len(stack) \in Nat
      /\ \A i \in n + 1 .. Len(stack') : stack'[i] = stack[i - n + k]
  BY Lens DEF Shifted, BaseInv
<1>2. k = 0 \/ k = 1
  OBVIOUS
<1>3. m \in 1 .. Len(stack) /\ j \in 1 .. Len(stack') /\ Len(stack') - j = Len(stack) - m
      /\ m \in Nat /\ j \in Nat /\ Len(stack) \in Nat /\ Len(stack') \in Nat
  BY <1>1, <1>2
<1>5. /\ ClickAt(j)' = ClickAt(m)
      /\ Object(j)'.target = Object(m).target /\ Object(j)'.native = Object(m).native
  BY MovedCall
<1>6. \A kinds : Is(j, kinds)' <=> Is(m, kinds)
  BY <1>1, <1>3 DEF Is, Depth
<1>7. m + 1 \in Depth <=> j + 1 \in Depth'
  BY <1>3 DEF Depth
<1>8. m + 1 \in Depth => stack'[j + 1] = stack[m + 1]
  <2>1. ASSUME m + 1 \in Depth PROVE stack'[j + 1] = stack[m + 1]
    <3>1. j + 1 \in n + 1 .. Len(stack') /\ (j + 1) - n + k = m + 1
      BY <1>1, <1>2, <1>3, <2>1 DEF Depth
    <3> QED BY <1>1, <3>1
  <2> QED BY <2>1
<1>9. \A kinds : Is(j + 1, kinds)' <=> Is(m + 1, kinds)
  BY <1>7, <1>8 DEF Is
<1>10. ASSUME NEW d \in {1, 2}, m - d \in k + 1 .. Len(stack)
       PROVE  /\ j - d \in n + 1 .. Len(stack') /\ stack'[j - d] = stack[m - d]
              /\ m - d \in Depth /\ j - d \in Depth'
  <2>1. j - d \in n + 1 .. Len(stack') /\ (j - d) - n + k = m - d
    BY <1>1, <1>2, <1>3, <1>10
  <2>2. stack'[j - d] = stack[m - d]
    BY <1>1, <2>1
  <2>3. m - d \in Depth /\ j - d \in Depth'
    BY <1>2, <1>10, <2>1 DEF Depth
  <2> QED BY <2>1, <2>2, <2>3
<1>11. ASSUME NEW d \in {1, 2}, m - d \in k + 1 .. Len(stack)
       PROVE  /\ j - d \in n + 1 .. Len(stack') /\ stack'[j - d] = stack[m - d]
              /\ \A kinds : Is(j - d, kinds)' <=> Is(m - d, kinds)
  BY <1>10, <1>11 DEF Is
<1>12. Is(m + 1, Kinds) => stack'[j + 1] = stack[m + 1]
  BY <1>8 DEF Is
<1>13. m \in Depth /\ j \in Depth'
  BY <1>3 DEF Depth
<1> QED BY <1>1, <1>3, <1>5, <1>6, <1>9, <1>11, <1>12, <1>13

\* Where a call that a step leaves alone goes.
LEMMA MovesTo ==
    ASSUME BaseInv, NEW n \in Nat, NEW k \in {0, 1}, Shifted(n, k), NEW m \in k + 1 .. Len(stack)
    PROVE  m - k + n \in n + 1 .. Len(stack') /\ m = (m - k + n) - n + k
<1>1. Len(stack') = Len(stack) - k + n /\ Len(stack) \in Nat
  BY Lens DEF Shifted, BaseInv
<1>2. k = 0 \/ k = 1
  OBVIOUS
<1> QED BY <1>1, <1>2

\* A call is new or was there.
LEMMA NewOrOld ==
    ASSUME NEW n \in Nat, NEW k, Shifted(n, k), NEW j \in Depth'
    PROVE  j \in 1 .. n \/ j \in n + 1 .. Len(stack')
<1>1. Len(stack') \in Nat
  BY LenProperties DEF Shifted
<1> QED BY <1>1 DEF Depth

-----------------------------------------------------------------------------
(* Default actions.                                                        *)

LEMMA NoDefault ==
    ASSUME BaseInv, TriggeredInv, stack = <<>> \/ ~(stack[1].frame \in {"native", "default"})
    PROVE  ~triggered /\ \A j \in Depth : ~Is(j, {"default"})
<1>1. \A j \in Depth : ~Is(j, {"default"})
  <2>1. ASSUME NEW j \in Depth, Is(j, {"default"}) PROVE FALSE
    <3>1. j = 1 \/ Is(1, {"native"})
      BY <2>1 DEF TriggeredInv
    <3>2. stack # <<>>
      BY <2>1, Lens DEF BaseInv, Depth
    <3> QED BY <2>1, <3>1, <3>2 DEF Is
  <2> QED BY <2>1
<1> QED BY <1>1 DEF TriggeredInv, BaseInv, TypesInv

LEMMA TriggeredKept ==
    ASSUME BaseInv, BaseInv', Grows, TriggeredInv,
           stack = <<>> \/ ~(stack[1].frame \in {"native", "default"}),
           triggered' = triggered, NEW n \in Nat, NEW k \in {0, 1}, Shifted(n, k),
           \A j \in 1 .. n : stack'[j].frame # "default"
    PROVE  TriggeredInv'
<1>1. ~triggered /\ \A j \in Depth : ~Is(j, {"default"})
  BY NoDefault
<1>2. ASSUME NEW j \in Depth' PROVE ~Is(j, {"default"})'
  <2>1. CASE j \in 1 .. n
    BY <2>1 DEF Is
  <2>2. CASE j \in n + 1 .. Len(stack')
    <3> DEFINE m == j - n + k
    <3>1. m \in Depth /\ (Is(j, {"default"})' <=> Is(m, {"default"}))
      BY <2>2, Moved
    <3> QED BY <1>1, <3>1
  <2> QED BY <2>1, <2>2, NewOrOld
<1> QED BY <1>1, <1>2 DEF TriggeredInv

\* Nothing happened to the calls.
LEMMA SameStack ==
    ASSUME BaseInv, UNCHANGED stack
    PROVE  Shifted(0, 0)
BY Lens DEF Shifted, BaseInv, TypesInv

\* The inductive invariant.
EventsInv ==
    BaseInv /\ TriggeredInv /\ LeverageInv /\ OnePassInv /\ UnheardInv /\ DeliveryInv /\ PendingInv

LEMMA NextSplit ==
    ASSUME Next
    PROVE  \/ On \/ Off \/ Trigger \/ RealClick \/ Return \/ VisitNext \/ TriggerDefault \/ EndNext
           \/ CallUser \/ Pass \/ Interrupt \/ Reinvoke \/ Reinvoked \/ Interrupted
BY DEF Next, VisitNext, EndNext

LEMMA BaseNext ==
    ASSUME EventsInv, Next
    PROVE  BaseInv' /\ Grows
<1>1. BaseInv /\ TriggeredInv /\ LeverageInv /\ UnheardInv
  BY DEF EventsInv
<1> QED BY <1>1, NextSplit, OnStep, OffStep, TriggerStep, RealClickStep, ReturnStep, VisitStep,
           TriggerDefaultStep, EndStep, UserStep, PassStep, InterruptStep, ReinvokeStep,
           ReinvokedStep, InterruptedStep

\* What the new calls of a step are.
LEMMA NewCalls ==
    ASSUME BaseInv, NEW ev \in Nat
    PROVE  /\ TriggerFrame(ev).frame = "trigger" /\ TriggerFrame(ev).event = ev
           /\ TriggerFrame(ev).i = 1 /\ TriggerFrame(ev).queue = <<>>
           /\ NativeFrame(ev).frame = "native" /\ NativeFrame(ev).event = ev
           /\ NativeFrame(ev).i = 1 /\ NativeFrame(ev).queue = <<>>
           /\ \A k \in {"user", "default", "interrupt", "reinvoke"} :
                 /\ FrameOf(k, ev).frame = k /\ FrameOf(k, ev).event = ev
                 /\ FrameOf(k, ev).queue = <<>>
BY NewFrame DEF Kinds

\* The events of the calls, and the next event, have numbers.
LEMMA Numbers ==
    ASSUME BaseInv
    PROVE  /\ Len(events) \in Nat /\ Len(events) + 1 \in Nat
           /\ Len(clicks) \in Nat /\ Len(clicks) + 1 \in Nat /\ Len(stack) \in Nat /\ calls \in Nat
           /\ \A j \in Depth : stack[j].event \in 1 .. Len(events) /\ stack[j].event \in Nat
           /\ \A j \in Depth : ClickAt(j) \in 1 .. Len(clicks) /\ Object(j) \in EventObject
           /\ stack # <<>> => 1 \in Depth
<1>1. /\ Len(events) \in Nat /\ Len(clicks) \in Nat /\ Len(stack) \in Nat /\ calls \in Nat
      /\ stack # <<>> => 1 \in Depth
  BY Lens DEF BaseInv, TypesInv, Depth
<1>2. \A j \in Depth : stack[j].event \in 1 .. Len(events)
  BY DEF BaseInv, StackInv, Stands
<1>3. \A j \in Depth : ClickAt(j) \in 1 .. Len(clicks) /\ Object(j) \in EventObject
  BY <1>2, Lens DEF ClickAt, Object, BaseInv, HistoryInv
<1> QED BY <1>1, <1>2, <1>3

LEMMA TriggeredNext ==
    ASSUME EventsInv, Next
    PROVE  TriggeredInv'
<1>1. /\ BaseInv /\ TriggeredInv /\ LeverageInv /\ UnheardInv
      /\ BaseInv' /\ Grows
  BY BaseNext DEF EventsInv
<1>2. CASE On
  <2>1. Shifted(0, 0) /\ triggered' = triggered /\ \A j \in 1 .. 0 : stack'[j].frame # "default"
    BY <1>1, <1>2, OnStep, SameStack
  <2> QED BY <1>1, <1>2, <2>1, OnStep, TriggeredKept
<1>3. CASE Off
  <2>1. Shifted(0, 0) /\ triggered' = triggered /\ \A j \in 1 .. 0 : stack'[j].frame # "default"
    BY <1>1, <1>3, OffStep, SameStack
  <2> QED BY <1>1, <1>3, <2>1, OffStep, TriggeredKept
<1>4. CASE Trigger
  <2>1. /\ Shifted(1, 0) /\ triggered' = triggered
        /\ \A j \in 1 .. 1 : stack'[j].frame # "default"
    BY <1>1, <1>4, TriggerStep, Numbers, NewCalls
  <2> QED BY <1>1, <1>4, <2>1, TriggerStep, TriggeredKept
<1>5. CASE RealClick
  <2>1. /\ Shifted(1, 0) /\ triggered' = triggered
        /\ \A j \in 1 .. 1 : stack'[j].frame # "default"
    BY <1>1, <1>5, RealClickStep, Numbers, NewCalls
  <2> QED BY <1>1, <1>5, <2>1, RealClickStep, TriggeredKept
<1>6. CASE Return
  <2>1. /\ Shifted(0, 1) /\ triggered' = triggered /\ stack[1].frame = "user"
        /\ \A j \in 1 .. 0 : stack'[j].frame # "default"
    BY <1>1, <1>6, ReturnStep
  <2> QED BY <1>1, <2>1, TriggeredKept
<1>7. CASE VisitNext
  <2> DEFINE e == Path(Object(1).target)[stack[1].i]
             next == [stack[1] EXCEPT !.i = @ + 1]
             new == DispatchFrame(stack[1].event, e, HandlerQueue(e, Object(1).target))
  <2>1. /\ stack # <<>> /\ stack[1].frame \in {"trigger", "native"} /\ triggered' = triggered
        /\ \/ triggered /\ Shifted(1, 1) /\ stack'[1] = next
           \/ ~triggered /\ Shifted(1, 1) /\ stack'[1] = next
           \/ ~triggered /\ Shifted(2, 1) /\ stack'[2] = next /\ stack'[1] = new
    BY <1>1, <1>7, VisitStep DEF BaseInv, TypesInv
  <2>2. next.frame = stack[1].frame /\ new.frame = "dispatch" /\ 1 \in Depth
    BY <1>1, <2>1, StackTop DEF BaseInv, Frame, DispatchFrame, Idle, Depth
  <2> HIDE DEF next, new
  <2>3. CASE ~triggered
    <3>1. ASSUME NEW n \in Nat, Shifted(n, 1), \A j \in 1 .. n : stack'[j].frame # "default"
          PROVE  TriggeredInv'
      <4>1. ASSUME NEW j \in Depth' PROVE ~Is(j, {"default"})'
        <5>1. CASE j \in 1 .. n
          BY <3>1, <5>1 DEF Is
        <5>2. CASE j \in n + 1 .. Len(stack')
          <6> DEFINE m == j - n + 1
          <6>1. m \in Depth /\ (Is(j, {"default"})' <=> Is(m, {"default"}))
            BY <1>1, <3>1, <5>2, Moved
          <6> QED BY <1>1, <2>3, <6>1 DEF TriggeredInv
        <5> QED BY <3>1, <5>1, <5>2, NewOrOld
      <4> QED BY <2>1, <2>3, <4>1 DEF TriggeredInv
    <3>2. CASE Shifted(1, 1) /\ stack'[1] = next
      <4>1. \A j \in 1 .. 1 : stack'[j].frame # "default"
        BY <2>1, <2>2, <3>2
      <4> QED BY <3>1, <3>2, <4>1
    <3>3. CASE Shifted(2, 1) /\ stack'[2] = next /\ stack'[1] = new
      <4>1. \A j \in 1 .. 2 : stack'[j].frame # "default"
        BY <2>1, <2>2, <3>3
      <4> QED BY <3>1, <3>3, <4>1
    <3> QED BY <2>1, <2>3, <3>2, <3>3
  <2>4. CASE triggered
    <3>1. Shifted(1, 1) /\ stack'[1] = next /\ triggered'
      BY <2>1, <2>4
    <3>2. PICK d \in Depth : Is(d, {"default"})
      BY <1>1, <2>4 DEF TriggeredInv
    <3>3. d = 2 /\ stack[1].frame = "native"
      BY <1>1, <2>1, <3>2 DEF TriggeredInv, Is
    <3>4. 2 \in 1 + 1 .. Len(stack') /\ 2 = 2 - 1 + 1
      BY <3>1, <3>2, <3>3 DEF Shifted, Depth
    <3>5. Is(2, {"default"})' /\ 2 \in Depth'
      BY <1>1, <3>1, <3>2, <3>3, <3>4, Moved
    <3>6. Is(1, {"native"})'
      BY <2>2, <3>1, <3>3, <3>4, Numbers DEF Is, Depth
    <3>7. ASSUME NEW j \in Depth', Is(j, {"default"})' PROVE j = 2
      <4>1. CASE j \in 1 .. 1
        BY <3>6, <3>7, <4>1 DEF Is
      <4>2. CASE j \in 1 + 1 .. Len(stack')
        <5>1. j = j - 1 + 1
          BY <4>2
        <5>2. j \in Depth /\ Is(j, {"default"}) /\ j # 1
          BY <1>1, <3>1, <3>7, <4>2, <5>1, Moved
        <5> QED BY <1>1, <5>2 DEF TriggeredInv
      <4> QED BY <3>1, <4>1, <4>2, NewOrOld
    <3> QED BY <3>1, <3>5, <3>6, <3>7 DEF TriggeredInv
  <2> QED BY <2>3, <2>4
<1>8. CASE TriggerDefault
  <2>1. /\ triggered' = TRUE /\ stack # <<>> /\ stack[1].frame = "trigger" /\ Shifted(2, 1)
        /\ stack'[1] = NativeFrame(Len(events) + 1) /\ stack'[2] = FrameOf("default", stack[1].event)
    BY <1>1, <1>8, TriggerDefaultStep
  <2>2. stack'[1].frame = "native" /\ stack'[2].frame = "default"
    BY <1>1, <2>1, Numbers, NewCalls
  <2>3. \A j \in Depth : ~Is(j, {"default"})
    BY <1>1, <2>1, NoDefault
  <2>4. 1 \in Depth' /\ 2 \in Depth'
    BY <1>1, <2>1, StackTop DEF Shifted, Depth, BaseInv
  <2>5. ASSUME NEW j \in Depth', Is(j, {"default"})' PROVE j = 2
    <3>1. CASE j \in 1 .. 2
      BY <2>2, <2>5, <3>1 DEF Is
    <3>2. CASE j \in 2 + 1 .. Len(stack')
      <4> DEFINE m == j - 2 + 1
      <4>1. m \in Depth /\ Is(m, {"default"})
        BY <1>1, <2>1, <2>5, <3>2, Moved
      <4> QED BY <2>3, <4>1
    <3> QED BY <2>1, <3>1, <3>2, NewOrOld
  <2> QED BY <2>1, <2>2, <2>4, <2>5 DEF TriggeredInv, Is
<1>9. CASE EndNext
  <2>1. /\ stack # <<>> /\ Shifted(0, 1)
        /\ triggered' = IF stack[1].frame = "default" THEN FALSE ELSE triggered
    BY <1>1, <1>9, EndStep
  <2>2. 1 \in Depth
    BY <1>1, <2>1, Numbers
  <2>3. ASSUME NEW j \in Depth'
        PROVE  j + 1 \in Depth /\ (Is(j, {"default"})' <=> Is(j + 1, {"default"}))
    <3>1. j \in 0 + 1 .. Len(stack') /\ j + 1 = j - 0 + 1
      BY <1>1, Numbers DEF Depth
    <3> QED BY <1>1, <2>1, <3>1, Moved
  <2>4. ASSUME NEW m \in Depth, Is(m, {"default"}), m # 1
        PROVE  m - 1 \in Depth' /\ Is(m - 1, {"default"})' /\ m = 2 /\ Is(1, {"native"})
    <3>1. m = 2 /\ Is(1, {"native"})
      BY <1>1, <2>4 DEF TriggeredInv
    <3>2. m - 1 \in Depth'
      BY <1>1, <2>1, <3>1, Numbers DEF Depth, Shifted
    <3>3. (m - 1) + 1 = m
      BY <3>1
    <3> QED BY <2>3, <2>4, <3>1, <3>2, <3>3
  <2>5. CASE stack[1].frame = "default"
    <3>1. ASSUME NEW j \in Depth' PROVE ~Is(j, {"default"})'
      <4>1. j + 1 # 1
        BY DEF Depth
      <4> QED BY <2>3, <2>4, <2>5, <4>1 DEF Is
    <3> QED BY <2>1, <2>5, <3>1 DEF TriggeredInv
  <2>6. CASE stack[1].frame # "default"
    <3>1. ASSUME NEW j \in Depth', Is(j, {"default"})' PROVE j = 1 /\ triggered
      <4>1. j + 1 # 1 /\ j \in Nat
        BY DEF Depth
      <4>2. j + 1 \in Depth /\ Is(j + 1, {"default"}) /\ j + 1 = 2
        BY <2>3, <2>4, <3>1, <4>1
      <4> QED BY <1>1, <4>1, <4>2 DEF TriggeredInv
    <3>2. ASSUME triggered PROVE \E j \in Depth' : Is(j, {"default"})'
      <4>1. PICK m \in Depth : Is(m, {"default"})
        BY <1>1, <3>2 DEF TriggeredInv
      <4>2. m # 1
        BY <2>6, <4>1 DEF Is
      <4> QED BY <2>4, <4>1, <4>2
    <3> QED BY <2>1, <2>6, <3>1, <3>2 DEF TriggeredInv
  <2> QED BY <2>5, <2>6
<1>10. ASSUME NEW n \in Nat, Shifted(n, 1), triggered' = triggered,
              stack # <<>>, ~(stack[1].frame \in {"native", "default"}),
              \A j \in 1 .. n : stack'[j].frame # "default"
       PROVE  TriggeredInv'
  BY <1>1, <1>10, TriggeredKept
<1>11. CASE CallUser
  <2>1. /\ Shifted(2, 1) /\ triggered' = triggered /\ stack # <<>> /\ stack[1].frame = "dispatch"
        /\ stack'[1] = FrameOf("user", stack[1].event) /\ stack'[2] = Following
        /\ Following.frame = "dispatch"
    BY <1>1, <1>11, UserStep, CalleeIs
  <2>2. \A j \in 1 .. 2 : stack'[j].frame # "default"
    BY <1>1, <2>1, Numbers, NewCalls
  <2> QED BY <1>10, <2>1, <2>2
<1>12. CASE Pass
  <2>1. /\ Shifted(1, 1) /\ triggered' = triggered /\ stack # <<>> /\ stack[1].frame = "dispatch"
        /\ stack'[1] = Following /\ Following.frame = "dispatch"
    BY <1>1, <1>12, PassStep, CalleeIs
  <2>2. \A j \in 1 .. 1 : stack'[j].frame # "default"
    BY <2>1
  <2> QED BY <1>10, <2>1, <2>2
<1>13. CASE Interrupt
  <2>1. /\ Shifted(3, 1) /\ triggered' = triggered /\ stack # <<>> /\ stack[1].frame = "dispatch"
        /\ stack'[1] = NativeFrame(Len(events) + 1) /\ stack'[2] = FrameOf("interrupt", stack[1].event)
        /\ stack'[3] = Following /\ Following.frame = "dispatch"
    BY <1>1, <1>13, InterruptStep, CalleeIs
  <2>2. \A j \in 1 .. 3 : stack'[j].frame # "default"
    BY <1>1, <2>1, Numbers, NewCalls
  <2> QED BY <1>10, <2>1, <2>2
<1>14. CASE Reinvoke
  <2>1. /\ Shifted(3, 1) /\ triggered' = triggered /\ stack # <<>> /\ stack[1].frame = "dispatch"
        /\ stack'[1] = TriggerFrame(stack[3].event) /\ stack'[2] = FrameOf("reinvoke", stack[1].event)
        /\ stack'[3] = Following /\ Following.frame = "dispatch" /\ stack[3].event \in Nat
    <3>1. 3 \in Depth
      BY <1>1, <1>14, ReinvokeStep, ReinvokedWhere DEF Is
    <3> QED BY <1>1, <1>14, <3>1, ReinvokeStep, CalleeIs, Numbers
  <2>2. \A j \in 1 .. 3 : stack'[j].frame # "default"
    BY <1>1, <2>1, Numbers, NewCalls
  <2> QED BY <1>10, <2>1, <2>2
<1>15. CASE Reinvoked \/ Interrupted
  <2>1. /\ Shifted(0, 1) /\ triggered' = triggered /\ stack # <<>>
        /\ stack[1].frame \in {"reinvoke", "interrupt"} /\ \A j \in 1 .. 0 : stack'[j].frame # "default"
    BY <1>1, <1>15, ReinvokedStep, InterruptedStep
  <2> QED BY <1>10, <2>1
<1> QED BY <1>2, <1>3, <1>4, <1>5, <1>6, <1>7, <1>8, <1>9, <1>11, <1>12, <1>13, <1>14, <1>15, NextSplit

-----------------------------------------------------------------------------
(* The leveraged native click.                                             *)

\* Under the two innermost calls the event is being triggered again.
LEMMA Deep ==
    ASSUME BaseInv, LeverageInv, NEW m \in Depth, Leveraged(m)
    PROVE  /\ m = 1 => stack[1].frame = "native" /\ Stage(1)
           /\ m = 2 => stack[1].frame = "dispatch" /\ Stage(2)
           /\ m # 1 /\ m # 2 => m > 2 /\ Is(m - 2, {"reinvoke"})
           /\ stack[1].frame # "reinvoke" /\ m # 1 /\ m # 2 => m > 2 /\ m - 2 \in 2 .. Len(stack)
<1>1. m \in 1 .. Len(stack) /\ Len(stack) \in Nat
  BY Numbers DEF Depth
<1>2. Stage(m) /\ Is(m, {"native"})
  BY DEF LeverageInv, Leveraged
<1>3. m = 1 => stack[1].frame = "native" /\ Stage(1)
  BY <1>2 DEF Is
<1>4. m = 2 => stack[1].frame = "dispatch" /\ Stage(2)
  <2>1. m = 2 => Is(1, {"dispatch"})
    BY <1>2 DEF Stage
  <2> QED BY <1>2, <2>1 DEF Is
<1>5. m # 1 /\ m # 2 => m > 2 /\ Is(m - 2, {"reinvoke"})
  BY <1>2 DEF Stage
<1>6. stack[1].frame # "reinvoke" /\ m # 1 /\ m # 2 => m > 2 /\ m - 2 \in 2 .. Len(stack)
  <2>1. ASSUME stack[1].frame # "reinvoke", m # 1, m # 2 PROVE m > 2 /\ m - 2 \in 2 .. Len(stack)
    <3>1. m > 2 /\ m - 2 # 1
      BY <1>5, <2>1 DEF Is
    <3> QED BY <1>1, <3>1
  <2> QED BY <2>1
<1> QED BY <1>3, <1>4, <1>5, <1>6

LEMMA LeverageKept ==
    ASSUME BaseInv, BaseInv', Grows, LeverageInv, NEW n \in Nat, NEW k \in {0, 1}, Shifted(n, k),
           \A j \in 1 .. n : Leveraged(j)' => Stage(j)',
           \A m \in k + 1 .. Len(stack) : Leveraged(m) =>
               \/ m > 2 /\ m - 2 \in k + 1 .. Len(stack) /\ Is(m - 2, {"reinvoke"})
               \/ \A j \in Nat : j = m - k + n => Stage(j)',
           saved'.is \in {"args", "captured"} =>
               \/ \E m \in k + 1 .. Len(stack) : Is(m, {"interrupt"})
               \/ \E j \in Depth' : Is(j, {"interrupt"})',
           Is(1, {"interrupt"})' => saved' = Captured
    PROVE  LeverageInv'
<1>1. ASSUME NEW j \in Depth', Leveraged(j)' PROVE Stage(j)'
  <2>1. CASE j \in 1 .. n
    BY <1>1, <2>1
  <2>2. CASE j \in n + 1 .. Len(stack')
    <3>1. PICK m : m = j - n + k
      OBVIOUS
    <3>2. m \in k + 1 .. Len(stack) /\ Leveraged(m) /\ m \in Nat /\ j \in Nat
      BY <1>1, <2>2, <3>1, Moved DEF Leveraged
    <3>3. j = m - k + n
      BY <3>1, <3>2
    <3>4. CASE m > 2 /\ m - 2 \in k + 1 .. Len(stack) /\ Is(m - 2, {"reinvoke"})
      <4>1. j - 2 \in n + 1 .. Len(stack') /\ Is(j - 2, {"reinvoke"})'
        <5>1. \A d \in {1, 2} : m - d \in k + 1 .. Len(stack) =>
                  /\ j - d \in n + 1 .. Len(stack')
                  /\ \A kinds : Is(j - d, kinds)' <=> Is(m - d, kinds)
          BY <2>2, <3>1, Moved
        <5> QED BY <3>4, <5>1
      <4>2. j > 2
        BY <3>2, <4>1
      <4> QED BY <4>1, <4>2 DEF Stage
    <3>5. CASE \A l \in Nat : l = m - k + n => Stage(l)'
      BY <3>2, <3>3, <3>5
    <3> QED BY <3>2, <3>4, <3>5
  <2> QED BY <2>1, <2>2, NewOrOld
<1>2. (\E m \in k + 1 .. Len(stack) : Is(m, {"interrupt"})) => \E j \in Depth' : Is(j, {"interrupt"})'
  <2>1. ASSUME NEW m \in k + 1 .. Len(stack), Is(m, {"interrupt"})
        PROVE  \E j \in Depth' : Is(j, {"interrupt"})'
    <3>1. PICK j : j = m - k + n
      OBVIOUS
    <3>2. j \in n + 1 .. Len(stack') /\ m = j - n + k
      BY <3>1, MovesTo
    <3>3. j \in Depth' /\ Is(j, {"interrupt"})'
      BY <2>1, <3>2, Moved
    <3> QED BY <3>3
  <2> QED BY <2>1
<1> QED BY <1>1, <1>2 DEF LeverageInv

LEMMA OldInterrupt ==
    ASSUME BaseInv, LeverageInv, saved.is \in {"args", "captured"}
    PROVE  /\ \E m \in 1 .. Len(stack) : Is(m, {"interrupt"})
           /\ stack[1].frame # "interrupt" => \E m \in 2 .. Len(stack) : Is(m, {"interrupt"})
<1>1. PICK m \in Depth : Is(m, {"interrupt"})
  BY DEF LeverageInv
<1>2. m \in 1 .. Len(stack) /\ Len(stack) \in Nat
  BY <1>1, Numbers DEF Depth
<1>3. stack[1].frame # "interrupt" => m # 1
  BY <1>1 DEF Is
<1>4. m # 1 => m \in 2 .. Len(stack)
  BY <1>2
<1> QED BY <1>1, <1>2, <1>3, <1>4

\* What was under the innermost call is under n others, or on top.
LEMMA Beneath ==
    ASSUME BaseInv, BaseInv', Grows, stack # <<>>, NEW n \in Nat, Shifted(n, 1)
    PROVE  /\ \A kinds : Is(n + 1, kinds)' <=> Is(2, kinds)
           /\ 2 \in Depth => n + 1 \in Depth' /\ stack'[n + 1] = stack[2] /\ n + 1 \in n + 1 .. Len(stack')
           /\ n + 1 \in Depth' => 2 \in Depth
<1>1. Len(stack') = Len(stack) - 1 + n /\ Len(stack) \in Nat /\ Len(stack') \in Nat
  BY Lens DEF Shifted, BaseInv
<1>2. n + 1 \in Depth' <=> 2 \in Depth
  BY <1>1 DEF Depth
<1>3. ASSUME 2 \in Depth PROVE n + 1 \in n + 1 .. Len(stack') /\ stack'[n + 1] = stack[2]
  <2>1. n + 1 \in n + 1 .. Len(stack') /\ (n + 1) - n + 1 = 2
    BY <1>1, <1>3 DEF Depth
  <2> QED BY <2>1 DEF Shifted
<1> QED BY <1>2, <1>3 DEF Is

LEMMA Alone ==
    ASSUME NEW L, L = 1 PROVE 1 + 1 \notin 1 .. L
OBVIOUS

LEMMA Aside ==
    ASSUME NEW L \in Nat, 2 \in 1 .. L PROVE 1 # L
OBVIOUS

\* The user's calls.
LEMMA LeverageUser ==
    ASSUME BaseInv, BaseInv', Grows, LeverageInv, stack = <<>> \/ stack[1].frame = "user",
           NEW n \in {0, 1}, Shifted(n, 0), saved' = saved \/ saved' = False,
           n = 0 => stack' = stack,
           n = 1 => stack'[1].frame = "trigger" \/ (stack'[1].frame = "native" /\ Len(stack') = 1)
    PROVE  LeverageInv'
<1>1. ASSUME NEW m \in 0 + 1 .. Len(stack), Leveraged(m)
      PROVE  m > 2 /\ m - 2 \in 0 + 1 .. Len(stack) /\ Is(m - 2, {"reinvoke"})
  <2>1. m \in Depth /\ Len(stack) \in Nat
    BY Numbers DEF Depth
  <2>2. stack # <<>>
    BY <2>1, Lens DEF BaseInv, Depth
  <2>3. m # 1 /\ m # 2 /\ m > 2 /\ Is(m - 2, {"reinvoke"})
    BY <1>1, <2>1, <2>2, Deep
  <2> QED BY <2>1, <2>3
<1>2. ASSUME NEW j \in 1 .. n PROVE ~Leveraged(j)'
  <2>1. n = 1 /\ j = 1
    OBVIOUS
  <2>2. stack'[1].frame = "native" => 1 + 1 \notin Depth'
    <3>1. stack'[1].frame = "native" => Len(stack') = 1
      BY <2>1
    <3> QED BY <3>1, Alone DEF Depth
  <2> QED BY <2>1, <2>2 DEF Leveraged, Is
<1>3. ~Is(1, {"interrupt"})'
  <2>1. stack = <<>> => 1 \notin Depth
    BY Lens DEF BaseInv, Depth
  <2>2. n = 0 => ~Is(1, {"interrupt"})'
    BY <2>1 DEF Is, Depth
  <2>3. n = 1 => ~Is(1, {"interrupt"})'
    BY DEF Is
  <2> QED BY <2>2, <2>3
<1>4. saved'.is \in {"args", "captured"} => \E m \in 0 + 1 .. Len(stack) : Is(m, {"interrupt"})
  <2>1. saved'.is \in {"args", "captured"} => saved' = saved
    BY DEF False
  <2> QED BY <2>1, OldInterrupt
<1>5. n \in Nat /\ 0 \in {0, 1}
  OBVIOUS
<1> QED BY <1>1, <1>2, <1>3, <1>4, <1>5, LeverageKept

\* A call ends, or makes calls, under which nothing is native or interrupts.
LEMMA LeverageOther ==
    ASSUME BaseInv, BaseInv', Grows, LeverageInv, stack # <<>>, NEW n \in Nat, Shifted(n, 1),
           stack[1].frame # "reinvoke",
           \A j \in 1 .. n : Leveraged(j)' => Stage(j)',
           Leveraged(2) => \A j \in Nat : j = 2 - 1 + n => Stage(j)',
           \/ saved' = saved /\ stack[1].frame # "interrupt"
           \/ saved'.is = "false"
           \/ \E j \in Depth' : Is(j, {"interrupt"})',
           Is(1, {"interrupt"})' => saved' = Captured
    PROVE  LeverageInv'
<1>1. ASSUME NEW m \in 1 + 1 .. Len(stack), Leveraged(m)
      PROVE  \/ m > 2 /\ m - 2 \in 1 + 1 .. Len(stack) /\ Is(m - 2, {"reinvoke"})
             \/ \A j \in Nat : j = m - 1 + n => Stage(j)'
  <2>1. m \in Depth /\ Len(stack) \in Nat /\ m # 1
    BY Numbers DEF Depth
  <2>2. CASE m = 2
    BY <1>1, <2>2
  <2>3. CASE m # 2
    BY <1>1, <2>1, <2>3, Deep
  <2> QED BY <2>2, <2>3
<1>2. saved'.is \in {"args", "captured"} =>
               \/ \E m \in 1 + 1 .. Len(stack) : Is(m, {"interrupt"})
               \/ \E j \in Depth' : Is(j, {"interrupt"})'
  BY OldInterrupt
<1> QED BY <1>1, <1>2, LeverageKept

LEMMA LeverageVisit ==
    ASSUME EventsInv, VisitNext
    PROVE  LeverageInv'
<1>1. /\ BaseInv /\ TriggeredInv /\ LeverageInv /\ BaseInv' /\ Grows
  BY VisitStep DEF EventsInv
<1> DEFINE e == Path(Object(1).target)[stack[1].i]
           next == [stack[1] EXCEPT !.i = @ + 1]
           q == HandlerQueue(e, Object(1).target)
           new == DispatchFrame(stack[1].event, e, q)
<1>2. /\ stack # <<>> /\ stack[1].frame \in {"trigger", "native"} /\ ~Object(1).stopped
      /\ UNCHANGED <<saved, events, handlers>> /\ e \in Elements
      /\ \/ (handlers[e] = <<>> \/ triggered) /\ Shifted(1, 1) /\ stack'[1] = next
         \/ handlers[e] # <<>> /\ ~triggered /\ Shifted(2, 1) /\ stack'[2] = next /\ stack'[1] = new
  BY <1>1, VisitStep DEF registry
<1>3. /\ 1 \in Depth /\ stack[1] \in Frame /\ Object(1).target \in Elements
      /\ stack[1].event \in Nat
  BY <1>1, <1>2, Numbers, StackTop DEF BaseInv, EventObject
<1>4. /\ next.frame = stack[1].frame /\ next.event = stack[1].event /\ new.frame = "dispatch"
      /\ new.queue = q
  <2>1. q \in Seq(Elements \X Handle)
    BY <1>1, <1>2, <1>3, QueueOf DEF BaseInv
  <2> HIDE DEF q, e
  <2>2. new.frame = "dispatch" /\ new.queue = q
    BY <1>2, <1>3, <2>1, NewFrames
  <2>3. next.frame = stack[1].frame /\ next.event = stack[1].event
    BY <1>3 DEF Frame
  <2> QED BY <2>2, <2>3
<1>5. ~Leveraged(2)
  BY <1>1, <1>2, Deep DEF Leveraged, Is
\* At the box: the leveraging handler is the first of its queue.
<1>6. ASSUME Leveraged(1)
      PROVE  /\ ~triggered /\ handlers[e] # <<>> /\ Fresh(1) /\ q # <<>> /\ Head(q)[2] = Leverage
             /\ saved = Args(stack[2].event)
  <2>1. /\ stack[1].i = 1 /\ Object(1).target = "box" /\ Fresh(1) /\ handlers["box"] # <<>>
        /\ saved = Args(stack[2].event)
    BY <1>1, <1>2, <1>3, <1>6, Deep DEF Stage
  <2>2. e = "box"
    BY <2>1, Paths
  <2>3. ~triggered
    BY <1>1, <1>6 DEF TriggeredInv, Leveraged, Is
  <2>4. /\ q \in Seq(Elements \X Handle) /\ Len(q) = Len(handlers["box"])
        /\ \A k \in 1 .. Len(q) : q[k][2] = handlers["box"][k]
    <3>1. /\ q \in Seq(Elements \X Handle)
          /\ Len(q) = Len(handlers["box"]) - Offset("box", "box")
          /\ \A k \in 1 .. Len(q) : q[k][2] = handlers["box"][k + Offset("box", "box")]
      <4>1. q = HandlerQueue("box", "box") /\ TypesInv /\ RegistryInv /\ "box" \in Elements
        BY <1>1, <2>1, <2>2, Paths DEF BaseInv
      <4> HIDE DEF q
      <4> QED BY <4>1, QueueOf
    <3>2. Offset("box", "box") = 0 /\ Len(handlers["box"]) \in Nat
      BY <1>1, Paths, LenProperties DEF Offset, BaseInv, RegistryInv, TypesInv
    <3> HIDE DEF q
    <3> QED BY <3>1, <3>2
  <2>5. handlers["box"][1] = Leverage /\ Len(handlers["box"]) \in Nat \ {0}
    BY <1>1, <2>1, Paths, EmptySeq DEF BaseInv, RegistryInv, TypesInv
  <2> HIDE DEF q
  <2>6. q # <<>> /\ Head(q) = q[1] /\ q[1][2] = Leverage
    BY <2>4, <2>5, EmptySeq
  <2> QED BY <2>1, <2>2, <2>3, <2>6
<1> HIDE DEF next, new, q, e
<1>7. CASE (handlers[e] = <<>> \/ triggered) /\ Shifted(1, 1) /\ stack'[1] = next
  <2>1. ~Leveraged(1)
    BY <1>6, <1>7
  <2>2. ~Leveraged(1)'
    <3>2. Is(1 + 1, {"interrupt"})' => Is(2, {"interrupt"})
      BY <1>1, <1>2, <1>7, Beneath
    <3>3. Is(1, {"native"})' => Is(1, {"native"})
      BY <1>3, <1>4, <1>7 DEF Is
    <3> QED BY <2>1, <3>2, <3>3 DEF Leveraged
  <2>3. ~Is(1, {"interrupt"})'
    BY <1>2, <1>4, <1>7 DEF Is
  <2>4. \A j \in 1 .. 1 : ~Leveraged(j)'
    BY <2>2
  <2> QED BY <1>1, <1>2, <1>5, <1>7, <2>3, <2>4, LeverageOther
<1>8. CASE handlers[e] # <<>> /\ ~triggered /\ Shifted(2, 1) /\ stack'[2] = next /\ stack'[1] = new
  <2>1. 1 \in Depth' /\ 2 \in Depth'
    BY <1>1, <1>2, <1>8, StackTop DEF Shifted, Depth, BaseInv
  <2>2. ~Leveraged(1)' /\ ~Is(1, {"interrupt"})'
    BY <1>4, <1>8 DEF Leveraged, Is
  <2>3. ASSUME Leveraged(2)' PROVE Stage(2)'
    <3>2. Is(2, {"interrupt"}) /\ stack'[3] = stack[2]
      <4>1. /\ \A kinds : Is(2 + 1, kinds)' <=> Is(2, kinds)
            /\ 2 \in Depth => stack'[2 + 1] = stack[2]
        BY <1>1, <1>2, <1>8, Beneath
      <4>2. Is(2 + 1, {"interrupt"})'
        BY <2>3 DEF Leveraged
      <4>3. Is(2, {"interrupt"})
        BY <4>1, <4>2
      <4>4. stack'[2 + 1] = stack[2] /\ 2 + 1 = 3
        BY <4>1, <4>3 DEF Is
      <4> QED BY <4>3, <4>4
    <3>3. Leveraged(1)
      BY <1>3, <1>4, <1>8, <2>3, <3>2 DEF Leveraged, Is
    <3>4. /\ Fresh(1) /\ q # <<>> /\ Head(q)[2] = Leverage /\ saved = Args(stack[2].event)
      BY <1>6, <3>3
    <3>5. Object(2)' = Object(1) /\ Is(1, {"dispatch"})'
      BY <1>2, <1>4, <1>8, <2>1 DEF Object, Is
    <3>6. Fresh(2)'
      BY <3>4, <3>5 DEF Fresh
    <3> QED BY <1>2, <1>4, <1>8, <3>2, <3>4, <3>5, <3>6 DEF Stage
  <2>4. \A j \in 1 .. 2 : Leveraged(j)' => Stage(j)'
    BY <2>2, <2>3
  <2> QED BY <1>1, <1>2, <1>5, <1>8, <2>2, <2>4, LeverageOther
<1> QED BY <1>2, <1>7, <1>8

\* What is under the innermost call, by its kind.
LEMMA UnderTop ==
    ASSUME BaseInv, stack # <<>>
    PROVE  /\ stack[1].frame = "user" => Is(2, {"dispatch"}) /\ stack[2].event = stack[1].event
           /\ stack[1].frame = "dispatch" => Walks(2) /\ stack[2].event = stack[1].event
           /\ stack[1].frame \in {"trigger", "default"} => ~Is(2, {"interrupt", "default"})
           /\ stack[1].frame = "interrupt" =>
                 Is(2, {"dispatch"}) /\ stack[2].event = stack[1].event
           /\ stack[1].frame = "reinvoke" =>
                 /\ Is(2, {"dispatch"}) /\ stack[2].event = stack[1].event
                 /\ Is(3, {"native"}) /\ stack[3].event = stack[1].event
                 /\ Is(4, {"interrupt"})
           /\ stack[1].frame # "interrupt" /\ stack[1].frame # "reinvoke" /\ Is(2, {"interrupt"}) =>
                 Is(1, {"native"})
           /\ stack[1].frame \in Kinds
<1>1. 1 \in Depth /\ Stands(1) /\ stack[1] \in Frame /\ Len(stack) \in Nat
  BY Numbers, StackTop DEF BaseInv, StackInv
<1>2. 2 \in Depth => 1 # Len(stack)
  BY <1>1, Aside DEF Depth
<1>3. stack[1].frame \in {"trigger", "default"} => ~Is(2, {"interrupt", "default"})
  BY <1>1, <1>2 DEF Stands, Is
<1>4. stack[1].frame = "reinvoke" =>
                 /\ Is(2, {"dispatch"}) /\ stack[2].event = stack[1].event
                 /\ Is(3, {"native"}) /\ stack[3].event = stack[1].event
                 /\ Is(4, {"interrupt"})
  <2>1. stack[1].frame = "reinvoke" =>
            /\ Is(2, {"dispatch"}) /\ stack[2].event = stack[1].event
            /\ Is(3, {"native"}) /\ Is(4, {"interrupt"})
    BY <1>1 DEF Stands
  <2>2. Is(2, {"dispatch"}) => stack[3].event = stack[2].event
    BY DEF BaseInv, StackInv, Stands, Is
  <2> QED BY <2>1, <2>2
<1>5. stack[1].frame = "user" => Is(2, {"dispatch"}) /\ stack[2].event = stack[1].event
  BY <1>1 DEF Stands
<1>6. stack[1].frame = "dispatch" => Walks(2) /\ stack[2].event = stack[1].event
  BY <1>1 DEF Stands
<1>7. stack[1].frame = "interrupt" => Is(2, {"dispatch"}) /\ stack[2].event = stack[1].event
  BY <1>1 DEF Stands
<1>8. stack[1].frame \in Kinds
  BY <1>1 DEF Frame
<1>9. stack[1].frame # "interrupt" /\ stack[1].frame # "reinvoke" /\ Is(2, {"interrupt"}) =>
          Is(1, {"native"})
  BY <1>1, <1>3, <1>5, <1>6, <1>8 DEF Kinds, Is, Walks
<1> QED BY <1>3, <1>4, <1>5, <1>6, <1>7, <1>8, <1>9

LEMMA LeverageEnd ==
    ASSUME EventsInv, EndNext
    PROVE  LeverageInv'
<1>1. /\ BaseInv /\ TriggeredInv /\ LeverageInv /\ BaseInv' /\ Grows
      /\ UNCHANGED <<saved, events>> /\ stack # <<>> /\ Shifted(0, 1)
      /\ stack[1].frame \in {"trigger", "native", "dispatch", "default"}
      /\ stack[1].frame \in {"trigger", "native"} =>
                 Object(1).stopped \/ stack[1].i > Len(Path(Object(1).target))
      /\ stack[1].frame = "dispatch" =>
                 stack[1].queue = <<>> \/ Object(1).immediate \/ Object(1).stopped
  BY EndStep DEF EventsInv
<1>2. ASSUME Leveraged(2) PROVE Stage(1)'
  <2>1. /\ Stage(2) /\ stack[1].frame = "dispatch" /\ 2 \in Depth
    BY <1>1, <1>2, Deep DEF Leveraged, Is
  <2>2. Object(2) = Object(1)
    BY <1>1, <2>1, UnderTop DEF Object
  <2>3. Object(2).immediate /\ saved = Captured
    BY <1>1, <2>1, <2>2 DEF Stage, Fresh
  <2>4. Object(2).stopped
    BY <1>1, <2>1, <2>3, Numbers DEF Object, BaseInv, HistoryInv
  <2>5. stack'[0 + 1] = stack[2]
    BY <1>1, <2>1, Beneath
  <2>6. Object(1)' = Object(2)
    BY <1>1, <2>5 DEF Object
  <2> QED BY <1>1, <2>3, <2>4, <2>6 DEF Stage
<1>3. ASSUME Is(1, {"interrupt"})' PROVE saved' = Captured
  <2>1. Is(2, {"interrupt"})
    <3>1. \A kinds : Is(0 + 1, kinds)' <=> Is(2, kinds)
      BY <1>1, Beneath
    <3> QED BY <1>3, <3>1
  <2>2. Is(1, {"native"}) /\ 1 \in Depth
    BY <1>1, <2>1, UnderTop DEF Is
  <2>3. Stage(1) /\ stack[1].frame = "native"
    <3>1. Leveraged(1)
      BY <2>1, <2>2 DEF Leveraged
    <3>2. 1 = 1 => stack[1].frame = "native" /\ Stage(1)
      BY <1>1, <2>2, <3>1, Deep
    <3> QED BY <3>2
  <2>4. ~(stack[1].i = 1 /\ Object(1).target = "box" /\ Fresh(1))
    <3>1. Object(1).stopped \/ stack[1].i > Len(Path(Object(1).target))
      BY <1>1, <2>3
    <3> QED BY <3>1, Paths DEF Fresh
  <2> QED BY <1>1, <2>3, <2>4 DEF Stage
<1>4. \A j \in Nat : j = 2 - 1 + 0 => j = 1
  OBVIOUS
<1>5. Leveraged(2) => \A j \in Nat : j = 2 - 1 + 0 => Stage(j)'
  BY <1>2, <1>4
<1>6. \A j \in 1 .. 0 : Leveraged(j)' => Stage(j)'
  OBVIOUS
<1>7. stack[1].frame # "reinvoke" /\ stack[1].frame # "interrupt"
  BY <1>1
<1> QED BY <1>1, <1>3, <1>5, <1>6, <1>7, LeverageOther

LEMMA LeverageReturn ==
    ASSUME EventsInv, Return
    PROVE  LeverageInv'
<1>1. /\ BaseInv /\ LeverageInv /\ BaseInv' /\ Grows
      /\ saved' = saved /\ stack # <<>> /\ Shifted(0, 1) /\ stack[1].frame = "user"
  BY ReturnStep DEF EventsInv
<1>2. ~Leveraged(2) /\ Is(2, {"dispatch"})
  BY <1>1, UnderTop, Deep DEF Leveraged, Is
<1>3. ~Is(1, {"interrupt"})'
  <2>1. \A kinds : Is(0 + 1, kinds)' <=> Is(2, kinds)
    BY <1>1, Beneath
  <2>2. ~Is(2, {"interrupt"})
    BY <1>2 DEF Is
  <2> QED BY <2>1, <2>2
<1>4. \A j \in 1 .. 0 : Leveraged(j)' => Stage(j)'
  OBVIOUS
<1> QED BY <1>1, <1>2, <1>3, <1>4, LeverageOther

LEMMA LeverageDefault ==
    ASSUME EventsInv, TriggerDefault
    PROVE  LeverageInv'
<1>1. /\ BaseInv /\ LeverageInv /\ BaseInv' /\ Grows
      /\ saved' = saved /\ stack # <<>> /\ Shifted(2, 1) /\ stack[1].frame = "trigger"
      /\ stack'[1] = NativeFrame(Len(events) + 1) /\ stack'[2] = FrameOf("default", stack[1].event)
  BY TriggerDefaultStep DEF EventsInv
<1>2. stack'[1].frame = "native" /\ stack'[2].frame = "default"
  BY <1>1, Numbers, NewCalls
<1>3. ~Leveraged(2)
  BY <1>1, Deep DEF Leveraged, Is
<1>4. \A j \in 1 .. 2 : ~Leveraged(j)'
  BY <1>2 DEF Leveraged, Is
<1>5. ~Is(1, {"interrupt"})'
  BY <1>2 DEF Is
<1> QED BY <1>1, <1>3, <1>4, <1>5, LeverageOther

\* The next of a queue is not the leveraging handler, or does nothing: then it
\* is not the leveraged native click.
LEMMA LeverageCall ==
    ASSUME EventsInv, CallUser \/ Pass
    PROVE  LeverageInv'
<1>1. /\ BaseInv /\ LeverageInv /\ BaseInv' /\ Grows
      /\ saved' = saved /\ In("dispatch") /\ ~Ended
      /\ Callee.guid = "leverage" => (~Object(1).native <=> saved.is = "args")
      /\ \/ Shifted(2, 1) /\ stack'[1] = FrameOf("user", stack[1].event) /\ stack'[2] = Following
         \/ Shifted(1, 1) /\ stack'[1] = Following
  BY UserStep, PassStep, FnsAssumption DEF EventsInv
<1>2. /\ stack # <<>> /\ stack[1].frame = "dispatch" /\ Object(2) = Object(1) /\ ~Object(1).immediate
      /\ Head(stack[1].queue)[2] = Callee /\ Following.frame = "dispatch"
  BY <1>1, CalleeIs
<1>3. ~Leveraged(2)
  <2>1. ASSUME Leveraged(2) PROVE FALSE
    <3>1. Stage(2) /\ 2 \in Depth /\ Is(2, {"native"})
      BY <1>1, <2>1, Deep DEF Leveraged, Is
    <3>2. Callee = Leverage /\ saved.is = "args"
      BY <1>2, <3>1 DEF Stage, Args
    <3>3. Object(2).native
      BY <1>1, <3>1 DEF BaseInv, StackInv, Stands, Is
    <3> QED BY <1>1, <1>2, <3>2, <3>3 DEF Leverage, HandleObj
  <2> QED BY <2>1
<1>4. CASE Shifted(2, 1) /\ stack'[1] = FrameOf("user", stack[1].event) /\ stack'[2] = Following
  <2>1. stack'[1].frame = "user"
    BY <1>1, <1>2, <1>4, Numbers, NewCalls
  <2>2. \A j \in 1 .. 2 : ~Leveraged(j)'
    BY <1>2, <1>4, <2>1 DEF Leveraged, Is
  <2>3. ~Is(1, {"interrupt"})'
    BY <2>1 DEF Is
  <2> QED BY <1>1, <1>2, <1>3, <1>4, <2>2, <2>3, LeverageOther
<1>5. CASE Shifted(1, 1) /\ stack'[1] = Following
  <2>1. \A j \in 1 .. 1 : ~Leveraged(j)'
    BY <1>2, <1>5 DEF Leveraged, Is
  <2>2. ~Is(1, {"interrupt"})'
    BY <1>2, <1>5 DEF Is
  <2> QED BY <1>1, <1>2, <1>3, <1>5, <2>1, <2>2, LeverageOther
<1> QED BY <1>1, <1>4, <1>5

LEMMA LeverageInterrupt ==
    ASSUME EventsInv, Interrupt
    PROVE  LeverageInv'
<1>1. /\ BaseInv /\ LeverageInv /\ BaseInv' /\ Grows
      /\ UNCHANGED registry /\ saved' = Args(stack[1].event)
      /\ In("dispatch") /\ ~Ended /\ ~Object(1).native /\ handlers["box"] # <<>>
      /\ Shifted(3, 1) /\ stack'[1] = NativeFrame(Len(events) + 1)
      /\ stack'[2] = FrameOf("interrupt", stack[1].event) /\ stack'[3] = Following
      /\ events'[Len(events) + 1] = NewEvent(ClickAt(1), "box", TRUE)
  BY InterruptStep DEF EventsInv
<1>2. /\ stack # <<>> /\ stack[1].frame = "dispatch" /\ Object(2) = Object(1)
      /\ Following.frame = "dispatch"
  BY <1>1, CalleeIs
<1>3. /\ stack'[1].frame = "native" /\ stack'[1].event = Len(events) + 1 /\ stack'[1].i = 1
      /\ stack'[2].frame = "interrupt" /\ stack'[2].event = stack[1].event /\ stack'[3].frame = "dispatch"
  BY <1>1, <1>2, Numbers, NewCalls
<1>4. 1 \in Depth' /\ 2 \in Depth'
  BY <1>1, <1>2, StackTop DEF Shifted, Depth, BaseInv
<1>5. ~Leveraged(2)
  <2>1. ASSUME Leveraged(2) PROVE FALSE
    <3>1. 2 \in Depth /\ Is(2, {"native"})
      BY <2>1 DEF Leveraged, Is
    <3>2. Object(2).native
      BY <1>1, <3>1 DEF BaseInv, StackInv, Stands, Is
    <3> QED BY <1>1, <1>2, <3>2
  <2> QED BY <2>1
<1>6. Stage(1)'
  <2>1. Object(1)' = NewEvent(ClickAt(1), "box", TRUE)
    BY <1>1, <1>3 DEF Object
  <2>2. Object(1)'.target = "box" /\ ~Object(1)'.stopped /\ ~Object(1)'.immediate
    BY <2>1 DEF NewEvent
  <2>3. handlers'["box"] # <<>>
    BY <1>1 DEF registry
  <2>4. saved' = Args(stack'[1 + 1].event)
    BY <1>1, <1>3
  <2> QED BY <1>3, <2>2, <2>3, <2>4 DEF Stage, Fresh
<1>7. \A j \in 1 .. 3 : Leveraged(j)' => Stage(j)'
  BY <1>3, <1>6 DEF Leveraged, Is
<1>8. Is(2, {"interrupt"})' /\ ~Is(1, {"interrupt"})' /\ 2 \in Depth'
  BY <1>3, <1>4 DEF Is
<1> QED BY <1>1, <1>2, <1>5, <1>7, <1>8, LeverageOther

LEMMA LeverageReinvoke ==
    ASSUME EventsInv, Reinvoke
    PROVE  LeverageInv'
<1>1. /\ BaseInv /\ TriggeredInv /\ LeverageInv /\ BaseInv' /\ Grows
      /\ saved' = saved /\ In("dispatch") /\ ~Ended /\ Object(1).native /\ saved.is = "args"
      /\ Shifted(3, 1) /\ stack'[1] = TriggerFrame(stack[3].event)
      /\ stack'[2] = FrameOf("reinvoke", stack[1].event) /\ stack'[3] = Following
  BY ReinvokeStep DEF EventsInv
<1>2. /\ stack # <<>> /\ stack[1].frame = "dispatch" /\ Following.frame = "dispatch"
  BY <1>1, CalleeIs
<1>3. Is(3, {"interrupt"}) /\ 3 \in Depth
  BY <1>1, ReinvokedWhere DEF Is
<1>4. /\ stack'[1].frame = "trigger" /\ stack'[2].frame = "reinvoke" /\ stack'[3].frame = "dispatch"
  BY <1>1, <1>2, <1>3, Numbers, NewCalls
<1>5. 2 \in Depth'
  BY <1>1, <1>2, StackTop DEF Shifted, Depth, BaseInv
<1>6. \A j \in 1 .. 3 : ~Leveraged(j)'
  BY <1>4 DEF Leveraged, Is
<1>7. ~Is(1, {"interrupt"})'
  BY <1>4 DEF Is
<1>8. \A j \in Nat : j = 2 - 1 + 3 => Stage(j)'
  <2>1. ASSUME NEW j \in Nat, j = 2 - 1 + 3 PROVE Stage(j)'
    <3>1. j > 2 /\ j - 2 = 2
      BY <2>1
    <3>2. Is(2, {"reinvoke"})'
      BY <1>4, <1>5 DEF Is
    <3>3. Is(j - 2, {"reinvoke"})'
      BY <3>1, <3>2
    <3> QED BY <3>1, <3>3 DEF Stage
  <2> QED BY <2>1
<1> QED BY <1>1, <1>2, <1>6, <1>7, <1>8, LeverageOther

LEMMA LeverageReinvoked ==
    ASSUME EventsInv, Reinvoked
    PROVE  LeverageInv'
<1>1. /\ BaseInv /\ LeverageInv /\ BaseInv' /\ Grows /\ saved' = Captured
      /\ stack # <<>> /\ Shifted(0, 1) /\ stack[1].frame = "reinvoke"
      /\ events'[stack[1].event].immediate
  BY ReinvokedStep DEF EventsInv
<1>2. /\ Is(2, {"dispatch"}) /\ stack[2].event = stack[1].event
      /\ Is(3, {"native"}) /\ stack[3].event = stack[1].event /\ Is(4, {"interrupt"})
  BY <1>1, UnderTop
<1>3. /\ 2 \in Depth /\ 3 \in Depth /\ 4 \in Depth /\ Len(stack) \in Nat
      /\ stack[2].frame = "dispatch"
  BY <1>1, <1>2, Numbers DEF Is
<1>4. ASSUME NEW m \in 1 + 1 .. Len(stack), Leveraged(m)
      PROVE  \/ m > 2 /\ m - 2 \in 1 + 1 .. Len(stack) /\ Is(m - 2, {"reinvoke"})
             \/ \A j \in Nat : j = m - 1 + 0 => Stage(j)'
  <2>1. m \in Depth /\ m # 1
    BY <1>3 DEF Depth
  <2>2. m # 2
    BY <1>3, <1>4 DEF Leveraged, Is
  <2>3. m > 2 /\ Is(m - 2, {"reinvoke"})
    BY <1>1, <1>4, <2>1, <2>2, Deep
  <2>4. CASE m = 3
    <3>1. ASSUME NEW j \in Nat, j = m - 1 + 0 PROVE Stage(j)'
      <4>1. j = 2 /\ j \in 0 + 1 .. Len(stack') /\ 3 = j - 0 + 1
        BY <1>1, <1>3, <2>4, <3>1 DEF Shifted, Depth
      <4>2. stack'[j] = stack[3]
        BY <1>1, <4>1, Moved
      <4>3. Object(2)'.immediate
        BY <1>1, <1>2, <4>1, <4>2 DEF Object
      <4>4. Is(1, {"dispatch"})'
        <5>1. \A kinds : Is(0 + 1, kinds)' <=> Is(2, kinds)
          BY <1>1, Beneath
        <5> QED BY <1>2, <5>1
      <4> QED BY <1>1, <4>1, <4>3, <4>4 DEF Stage
    <3> QED BY <3>1
  <2>5. CASE m # 3
    BY <1>3, <2>3, <2>5
  <2> QED BY <2>4, <2>5
<1>5. 4 \in 1 + 1 .. Len(stack)
  BY <1>3 DEF Depth
<1>6. \A j \in 1 .. 0 : Leveraged(j)' => Stage(j)'
  OBVIOUS
<1> QED BY <1>1, <1>2, <1>4, <1>5, <1>6, LeverageKept

LEMMA LeverageInterrupted ==
    ASSUME EventsInv, Interrupted
    PROVE  LeverageInv'
<1>1. /\ BaseInv /\ LeverageInv /\ BaseInv' /\ Grows /\ saved' = False
      /\ stack # <<>> /\ Shifted(0, 1) /\ stack[1].frame = "interrupt"
  BY InterruptedStep DEF EventsInv
<1>2. Is(2, {"dispatch"}) /\ ~Is(2, {"interrupt"}) /\ ~Leveraged(2)
  BY <1>1, UnderTop DEF Is, Leveraged
<1>3. ~Is(1, {"interrupt"})'
  <2>1. \A kinds : Is(0 + 1, kinds)' <=> Is(2, kinds)
    BY <1>1, Beneath
  <2> QED BY <1>2, <2>1
<1>4. saved'.is = "false" /\ \A j \in 1 .. 0 : Leveraged(j)' => Stage(j)'
  BY <1>1 DEF False
<1> QED BY <1>1, <1>2, <1>3, <1>4, LeverageOther

LEMMA LeverageNext ==
    ASSUME EventsInv, Next
    PROVE  LeverageInv'
<1>1. BaseInv /\ LeverageInv /\ BaseInv' /\ Grows
  BY BaseNext DEF EventsInv
<1>2. CASE On \/ Off
  <2>1. /\ stack' = stack /\ (saved' = saved \/ saved' = False)
        /\ stack = <<>> \/ stack[1].frame = "user"
    BY <1>1, <1>2, OnStep, OffStep
  <2>2. Shifted(0, 0)
    BY <1>1, <1>2, OnStep, OffStep, SameStack
  <2> QED BY <1>1, <1>2, <2>2, OnStep, OffStep, LeverageUser
<1>3. CASE Trigger
  <2>1. stack'[1].frame = "trigger" /\ Shifted(1, 0)
    BY <1>1, <1>3, TriggerStep, Numbers, NewCalls
  <2> QED BY <1>1, <1>3, <2>1, TriggerStep, LeverageUser
<1>4. CASE RealClick
  <2>1. stack'[1].frame = "native" /\ Shifted(1, 0)
    BY <1>1, <1>4, RealClickStep, Numbers, NewCalls
  <2> QED BY <1>1, <1>4, <2>1, RealClickStep, LeverageUser
<1> QED BY <1>2, <1>3, <1>4, NextSplit, LeverageReturn, LeverageVisit, LeverageDefault, LeverageEnd,
           LeverageCall, LeverageInterrupt, LeverageReinvoke, LeverageReinvoked, LeverageInterrupted

-----------------------------------------------------------------------------
(* One pass of a click at a time.                                          *)

\* A walk waits as it did, but for what is above it.
LEMMA WaitsAs ==
    ASSUME BaseInv, BaseInv', Grows, NEW n \in Nat, NEW k \in {0, 1}, Shifted(n, k),
           NEW j \in n + 1 .. Len(stack'), NEW m, m = j - n + k
    PROVE  /\ Waits(m) => \/ Waits(j)'
                          \/ k = 1 /\ m = 3 /\ stack[1].frame \in {"interrupt", "reinvoke"}
           /\ Waits(j)' => \/ Waits(m)
                           \/ j - 2 \in 1 .. n /\ stack'[j - 2].frame \in {"interrupt", "reinvoke"}
<1>0. m \in Nat /\ j \in Nat
  BY MovedCall
<1>1. /\ m \in k + 1 .. Len(stack) /\ m \in Nat /\ j \in Nat /\ Len(stack) \in Nat
      /\ Len(stack') = Len(stack) - k + n
  BY <1>0, Lens DEF Shifted, BaseInv
<1>2. ASSUME m - 2 \in k + 1 .. Len(stack)
      PROVE  /\ j - 2 \in n + 1 .. Len(stack')
             /\ \A kinds : Is(j - 2, kinds)' <=> Is(m - 2, kinds)
  <2>1. j - 2 \in n + 1 .. Len(stack') /\ m - 2 = (j - 2) - n + k
    BY <1>1, <1>2
  <2>2. stack'[j - 2] = stack[m - 2] /\ m - 2 \in Depth /\ j - 2 \in Depth'
    BY <2>1, MovedCall
  <2> QED BY <2>1, <2>2 DEF Is
<1>3. k = 0 \/ k = 1
  OBVIOUS
<1>4. CASE m - 2 \in k + 1 .. Len(stack)
  <2>1. m > 2 /\ j > 2
    BY <1>1, <1>2, <1>3, <1>4
  <2> QED BY <1>2, <1>4, <2>1 DEF Waits
<1>5. CASE ~(m - 2 \in k + 1 .. Len(stack))
  <2>1. m <= k + 2
    BY <1>1, <1>3, <1>5
  <2>2. ASSUME Waits(m)
        PROVE  k = 1 /\ m = 3 /\ stack[1].frame \in {"interrupt", "reinvoke"}
    <3>1. m > 2 /\ Is(m - 2, {"interrupt", "reinvoke"})
      BY <2>2 DEF Waits
    <3>2. m = 3 /\ k = 1
      BY <1>1, <1>3, <2>1, <3>1
    <3>3. m - 2 = 1
      BY <3>2
    <3>4. Is(1, {"interrupt", "reinvoke"})
      BY <3>1, <3>3
    <3> QED BY <3>2, <3>4 DEF Is
  <2>3. ASSUME Waits(j)'
        PROVE  j - 2 \in 1 .. n /\ stack'[j - 2].frame \in {"interrupt", "reinvoke"}
    <3>1. j > 2 /\ Is(j - 2, {"interrupt", "reinvoke"})'
      BY <2>3 DEF Waits
    <3>2. j - 2 \in 1 .. n
      BY <1>1, <1>3, <2>1, <3>1
    <3> QED BY <3>1, <3>2 DEF Is
  <2> QED BY <2>2, <2>3
<1> QED BY <1>4, <1>5

LEMMA OnePassKept ==
    ASSUME BaseInv, BaseInv', Grows, OnePassInv, NEW n \in Nat, NEW k \in {0, 1}, Shifted(n, k),
           \/ k = 0
           \/ ~(stack[1].frame \in {"interrupt", "reinvoke"})
           \/ Is(2, {"dispatch"}),
           \A j \in 1 .. n, m \in k + 1 .. Len(stack) :
               ~Is(j, {"dispatch", "user"})' /\ Walks(m) /\ ClickAt(j)' = ClickAt(m) =>
                   \A i \in Nat : i = m - k + n => Waits(i)',
           \A i, j \in 1 .. n :
               i < j /\ Walks(j)' /\ ~Is(i, {"dispatch", "user"})' /\ ClickAt(i)' = ClickAt(j)' => Waits(j)'
    PROVE  OnePassInv'
<1>1. ASSUME NEW i \in Depth', NEW j \in Depth', i < j, Walks(j)', ~Is(i, {"dispatch", "user"})',
             ClickAt(i)' = ClickAt(j)'
      PROVE  Waits(j)'
  <2>1. CASE j \in 1 .. n
    <3>1. i \in 1 .. n
      BY <1>1, <2>1 DEF Depth
    <3> QED BY <1>1, <2>1, <3>1
  <2>2. CASE j \in n + 1 .. Len(stack')
    <3>1. PICK m : m = j - n + k
      OBVIOUS
    <3>2. /\ m \in k + 1 .. Len(stack) /\ m \in Depth /\ m \in Nat /\ j \in Nat
          /\ Walks(m) /\ ClickAt(j)' = ClickAt(m)
      BY <1>1, <2>2, <3>1, Moved DEF Walks
    <3>3. j = m - k + n
      BY <3>1, <3>2
    <3>4. CASE i \in 1 .. n
      BY <1>1, <3>2, <3>3, <3>4
    <3>5. CASE i \in n + 1 .. Len(stack')
      <4>1. PICK l : l = i - n + k
        OBVIOUS
      <4>2. /\ l \in k + 1 .. Len(stack) /\ l \in Depth /\ l \in Nat /\ i \in Nat
            /\ ~Is(l, {"dispatch", "user"}) /\ ClickAt(i)' = ClickAt(l)
        BY <1>1, <3>5, <4>1, Moved
      <4>3. l < m
        BY <1>1, <3>1, <3>2, <4>1, <4>2
      <4>4. Waits(m)
        BY <1>1, <3>2, <4>2, <4>3 DEF OnePassInv
      <4>5. ASSUME k = 1, m = 3, Is(2, {"dispatch"}) PROVE FALSE
        <5>1. l = 2
          BY <4>2, <4>3, <4>5
        <5> QED BY <4>2, <4>5, <5>1 DEF Is
      <4>6. Waits(m) => \/ Waits(j)'
                        \/ k = 1 /\ m = 3 /\ stack[1].frame \in {"interrupt", "reinvoke"}
        BY <2>2, <3>1, WaitsAs
      <4>7. k = 0 => k # 1
        OBVIOUS
      <4> QED BY <4>4, <4>5, <4>6, <4>7
    <3> QED BY <3>4, <3>5, NewOrOld
  <2> QED BY <2>1, <2>2, NewOrOld
<1> QED BY <1>1 DEF OnePassInv

\* The innermost calls of a click, and whoever walks for it further out.
LEMMA OnePassPush ==
    ASSUME BaseInv, BaseInv', Grows, OnePassInv, stack # <<>>, NEW n \in Nat, Shifted(n, 1),
           ~(stack[1].frame \in {"interrupt", "reinvoke"}),
           \A j \in 1 .. n : Is(j, {"dispatch", "user"})' \/ ClickAt(j)' = ClickAt(1),
           \/ Walks(1)
           \/ Is(1, {"dispatch"}) /\ n = 3 /\ Is(2, {"interrupt", "reinvoke"})'
           \/ \A j \in 1 .. n : Is(j, {"dispatch", "user"})',
           \A i, j \in 1 .. n : i < j => ~Walks(j)' \/ Is(i, {"dispatch", "user"})'
    PROVE  OnePassInv'
<1>1. /\ 1 \in Depth /\ Len(stack) \in Nat
      /\ stack[1].frame = "dispatch" => Walks(2) /\ stack[2].event = stack[1].event
  BY Numbers, UnderTop
<1>2. ASSUME NEW j \in 1 .. n, NEW m \in 1 + 1 .. Len(stack),
             ~Is(j, {"dispatch", "user"})', Walks(m), ClickAt(j)' = ClickAt(m),
             NEW i \in Nat, i = m - 1 + n
      PROVE  Waits(i)'
  <2>1. ClickAt(1) = ClickAt(m) /\ m \in Depth /\ 1 < m
    BY <1>1, <1>2 DEF Depth
  <2>2. i \in n + 1 .. Len(stack') /\ m = i - n + 1
    BY <1>2, MovesTo
  <2>3. Waits(m) => Waits(i)'
    BY <2>2, WaitsAs
  <2>4. CASE Walks(1)
    <3>1. ~Is(1, {"dispatch", "user"})
      BY <2>4 DEF Walks, Is
    <3> QED BY <1>1, <1>2, <2>1, <2>3, <3>1 DEF OnePassInv
  <2>5. CASE Is(1, {"dispatch"}) /\ n = 3 /\ Is(2, {"interrupt", "reinvoke"})'
    <3>1. Walks(2) /\ ClickAt(2) = ClickAt(m) /\ 2 \in Depth /\ ~Is(2, {"dispatch", "user"})
      BY <1>1, <2>1, <2>5 DEF ClickAt, Object, Walks, Is
    <3>2. CASE m = 2
      <4>1. i = 4
        BY <1>2, <2>5, <3>2
      <4>2. 4 > 2 /\ 4 - 2 = 2
        OBVIOUS
      <4> QED BY <2>5, <4>1, <4>2 DEF Waits
    <3>3. CASE m # 2
      <4>1. 2 < m
        BY <1>2, <3>3
      <4> QED BY <1>2, <2>1, <2>3, <3>1, <4>1 DEF OnePassInv
    <3> QED BY <3>2, <3>3
  <2> QED BY <1>2, <2>4, <2>5
<1> QED BY <1>2, OnePassKept

LEMMA OnePassNext ==
    ASSUME EventsInv, Next
    PROVE  OnePassInv'
<1>1. /\ BaseInv /\ TriggeredInv /\ LeverageInv /\ UnheardInv /\ OnePassInv
      /\ BaseInv' /\ Grows
  BY BaseNext DEF EventsInv
<1>2. CASE On \/ Off
  <2>1. Shifted(0, 0)
    BY <1>1, <1>2, OnStep, OffStep, SameStack
  <2> QED BY <1>1, <2>1, OnePassKept
<1>3. CASE Trigger \/ RealClick
  <2>1. /\ Shifted(1, 0) /\ stack'[1].event = Len(events) + 1
        /\ events'[Len(events) + 1].click = Len(clicks) + 1
    <3>1. /\ TriggerFrame(Len(events) + 1).event = Len(events) + 1
          /\ NativeFrame(Len(events) + 1).event = Len(events) + 1
      BY <1>1, Numbers, NewCalls
    <3>2. CASE Trigger
      <4>1. Shifted(1, 0) /\ stack'[1] = TriggerFrame(Len(events) + 1)
        BY <1>1, <3>2, TriggerStep
      <4>2. \E target : events'[Len(events) + 1] = NewEvent(Len(clicks) + 1, target, FALSE)
        BY <1>1, <3>2, TriggerStep
      <4> QED BY <3>1, <4>1, <4>2 DEF NewEvent
    <3>3. CASE RealClick
      <4>1. Shifted(1, 0) /\ stack'[1] = NativeFrame(Len(events) + 1)
        BY <1>1, <3>3, RealClickStep
      <4>2. \E target : events'[Len(events) + 1] = NewEvent(Len(clicks) + 1, target, TRUE)
        BY <1>1, <3>3, RealClickStep
      <4> QED BY <3>1, <4>1, <4>2 DEF NewEvent
    <3> QED BY <1>3, <3>2, <3>3
  <2>2. ASSUME NEW j \in 1 .. 1, NEW m \in 0 + 1 .. Len(stack), ClickAt(j)' = ClickAt(m)
        PROVE  FALSE
    <3>1. ClickAt(j)' = Len(clicks) + 1
      BY <2>1, <2>2 DEF ClickAt, Object
    <3>2. m \in Depth
      BY DEF Depth
    <3>3. ClickAt(m) \in 1 .. Len(clicks) /\ Len(clicks) \in Nat
      BY <1>1, <3>2, Numbers
    <3> QED BY <2>2, <3>1, <3>3
  <2> QED BY <1>1, <2>1, <2>2, OnePassKept
<1>4. CASE Return \/ EndNext
  <2>1. Shifted(0, 1) /\ ~(stack[1].frame \in {"interrupt", "reinvoke"})
    BY <1>1, <1>4, ReturnStep, EndStep
  <2> QED BY <1>1, <2>1, OnePassKept
<1>5. CASE Reinvoked \/ Interrupted
  <2>1. Shifted(0, 1) /\ Is(2, {"dispatch"})
    BY <1>1, <1>5, ReinvokedStep, InterruptedStep, UnderTop
  <2> QED BY <1>1, <2>1, OnePassKept
<1>6. CASE VisitNext
  <2> DEFINE e == Path(Object(1).target)[stack[1].i]
             next == [stack[1] EXCEPT !.i = @ + 1]
             new == DispatchFrame(stack[1].event, e, HandlerQueue(e, Object(1).target))
  <2>1. /\ stack # <<>> /\ stack[1].frame \in {"trigger", "native"} /\ events' = events
        /\ \/ Shifted(1, 1) /\ stack'[1] = next
           \/ Shifted(2, 1) /\ stack'[2] = next /\ stack'[1] = new
    BY <1>1, <1>6, VisitStep
  <2>2. next.event = stack[1].event /\ new.frame = "dispatch" /\ 1 \in Depth /\ Walks(1)
    BY <1>1, <2>1, StackTop DEF BaseInv, Frame, DispatchFrame, Idle, Depth, Walks, Is
  <2> HIDE DEF next, new
  <2>3. CASE Shifted(1, 1) /\ stack'[1] = next
    <3>1. \A j \in 1 .. 1 : ClickAt(j)' = ClickAt(1)
      BY <2>1, <2>2, <2>3 DEF ClickAt, Object
    <3>2. ~(stack[1].frame \in {"interrupt", "reinvoke"})
      BY <2>1
    <3> QED BY <1>1, <2>1, <2>2, <2>3, <3>1, <3>2, OnePassPush
  <2>4. CASE Shifted(2, 1) /\ stack'[2] = next /\ stack'[1] = new
    <3>1. 1 \in Depth' /\ Is(1, {"dispatch", "user"})'
      BY <1>1, <2>1, <2>2, <2>4, StackTop DEF Shifted, Depth, BaseInv, Is
    <3>2. ClickAt(2)' = ClickAt(1)
      BY <2>1, <2>2, <2>4 DEF ClickAt, Object
    <3>3. \A j \in 1 .. 2 : Is(j, {"dispatch", "user"})' \/ ClickAt(j)' = ClickAt(1)
      BY <3>1, <3>2
    <3>4. \A i, j \in 1 .. 2 : i < j => ~Walks(j)' \/ Is(i, {"dispatch", "user"})'
      BY <3>1
    <3>5. ~(stack[1].frame \in {"interrupt", "reinvoke"})
      BY <2>1
    <3> QED BY <1>1, <2>1, <2>2, <2>4, <3>3, <3>4, <3>5, OnePassPush
  <2> QED BY <2>1, <2>3, <2>4
<1>7. CASE TriggerDefault
  <2>1. /\ stack # <<>> /\ stack[1].frame = "trigger" /\ Shifted(2, 1)
        /\ stack'[1].event = Len(events) + 1 /\ stack'[2].event = stack[1].event
        /\ stack'[2].frame = "default"
        /\ \A k \in 1 .. Len(events) : events'[k] = events[k]
        /\ events'[Len(events) + 1].click = ClickAt(1)
        /\ stack[1].event \in 1 .. Len(events) /\ 1 \in Depth
    BY <1>1, <1>7, TriggerDefaultStep, Numbers, NewCalls DEF NewEvent
  <2>2. \A j \in 1 .. 2 : ClickAt(j)' = ClickAt(1)
    BY <2>1 DEF ClickAt, Object
  <2>3. \A i, j \in 1 .. 2 : i < j => ~Walks(j)'
    BY <2>1 DEF Walks, Is
  <2>4. Walks(1) /\ ~(stack[1].frame \in {"interrupt", "reinvoke"})
    BY <2>1 DEF Walks, Is
  <2> QED BY <1>1, <2>1, <2>2, <2>3, <2>4, OnePassPush
<1>8. CASE CallUser \/ Pass
  <2>1. PICK n \in Nat : /\ Shifted(n, 1) /\ stack # <<>> /\ stack[1].frame = "dispatch"
                         /\ n \in {1, 2} /\ \A j \in 1 .. n : stack'[j].frame \in {"dispatch", "user"}
    <3>1. In("dispatch") /\ ~Ended
      BY <1>1, <1>8, UserStep, PassStep
    <3>2. /\ stack # <<>> /\ stack[1].frame = "dispatch" /\ Following.frame = "dispatch"
          /\ stack[1].event \in Nat
      BY <1>1, <3>1, CalleeIs
    <3>3. CASE CallUser
      <4>1. Shifted(2, 1) /\ \A j \in 1 .. 2 : stack'[j].frame \in {"dispatch", "user"}
        BY <1>1, <3>2, <3>3, UserStep, NewCalls
      <4> QED BY <3>2, <4>1
    <3>4. CASE Pass
      <4>1. Shifted(1, 1) /\ \A j \in 1 .. 1 : stack'[j].frame \in {"dispatch", "user"}
        BY <1>1, <3>2, <3>4, PassStep
      <4> QED BY <3>2, <4>1
    <3> QED BY <1>8, <3>3, <3>4
  <2>2. \A j \in 1 .. n : Is(j, {"dispatch", "user"})'
    <3>1. \A j \in 1 .. n : j \in Depth'
      BY <1>1, <2>1, StackTop DEF Shifted, Depth, BaseInv
    <3> QED BY <2>1, <3>1 DEF Is
  <2> QED BY <1>1, <2>1, <2>2, OnePassPush
<1>9. CASE Interrupt \/ Reinvoke
  <2>1. /\ In("dispatch") /\ ~Ended /\ Shifted(3, 1)
        /\ stack'[3] = Following
    BY <1>1, <1>9, InterruptStep, ReinvokeStep
  <2>2. /\ stack # <<>> /\ stack[1].frame = "dispatch" /\ Following.frame = "dispatch"
        /\ stack[1].event \in 1 .. Len(events) /\ stack[1].event \in Nat /\ 1 \in Depth
    BY <1>1, <2>1, CalleeIs
  <2>3. stack'[2].frame \in {"interrupt", "reinvoke"} /\ stack'[2].event = stack[1].event
    <3>1. /\ FrameOf("interrupt", stack[1].event).frame = "interrupt"
          /\ FrameOf("interrupt", stack[1].event).event = stack[1].event
          /\ FrameOf("reinvoke", stack[1].event).frame = "reinvoke"
          /\ FrameOf("reinvoke", stack[1].event).event = stack[1].event
      BY <1>1, <2>2, NewCalls
    <3>2. CASE Interrupt
      BY <1>1, <3>1, <3>2, InterruptStep
    <3>3. CASE Reinvoke
      BY <1>1, <3>1, <3>3, ReinvokeStep
    <3> QED BY <1>9, <3>2, <3>3
  <2>4. 1 \in Depth' /\ 2 \in Depth' /\ 3 \in Depth'
    BY <1>1, <2>1, <2>2, StackTop DEF Shifted, Depth, BaseInv
  <2>5. ClickAt(1)' = ClickAt(1)
    <3>1. CASE Interrupt
      BY <1>1, <3>1, InterruptStep, Numbers, NewCalls, SMTT(15) DEF ClickAt, Object, NewEvent
    <3>2. CASE Reinvoke
      <4>1. Object(1).native /\ saved.is = "args" /\ stack'[1] = TriggerFrame(stack[3].event)
        BY <1>1, <3>2, ReinvokeStep
      <4>2. stack[3].event \in 1 .. Len(events) /\ ClickAt(3) = ClickAt(1) /\ stack[3].event \in Nat
        BY <1>1, <2>1, <4>1, Numbers, ReinvokedWhere
      <4>3. stack'[1].event = stack[3].event
        BY <1>1, <4>1, <4>2, NewCalls
      <4> QED BY <1>1, <4>2, <4>3 DEF ClickAt, Object, Grows
    <3> QED BY <1>9, <3>1, <3>2
  <2>6. ClickAt(2)' = ClickAt(1)
    BY <1>1, <2>2, <2>3 DEF ClickAt, Object, Grows
  <2>7. Is(3, {"dispatch", "user"})' /\ Is(2, {"interrupt", "reinvoke"})' /\ ~Walks(2)' /\ ~Walks(3)'
    BY <2>1, <2>2, <2>3, <2>4 DEF Is, Walks
  <2>8. \A j \in 1 .. 3 : Is(j, {"dispatch", "user"})' \/ ClickAt(j)' = ClickAt(1)
    BY <2>5, <2>6, <2>7
  <2>9. \A i, j \in 1 .. 3 : i < j => ~Walks(j)'
    BY <2>7
  <2>10. Is(1, {"dispatch"}) /\ ~(stack[1].frame \in {"interrupt", "reinvoke"})
    BY <2>2 DEF Is
  <2> QED BY <1>1, <2>1, <2>2, <2>7, <2>8, <2>9, <2>10, OnePassPush
<1> QED BY <1>2, <1>3, <1>4, <1>5, <1>6, <1>7, <1>8, <1>9, NextSplit

-----------------------------------------------------------------------------
(* Nobody hears a click twice.                                             *)

\* A queue holds no number that is not yet given.
LEMMA QueuedIs ==
    ASSUME BaseInv, NEW j \in Depth
    PROVE  /\ Queued(j) \in Seq(Elements \X Handle) /\ Len(Queued(j)) \in Nat
           /\ \A l \in 1 .. Len(Queued(j)) :
                 /\ Queued(j)[l] \in Elements \X Handle /\ Queued(j)[l][2] \in Handle
                 /\ Queued(j)[l][2].id \in Nat /\ Queued(j)[l][2].id <= calls
           /\ Walks(j) => Ahead(j) \subseteq Elements
<1>1. \A i \in Depth : stack[i].queue \in Seq(Elements \X Handle)
  BY Lens DEF BaseInv, Frame, Depth
<1>2. Queued(j) \in Seq(Elements \X Handle) /\ Len(Queued(j)) \in Nat
  <2>1. CASE j > 1
    <3>1. j - 1 \in Depth
      BY <2>1, Numbers DEF Depth
    <3> QED BY <1>1, <2>1, <3>1, LenProperties DEF Queued
  <2>2. CASE ~(j > 1)
    BY <2>2, EmptySeq DEF Queued
  <2> QED BY <2>1, <2>2
<1>3. ASSUME NEW l \in 1 .. Len(Queued(j))
      PROVE  /\ Queued(j)[l] \in Elements \X Handle /\ Queued(j)[l][2] \in Handle
             /\ Queued(j)[l][2].id \in Nat /\ Queued(j)[l][2].id <= calls
  <2>1. Queued(j)[l] \in Elements \X Handle
    BY <1>2, ElementOfSeq
  <2>2. CASE j > 1
    <3>1. j - 1 \in Depth
      BY <2>2, Numbers DEF Depth
    <3>2. Queued(j) = stack[j - 1].queue
      BY <2>2 DEF Queued
    <3>3. Numbered(stack[j - 1].queue[l][2], calls)
      BY <3>1, <3>2 DEF BaseInv, StackInv, Queues
    <3> QED BY <2>1, <3>2, <3>3 DEF Numbered, Handle
  <2>3. CASE ~(j > 1)
    BY <1>2, <2>3, EmptySeq DEF Queued
  <2> QED BY <2>2, <2>3
<1>4. ASSUME Walks(j) PROVE Ahead(j) \subseteq Elements
  <2>1. Object(j).target \in Elements
    BY Numbers DEF EventObject
  <2>0. stack[j].i \in Nat /\ stack[j].i >= 1
    BY <1>4, Lens DEF BaseInv, Frame, Depth, StackInv, Queues, Walks, Is
  <2>2. CASE Object(j).target = "box"
    <3>1. \A x \in stack[j].i .. 2 : x = 1 \/ x = 2
      BY <2>0
    <3> QED BY <2>2, <3>1, Paths DEF Ahead
  <2>3. CASE Object(j).target = "form"
    <3>1. \A x \in stack[j].i .. 1 : x = 1
      BY <2>0
    <3> QED BY <2>3, <3>1, Paths DEF Ahead
  <2> QED BY <2>1, <2>2, <2>3, Paths
<1> QED BY <1>2, <1>3, <1>4

\* Nothing more is heard of the click.
Unheard(c) == \A h \in heard' : h \in heard \/ h[1] # c

\* The queue the walk waits for is what the first d places left.
Rest(j, m, d) ==
    \A l \in 1 .. Len(Queued(j)') :
        l + d \in 1 .. Len(Queued(m)) /\ Queued(j)'[l] = Queued(m)[l + d]

LEMMA NobodyKept ==
    ASSUME BaseInv, BaseInv', Grows, NEW n \in Nat, NEW k \in {0, 1}, Shifted(n, k),
           NEW j \in n + 1 .. Len(stack'), NEW m, m = j - n + k, NobodyHeard(m),
           Walks(m), Unheard(ClickAt(m)), NEW d \in Nat, Rest(j, m, d)
    PROVE  NobodyHeard(j)'
<1>1. /\ m \in Depth /\ j \in Depth' /\ stack'[j] = stack[m] /\ ClickAt(j)' = ClickAt(m)
      /\ Object(j)'.target = Object(m).target
  BY MovedCall
<1>2. Ahead(j)' = Ahead(m)
  BY <1>1 DEF Ahead
<1>3. ASSUME NEW id \in HeardOf(ClickAt(j))'
      PROVE  id \in HeardOf(ClickAt(m)) /\ id \in 1 .. calls
  <2>1. PICK h \in heard' : h[1] = ClickAt(j)' /\ h[2] = id
    BY <1>3 DEF HeardOf
  <2>2. h \in heard
    BY <1>1, <2>1 DEF Unheard
  <2>3. id \in HeardOf(ClickAt(m))
    BY <1>1, <2>1, <2>2 DEF HeardOf
  <2> QED BY <2>1, <2>2, <2>3 DEF BaseInv, HistoryInv
<1>4. /\ Len(Queued(j)') \in Nat /\ calls \in Nat
      /\ \A l \in 1 .. Len(Queued(m)) : Queued(m)[l][2].id \in Nat /\ Queued(m)[l][2].id <= calls
      /\ Ahead(m) \subseteq Elements
  <2>1. Len(Queued(j)') \in Nat
    <3>1. BaseInv' => (j \in Depth' => Len(Queued(j))' \in Nat)
      <4>1. CASE j > 1
        <5>1. j - 1 \in 1 .. Len(stack')
          BY <1>1, <4>1 DEF Depth
        <5>2. stack'[j - 1].queue \in Seq(Elements \X Handle)
          <6>1. stack' \in Seq(Frame)
            BY DEF BaseInv, TypesInv
          <6>2. stack'[j - 1] \in Frame
            BY <5>1, <6>1, ElementOfSeq
          <6> QED BY <6>2 DEF Frame
        <5> QED BY <4>1, <5>2, LenProperties DEF Queued
      <4>2. CASE ~(j > 1)
        BY <4>2, EmptySeq DEF Queued
      <4> QED BY <4>1, <4>2
    <3> QED BY <1>1, <3>1
  <2> QED BY <1>1, <2>1, QueuedIs, Numbers
<1>5. \A e \in Elements : \A h \in Handlers(e)' : h \in Handlers(e) \/ h.id = 0 \/ h.id > calls
  BY DEF Grows
<1>6. ASSUME NEW l \in 1 .. Len(Queued(j)'), Queued(j)'[l][2].id # 0
      PROVE  /\ Queued(j)'[l][2].id \notin HeardOf(ClickAt(j))'
             /\ \A i \in 1 .. Len(Queued(j)') : Queued(j)'[i][2].id = Queued(j)'[l][2].id => l = i
             /\ \A e \in Ahead(j)' : \A h \in Handlers(e)' : h.id # Queued(j)'[l][2].id
  <2>1. l + d \in 1 .. Len(Queued(m)) /\ Queued(j)'[l] = Queued(m)[l + d]
    BY DEF Rest
  <2>2. Queued(j)'[l][2].id \notin HeardOf(ClickAt(j))'
    BY <1>3, <1>6, <2>1 DEF NobodyHeard
  <2>3. ASSUME NEW i \in 1 .. Len(Queued(j)'), Queued(j)'[i][2].id = Queued(j)'[l][2].id
        PROVE  l = i
    <3>1. i + d \in 1 .. Len(Queued(m)) /\ Queued(j)'[i] = Queued(m)[i + d]
      BY DEF Rest
    <3>2. l + d = i + d
      BY <1>6, <2>1, <2>3, <3>1 DEF NobodyHeard
    <3> QED BY <1>4, <3>2
  <2>4. ASSUME NEW e \in Ahead(j)', NEW h \in Handlers(e)' PROVE h.id # Queued(j)'[l][2].id
    <3>1. e \in Ahead(m) /\ e \in Elements
      BY <1>2, <1>4
    <3>2. CASE h \in Handlers(e)
      BY <1>6, <2>1, <3>1, <3>2 DEF NobodyHeard
    <3>3. CASE h.id > calls
      BY <1>4, <2>1, <3>3, SMTT(15)
    <3> QED BY <1>5, <1>6, <3>1, <3>2, <3>3
  <2> QED BY <2>2, <2>3, <2>4
<1>7. ASSUME NEW e \in Ahead(j)', NEW h \in Handlers(e)', h.id # 0
      PROVE  h.id \notin HeardOf(ClickAt(j))'
  <2>1. e \in Ahead(m) /\ e \in Elements
    BY <1>2, <1>4
  <2>2. CASE h \in Handlers(e)
    BY <1>3, <1>7, <2>1, <2>2 DEF NobodyHeard
  <2>3. CASE h.id > calls
    BY <1>3, <1>4, <2>3
  <2> QED BY <1>5, <1>7, <2>1, <2>2, <2>3
<1> QED BY <1>6, <1>7 DEF NobodyHeard

\* A walk that somebody will still be called from was one before.
OldLive(n, k) ==
    \A m \in k + 1 .. Len(stack) : \A j \in Nat : j = m - k + n /\ Live(j)' => Live(m)

\* What was stopped at once stays stopped.
Stopping == \A ev \in 1 .. Len(events) : events[ev].immediate => events'[ev].immediate

LEMMA WalkBefore ==
    ASSUME BaseInv, BaseInv', Grows, NEW n \in Nat, NEW k \in {0, 1}, Shifted(n, k),
           NEW m \in k + 1 .. Len(stack), NEW j \in Nat, j = m - k + n, Live(j)'
    PROVE  /\ Walks(m) /\ ~Discards(m) /\ m \in Depth /\ j \in n + 1 .. Len(stack') /\ m = j - n + k
           /\ stack'[j] = stack[m] /\ ~Object(j)'.immediate
           /\ Waits(m) => k = 1 /\ m = 3 /\ stack[1].frame \in {"interrupt", "reinvoke"}
<1>1. j \in n + 1 .. Len(stack') /\ m = j - n + k
  BY MovesTo, SMTT(30)
<1>2. m \in Depth /\ stack'[j] = stack[m]
  BY <1>1, MovedCall, SMTT(30)
<1>3. Walks(m) /\ ~Discards(m)
  <2>1. \A kinds : Is(j, kinds)' <=> Is(m, kinds)
    BY <1>1, Moved
  <2>2. \A kinds : Is(j + 1, kinds)' <=> Is(m + 1, kinds)
    BY <1>1, Moved
  <2> QED BY <2>1, <2>2 DEF Live, Walks, Discards
<1>4. Waits(m) => \/ Waits(j)'
                  \/ k = 1 /\ m = 3 /\ stack[1].frame \in {"interrupt", "reinvoke"}
  BY <1>1, WaitsAs
<1> QED BY <1>1, <1>2, <1>3, <1>4 DEF Live

LEMMA LiveBefore ==
    ASSUME BaseInv, BaseInv', Grows, NEW n \in Nat, NEW k \in {0, 1}, Shifted(n, k), Stopping,
           k = 0 \/ ~(stack[1].frame \in {"interrupt", "reinvoke"})
    PROVE  OldLive(n, k)
<1>1. ASSUME NEW m \in k + 1 .. Len(stack), NEW j \in Nat, j = m - k + n, Live(j)'
      PROVE  Live(m)
  <2>1. /\ Walks(m) /\ ~Discards(m) /\ m \in Depth /\ stack'[j] = stack[m] /\ ~Object(j)'.immediate
        /\ Waits(m) => k = 1 /\ m = 3 /\ stack[1].frame \in {"interrupt", "reinvoke"}
    BY <1>1, WalkBefore, Z3T(30)
  <2>2. stack[m].event \in 1 .. Len(events)
    BY <2>1, Numbers
  <2>3. ~Object(m).immediate
    BY <2>1, <2>2 DEF Stopping, Object
  <2>4. ~Waits(m)
    BY <2>1
  <2> QED BY <2>1, <2>3, <2>4 DEF Live
<1> QED BY <1>1 DEF OldLive

\* The leveraging handler is called at the box, and first.
AtBox ==
    Is(1, {"dispatch"}) /\ stack[1].queue # <<>> /\ Head(stack[1].queue)[2].guid = "leverage" =>
        /\ stack[2].i = 2 /\ Object(1).target = "box" /\ handlers["box"] # <<>>
        /\ \A h \in Handlers("box") : h.id # 0 => h.id \notin HeardOf(ClickAt(1))

\* Nothing more is heard of a click that will be heard, or only what leaves the rest.
Spared(n, k) ==
    \A m \in k + 1 .. Len(stack) : Live(m) =>
        Unheard(ClickAt(m)) \/ \A j \in Nat : j = m - k + n => NobodyHeard(j)'

LEMMA UnheardKept ==
    ASSUME BaseInv, BaseInv', Grows, UnheardInv, NEW n \in Nat, NEW k \in {0, 1}, Shifted(n, k),
           OldLive(n, k), Spared(n, k),
           NEW d \in Nat, n + 1 \in Depth' => Rest(n + 1, k + 1, d),
           \A j \in 1 .. n : Live(j)' => NobodyHeard(j)',
           AtBox', repeats' = {}
    PROVE  UnheardInv'
<1>1. ASSUME NEW j \in Depth', Live(j)' PROVE NobodyHeard(j)'
  <2>1. CASE j \in n + 1 .. Len(stack')
    <3>1. PICK m : m = j - n + k
      OBVIOUS
    <3>2. m \in Depth /\ m \in k + 1 .. Len(stack) /\ m \in Nat /\ j \in Nat
      BY <2>1, <3>1, Moved
    <3>3. j = m - k + n
      BY <3>1, <3>2
    <3>4. Live(m)
      BY <1>1, <3>2, <3>3 DEF OldLive
    <3>5. NobodyHeard(m) /\ Walks(m)
      BY <3>2, <3>4 DEF UnheardInv, Live
    <3>8. Unheard(ClickAt(m)) \/ NobodyHeard(j)'
      BY <3>2, <3>3, <3>4 DEF Spared
    <3>6. CASE j = n + 1
      <4>1. m = k + 1
        BY <3>1, <3>6
      <4>2. Rest(j, m, d)
        BY <1>1, <3>6, <4>1
      <4> QED BY <2>1, <3>1, <3>5, <3>8, <4>2, NobodyKept
    <3>7. CASE j # n + 1
      <4>1. PICK i, l : i = j - 1 /\ l = m - 1
        OBVIOUS
      <4>2. i \in n + 1 .. Len(stack') /\ l = i - n + k /\ j > 1 /\ m > 1
        BY <2>1, <3>1, <3>2, <3>7, <4>1
      <4>3. stack'[i] = stack[l]
        BY <4>2, MovedCall
      <4>4. Queued(j)' = Queued(m)
        BY <4>1, <4>2, <4>3 DEF Queued
      <4>5. Len(Queued(m)) \in Nat
        BY <3>2, QueuedIs
      <4>6. Rest(j, m, 0)
        BY <4>4, <4>5 DEF Rest
      <4> QED BY <2>1, <3>1, <3>5, <3>8, <4>6, NobodyKept
    <3> QED BY <3>6, <3>7
  <2> QED BY <1>1, <2>1, NewOrOld
<1> QED BY <1>1 DEF UnheardInv, AtBox

\* What leaves the innermost call leaves no leveraging handler to be called.
LEMMA NobodyAtBox ==
    ASSUME BaseInv, Shifted(0, 1)
    PROVE  AtBox'
<1>1. ASSUME Is(1, {"dispatch"})', stack'[1].queue # <<>>, Head(stack'[1].queue)[2].guid = "leverage"
      PROVE  FALSE
  <2>1. PICK j : j = 1
    OBVIOUS
  <2>2. j \in 0 + 1 .. Len(stack')
    BY <1>1, <2>1 DEF Is, Depth
  <2>3. j - 0 + 1 \in 1 + 1 .. Len(stack) /\ stack'[j] = stack[j - 0 + 1]
    BY <2>2 DEF Shifted
  <2>4. PICK m : m = j - 0 + 1
    OBVIOUS
  <2>5. m \in Depth /\ m # 1 /\ stack'[1] = stack[m]
    BY <2>1, <2>3, <2>4, Numbers DEF Depth
  <2>6. stack[m].queue \in Seq(Elements \X Handle)
    BY <2>5, Lens DEF BaseInv, Frame, Depth
  <2>7. 1 \in 1 .. Len(stack[m].queue) /\ Head(stack[m].queue) = stack[m].queue[1]
    BY <1>1, <2>5, <2>6, EmptySeq, LenProperties, HeadTailProperties
  <2>8. stack[m].queue[1][2].guid = "leverage" => m = 1
    BY <2>5, <2>7 DEF BaseInv, StackInv, Queues
  <2> QED BY <1>1, <2>5, <2>7, <2>8
<1> QED BY <1>1 DEF AtBox

\* The call under which a queue waits has none.
LEMMA NoQueue ==
    ASSUME NEW n \in Nat, NEW m, stack' \in Seq(Frame), n > 0 => stack'[n].queue = <<>>
    PROVE  Rest(n + 1, m, 0)
<1>1. Queued(n + 1)' = <<>>
  <2>1. n + 1 > 1 <=> n > 0
    OBVIOUS
  <2>2. PICK j : j = n + 1
    OBVIOUS
  <2>3. j - 1 = n
    BY <2>2
  <2> QED BY <2>1, <2>2, <2>3 DEF Queued
<1>2. 1 .. Len(Queued(n + 1)') = {}
  BY <1>1, EmptySeq
<1> QED BY <1>2 DEF Rest

\* Nothing is heard, and no walk is taken up that nobody waited for.
LEMMA UnheardCalm ==
    ASSUME BaseInv, BaseInv', Grows, UnheardInv, NEW n \in Nat, NEW k \in {0, 1}, Shifted(n, k),
           Stopping, k = 0 \/ ~(stack[1].frame \in {"interrupt", "reinvoke"}),
           heard' = heard, repeats' = repeats, n > 0 => stack'[n].queue = <<>>,
           \A j \in 1 .. n : Live(j)' => NobodyHeard(j)', AtBox'
    PROVE  UnheardInv'
<1>1. OldLive(n, k)
  BY LiveBefore
<1>2. Spared(n, k)
  BY DEF Spared, Unheard
<1>3. Rest(n + 1, k + 1, 0)
  BY NoQueue DEF Shifted
<1>4. repeats' = {} /\ 0 \in Nat /\ (n + 1 \in Depth' => Rest(n + 1, k + 1, 0))
  BY <1>3 DEF UnheardInv
<1> QED BY <1>1, <1>2, <1>4, UnheardKept

\* A click nobody was asked for has not been heard.
LEMMA NewWalk ==
    ASSUME BaseInv, BaseInv', heard' = heard, ClickAt(1)' = Len(clicks) + 1, 1 \in Depth'
    PROVE  NobodyHeard(1)'
<1>1. Queued(1)' = <<>>
  BY DEF Queued
<1>2. HeardOf(ClickAt(1))' = {}
  <2>1. \A h \in heard : h[1] \in 1 .. Len(clicks)
    BY DEF BaseInv, HistoryInv
  <2>2. Len(clicks) \in Nat
    BY Numbers
  <2> QED BY <2>1, <2>2 DEF HeardOf
<1> QED BY <1>1, <1>2, EmptySeq DEF NobodyHeard

LEMMA UnheardUser ==
    ASSUME EventsInv, Next, On \/ Off \/ Trigger \/ RealClick \/ Return
    PROVE  UnheardInv'
<1>1. /\ BaseInv /\ TriggeredInv /\ LeverageInv /\ UnheardInv /\ OnePassInv
      /\ BaseInv' /\ Grows
  BY BaseNext DEF EventsInv
<1>2. CASE On \/ Off
  <2>1. /\ UNCHANGED <<events, stack, heard, repeats>>
        /\ stack = <<>> \/ (stack # <<>> /\ stack[1].frame = "user")
    BY <1>1, <1>2, OnStep, OffStep
  <2>2. Shifted(0, 0)
    BY <1>1, <2>1, SameStack
  <2>3. Stopping /\ AtBox'
    BY <2>1, EmptySeq DEF Stopping, AtBox, Is, Depth
  <2> QED BY <1>1, <2>1, <2>2, <2>3, UnheardCalm
<1>3. CASE Trigger \/ RealClick
  <2>1. /\ Shifted(1, 0) /\ heard' = heard /\ repeats' = repeats
        /\ \A k \in 1 .. Len(events) : events'[k] = events[k]
        /\ stack'[1] = TriggerFrame(Len(events) + 1) \/ stack'[1] = NativeFrame(Len(events) + 1)
        /\ \E target, native : events'[Len(events) + 1] = NewEvent(Len(clicks) + 1, target, native)
    <3>1. CASE Trigger
      <4>1. \E target : events'[Len(events) + 1] = NewEvent(Len(clicks) + 1, target, FALSE)
        BY <1>1, <3>1, TriggerStep
      <4> QED BY <1>1, <3>1, <4>1, TriggerStep
    <3>2. CASE RealClick
      <4>1. \E target : events'[Len(events) + 1] = NewEvent(Len(clicks) + 1, target, TRUE)
        BY <1>1, <3>2, RealClickStep
      <4> QED BY <1>1, <3>2, <4>1, RealClickStep
    <3> QED BY <1>3, <3>1, <3>2
  <2>2. /\ stack'[1].event = Len(events) + 1 /\ stack'[1].frame # "dispatch"
        /\ stack'[1].queue = <<>>
    BY <1>1, <2>1, Numbers, NewCalls
  <2>3. ClickAt(1)' = Len(clicks) + 1
    BY <2>1, <2>2 DEF ClickAt, Object, NewEvent
  <2>4. 1 \in Depth'
    BY <1>1, <2>1, Numbers DEF Shifted, Depth
  <2>5. NobodyHeard(1)'
    BY <1>1, <2>1, <2>3, <2>4, NewWalk
  <2>6. Stopping /\ AtBox' /\ \A j \in 1 .. 1 : NobodyHeard(j)'
    BY <2>1, <2>2, <2>5 DEF Stopping, AtBox, Is
  <2> QED BY <1>1, <2>1, <2>2, <2>6, UnheardCalm
<1>4. CASE Return
  <2>1. /\ Shifted(0, 1) /\ stack[1].frame = "user" /\ heard' = heard /\ repeats' = repeats
    BY <1>1, <1>4, ReturnStep
  <2>2. Stopping
    <3>1. /\ \A k \in 1 .. Len(events) : k # stack[1].event => events'[k] = events[k]
          /\ Object(1).immediate => events'[stack[1].event].immediate
      BY <1>1, <1>4, ReturnStep
    <3> QED BY <3>1 DEF Stopping, Object
  <2>3. AtBox' /\ ~(stack[1].frame \in {"interrupt", "reinvoke"})
    BY <1>1, <2>1, NobodyAtBox
  <2> QED BY <1>1, <2>1, <2>2, <2>3, UnheardCalm
<1> QED BY <1>2, <1>3, <1>4

LEMMA UnheardEnd ==
    ASSUME EventsInv, Next, EndNext \/ TriggerDefault
    PROVE  UnheardInv'
<1>1. /\ BaseInv /\ TriggeredInv /\ LeverageInv /\ UnheardInv /\ OnePassInv
      /\ BaseInv' /\ Grows
  BY BaseNext DEF EventsInv
<1>2. CASE EndNext
  <2>1. /\ Shifted(0, 1) /\ heard' = heard /\ repeats' = repeats /\ events' = events
        /\ ~(stack[1].frame \in {"interrupt", "reinvoke"})
    BY <1>1, <1>2, EndStep
  <2>2. Stopping /\ AtBox'
    BY <1>1, <2>1, NobodyAtBox DEF Stopping
  <2> QED BY <1>1, <2>1, <2>2, UnheardCalm
<1>3. CASE TriggerDefault
  <2>1. /\ stack # <<>> /\ stack[1].frame = "trigger" /\ Shifted(2, 1)
        /\ heard' = heard /\ repeats' = repeats
        /\ \A k \in 1 .. Len(events) : events'[k] = events[k]
        /\ stack'[1].frame = "native" /\ stack'[2].frame = "default" /\ stack'[2].queue = <<>>
    BY <1>1, <1>3, TriggerDefaultStep, Numbers, NewCalls
  <2>2. Stopping /\ AtBox'
    BY <2>1 DEF Stopping, AtBox, Is
  <2>3. 2 \in Depth' /\ 1 \in Depth'
    BY <1>1, <2>1, StackTop DEF Shifted, Depth, BaseInv
  <2>4. Discards(1)' /\ ~Walks(2)'
    <3>1. Is(1, {"native"})' /\ Is(2, {"default"})' /\ ~Walks(2)'
      BY <2>1, <2>3 DEF Is, Walks
    <3>2. PICK j : j = 1
      OBVIOUS
    <3>3. j + 1 = 2
      BY <3>2
    <3> QED BY <3>1, <3>2, <3>3 DEF Discards
  <2>5. \A j \in 1 .. 2 : ~Live(j)'
    <3>1. \A j \in 1 .. 2 : j = 1 \/ j = 2
      OBVIOUS
    <3> QED BY <2>4, <3>1 DEF Live
  <2>6. 2 > 0 => stack'[2].queue = <<>>
    BY <2>1
  <2>7. ~(stack[1].frame \in {"interrupt", "reinvoke"})
    BY <2>1
  <2> QED BY <1>1, <2>1, <2>2, <2>5, <2>6, <2>7, UnheardCalm
<1> QED BY <1>2, <1>3

\* The walk of a trigger or of a native click, before it comes to an element.
LEMMA WalkAt ==
    ASSUME BaseInv, stack # <<>>, stack[1].frame \in {"trigger", "native"}, ~Object(1).stopped,
           stack[1].i \in 1 .. Len(Path(Object(1).target))
    PROVE  LET e == Path(Object(1).target)[stack[1].i]
               further == {Path(Object(1).target)[k] : k \in stack[1].i + 1 .. Len(Path(Object(1).target))}
           IN  /\ 1 \in Depth /\ Walks(1) /\ ~Waits(1) /\ ~Object(1).immediate
               /\ e \in Ahead(1) /\ further \subseteq Ahead(1) /\ e \notin further
               /\ further \subseteq Elements /\ stack[1].queue = <<>>
               /\ e = "box" => Object(1).target = "box" /\ stack[1].i = 1
<1>1. 1 \in Depth /\ Object(1).target \in Elements /\ stack[1].event \in 1 .. Len(events)
  BY Numbers DEF EventObject
<1>2. Walks(1) /\ ~Waits(1)
  BY <1>1 DEF Walks, Is, Waits
<1>3. ~Object(1).immediate
  BY <1>1 DEF BaseInv, HistoryInv, Object
<1>4. stack[1].queue = <<>>
  BY <1>1 DEF BaseInv, StackInv, Queues
<1>5. Object(1).target = "box" \/ Object(1).target = "form"
  BY <1>1, Paths
<1>6. CASE Object(1).target = "box"
  <2>1. stack[1].i = 1 \/ stack[1].i = 2
    <3>1. Path(Object(1).target) = Path("box") /\ Len(Path("box")) = 2
      BY <1>6, Paths
    <3>2. stack[1].i \in 1 .. 2
      BY <3>1
    <3> QED BY <3>2
  <2>2. Len(Path("box")) = 2
    BY Paths
  <2>3. CASE stack[1].i = 1
    <3>1. \A k : (k \in 1 + 1 .. 2 <=> k = 2) /\ (k \in 1 .. 2 <=> k = 1 \/ k = 2)
      OBVIOUS
    <3> QED BY <1>1, <1>2, <1>3, <1>4, <1>6, <2>2, <2>3, <3>1, Paths DEF Ahead
  <2>4. CASE stack[1].i = 2
    <3>1. \A k : ~(k \in 2 + 1 .. 2) /\ (k \in 2 .. 2 <=> k = 2)
      OBVIOUS
    <3> QED BY <1>1, <1>2, <1>3, <1>4, <1>6, <2>2, <2>4, <3>1, Paths DEF Ahead
  <2> QED BY <2>1, <2>3, <2>4
<1>7. CASE Object(1).target = "form"
  <2>1. stack[1].i = 1 /\ Len(Path("form")) = 1
    <3>1. Path(Object(1).target) = Path("form") /\ Len(Path("form")) = 1
      BY <1>7, Paths
    <3>2. stack[1].i \in 1 .. 1
      BY <3>1
    <3> QED BY <3>1, <3>2
  <2>2. \A k : ~(k \in 1 + 1 .. 1) /\ (k \in 1 .. 1 <=> k = 1)
    OBVIOUS
  <2> QED BY <1>1, <1>2, <1>3, <1>4, <1>7, <2>1, <2>2, Paths DEF Ahead
<1> QED BY <1>5, <1>6, <1>7

LEMMA UnheardVisit ==
    ASSUME EventsInv, Next, VisitNext
    PROVE  UnheardInv'
<1>1. /\ BaseInv /\ TriggeredInv /\ LeverageInv /\ UnheardInv /\ OnePassInv
      /\ BaseInv' /\ Grows
  BY BaseNext DEF EventsInv
<1> DEFINE target == Object(1).target
           e == Path(target)[stack[1].i]
           next == [stack[1] EXCEPT !.i = @ + 1]
           q == HandlerQueue(e, target)
           new == DispatchFrame(stack[1].event, e, q)
           further == {Path(target)[k] : k \in stack[1].i + 1 .. Len(Path(target))}
<1>2. /\ UNCHANGED <<registry, saved, triggered, events, clicks, heard, repeats>>
      /\ stack # <<>> /\ stack[1].frame \in {"trigger", "native"} /\ ~Object(1).stopped
      /\ stack[1].i \in 1 .. Len(Path(target)) /\ e \in Elements
      /\ \/ Shifted(1, 1) /\ stack'[1] = next
         \/ ~triggered /\ handlers[e] # <<>> /\ Shifted(2, 1) /\ stack'[2] = next /\ stack'[1] = new
  BY <1>1, VisitStep
<1>3. /\ 1 \in Depth /\ Walks(1) /\ ~Waits(1) /\ ~Object(1).immediate
      /\ e \in Ahead(1) /\ further \subseteq Ahead(1) /\ e \notin further
      /\ further \subseteq Elements /\ stack[1].queue = <<>>
      /\ e = "box" => Object(1).target = "box" /\ stack[1].i = 1
  BY <1>1, <1>2, WalkAt
<1>4. /\ next.frame = stack[1].frame /\ next.event = stack[1].event /\ next.queue = <<>>
      /\ next.i = stack[1].i + 1
      /\ new.frame = "dispatch" /\ new.event = stack[1].event /\ new.queue = q
  BY <1>1, <1>2, <1>3, StackTop DEF BaseInv, Frame, DispatchFrame, Idle
<1>5. Stopping /\ handlers' = handlers
  BY <1>2 DEF Stopping, registry
<1>6. ~Discards(1) => NobodyHeard(1)
  BY <1>1, <1>3 DEF UnheardInv, Live
<1>7. target \in Elements
  BY <1>1, <1>3, Numbers DEF EventObject
<1> HIDE DEF next, new, q, further, e
<1>8. CASE Shifted(1, 1) /\ stack'[1] = next
  <2>1. ClickAt(1)' = ClickAt(1) /\ Object(1)' = Object(1)
    BY <1>2, <1>4, <1>8 DEF ClickAt, Object
  <2>2. Ahead(1)' = further
    BY <1>4, <1>8, <2>1 DEF Ahead, further
  <2>3. Queued(1)' = <<>>
    BY DEF Queued
  <2>4. ASSUME Live(1)' PROVE NobodyHeard(1)'
    <3>1. ~Discards(1)
      <4>1. PICK n \in Nat : n = 1
        OBVIOUS
      <4>2. Shifted(n, 1) /\ n + 1 = 2
        BY <1>8, <4>1
      <4>3. \A kinds : Is(n + 1, kinds)' <=> Is(2, kinds)
        BY <1>1, <1>2, <4>2, Beneath
      <4>4. ~Discards(1)'
        BY <2>4 DEF Live
      <4>5. Is(1, {"native"})' <=> stack[1].frame = "native"
        BY <1>4, <1>8, <2>4 DEF Is, Live, Walks
      <4>6. Is(1 + 1, {"default"}) => Is(1 + 1, {"default"})'
        BY <4>2, <4>3
      <4> QED BY <4>4, <4>5, <4>6 DEF Discards, Is
    <3>2. NobodyHeard(1)
      BY <1>6, <3>1
    <3> QED BY <1>2, <1>3, <1>5, <2>1, <2>2, <2>3, <3>2, EmptySeq DEF NobodyHeard, HeardOf, Handlers
  <2>5. AtBox'
    BY <1>2, <1>4, <1>8 DEF AtBox, Is
  <2>6. \A j \in 1 .. 1 : Live(j)' => NobodyHeard(j)'
    BY <2>4
  <2>7. 1 > 0 => stack'[1].queue = <<>>
    BY <1>4, <1>8
  <2>8. heard' = heard /\ repeats' = repeats /\ ~(stack[1].frame \in {"interrupt", "reinvoke"})
    BY <1>2
  <2> QED BY <1>1, <1>5, <1>8, <2>5, <2>6, <2>7, <2>8, UnheardCalm
<1>9. CASE ~triggered /\ handlers[e] # <<>> /\ Shifted(2, 1) /\ stack'[2] = next /\ stack'[1] = new
  <2>1. /\ ClickAt(2)' = ClickAt(1) /\ Object(2)' = Object(1)
        /\ ClickAt(1)' = ClickAt(1) /\ Object(1)' = Object(1)
    BY <1>2, <1>4, <1>9 DEF ClickAt, Object
  <2>2. Ahead(2)' = further
    BY <1>4, <1>9, <2>1 DEF Ahead, further
  <2>3. Queued(2)' = q
    <3>1. PICK j : j = 2
      OBVIOUS
    <3>2. j > 1 /\ j - 1 = 1
      BY <3>1
    <3> QED BY <1>4, <1>9, <3>1, <3>2 DEF Queued
  <2>4. NobodyHeard(1)
    <3>1. \A j \in Depth : ~Is(j, {"default"})
      BY <1>1, <1>9 DEF TriggeredInv
    <3>2. ~Discards(1)
      BY <3>1 DEF Discards, Is
    <3> QED BY <1>6, <3>2
  <2>5. /\ q \in Seq(Elements \X Handle) /\ Len(q) \in Nat
        /\ Offset(e, target) \in 0 .. Len(handlers[e])
        /\ \A k \in 1 .. Len(q) :
              k + Offset(e, target) \in 1 .. Len(handlers[e]) /\ q[k][2] = handlers[e][k + Offset(e, target)]
    <3>1. /\ q \in Seq(Elements \X Handle)
          /\ Offset(e, target) \in 0 .. Len(handlers[e])
          /\ Len(q) = Len(handlers[e]) - Offset(e, target)
          /\ \A k \in 1 .. Len(q) : q[k][2] = handlers[e][k + Offset(e, target)]
      BY <1>1, <1>2, <1>7, QueueOf DEF BaseInv, q
    <3>2. Len(handlers[e]) \in Nat
      BY <1>1, <1>2, LenProperties DEF BaseInv, TypesInv
    <3> QED BY <3>1, <3>2
  <2>6. \A i \in 1 .. Len(handlers[e]) : handlers[e][i] \in Handlers(e)
    <3>1. handlers[e] \in Seq(Handle)
      BY <1>1, <1>2 DEF BaseInv, TypesInv
    <3> QED BY <3>1, LenProperties DEF Handlers, Seqs!ToSet
  <2>7. ASSUME NEW k \in 1 .. Len(q), q[k][2].id # 0
        PROVE  /\ q[k][2].id \notin HeardOf(ClickAt(1))
               /\ \A l \in 1 .. Len(q) : q[l][2].id = q[k][2].id => k = l
               /\ \A d \in further : \A h \in Handlers(d) : h.id # q[k][2].id
    <3> DEFINE a == k + Offset(e, target)
    <3>1. a \in 1 .. Len(handlers[e]) /\ q[k][2] = handlers[e][a]
      BY <2>5
    <3>2. q[k][2].id \notin HeardOf(ClickAt(1))
      BY <1>3, <2>4, <2>6, <2>7, <3>1 DEF NobodyHeard
    <3>3. ASSUME NEW l \in 1 .. Len(q), q[l][2].id = q[k][2].id PROVE k = l
      <4> DEFINE b == l + Offset(e, target)
      <4>1. b \in 1 .. Len(handlers[e]) /\ q[l][2] = handlers[e][b]
        BY <2>5
      <4>2. a = b
        BY <1>1, <1>2, <2>7, <3>1, <3>3, <4>1 DEF BaseInv, RegistryInv
      <4> QED BY <2>5, <4>2
    <3>4. ASSUME NEW d \in further, NEW h \in Handlers(d), h.id = q[k][2].id PROVE FALSE
      <4>1. d \in Elements /\ d # e
        BY <1>3
      <4>2. handlers[d] \in Seq(Handle)
        BY <1>1, <4>1 DEF BaseInv, TypesInv
      <4>3. PICK b \in 1 .. Len(handlers[d]) : h = handlers[d][b]
        BY <4>2, LenProperties DEF Handlers, Seqs!ToSet
      <4>4. e = d
        BY <1>1, <1>2, <2>7, <3>1, <3>4, <4>1, <4>3 DEF BaseInv, RegistryInv
      <4> QED BY <4>1, <4>4
    <3> QED BY <3>2, <3>3, <3>4
  <2>8. NobodyHeard(2)'
    <3>0. \A d : Handlers(d)' = Handlers(d)
      BY <1>5 DEF Handlers
    <3>1. (\A d : Handlers(d)' = Handlers(d)) /\ HeardOf(ClickAt(2))' = HeardOf(ClickAt(1))
      BY <1>2, <2>1, <3>0 DEF HeardOf
    <3>2. \A d \in further : \A h \in Handlers(d) : h.id # 0 => h.id \notin HeardOf(ClickAt(1))
      BY <1>3, <2>4 DEF NobodyHeard
    <3> QED BY <2>2, <2>3, <2>7, <3>1, <3>2 DEF NobodyHeard
  <2>9. AtBox'
    <3>1. SUFFICES ASSUME q # <<>>, Head(q)[2].guid = "leverage"
                   PROVE  /\ next.i = 2 /\ target = "box" /\ handlers["box"] # <<>>
                          /\ \A h \in Handlers("box") : h.id # 0 => h.id \notin HeardOf(ClickAt(1))
      <4>1. \A h : h \in Handlers("box")' <=> h \in Handlers("box")
        BY <1>5 DEF Handlers
      <4>2. HeardOf(ClickAt(1))' = HeardOf(ClickAt(1))
        BY <1>2, <2>1 DEF HeardOf
      <4> QED BY <1>4, <1>5, <1>9, <2>1, <4>1, <4>2 DEF AtBox
    <3>2. 1 \in 1 .. Len(q) /\ Head(q) = q[1]
      BY <2>5, <3>1, EmptySeq, LenProperties, HeadTailProperties
    <3>3. e = "box"
      <4>1. PICK a : a = 1 + Offset(e, target)
        OBVIOUS
      <4>2. a \in 1 .. Len(handlers[e]) /\ q[1][2] = handlers[e][a]
        BY <2>5, <3>2, <4>1
      <4> QED BY <1>1, <1>2, <3>1, <3>2, <4>2 DEF BaseInv, RegistryInv
    <3> QED BY <1>3, <1>4, <1>9, <2>4, <3>3 DEF NobodyHeard
  <2>10. \A j \in 1 .. 2 : Live(j)' => NobodyHeard(j)'
    <3>1. ~Live(1)'
      BY <1>4, <1>9 DEF Live, Walks, Is
    <3>2. \A j \in 1 .. 2 : j = 1 \/ j = 2
      OBVIOUS
    <3> QED BY <2>8, <3>1, <3>2
  <2>11. 2 > 0 => stack'[2].queue = <<>>
    BY <1>4, <1>9
  <2>12. heard' = heard /\ repeats' = repeats /\ ~(stack[1].frame \in {"interrupt", "reinvoke"})
    BY <1>2
  <2> QED BY <1>1, <1>5, <1>9, <2>9, <2>10, <2>11, <2>12, UnheardCalm
<1> QED BY <1>2, <1>8, <1>9

\* A dispatch comes to the next of its queue: the walk under it will still be
\* called from, and no other walk of its click.
LEMMA DispatchWalk ==
    ASSUME BaseInv, TriggeredInv, OnePassInv, UnheardInv, In("dispatch"), ~Ended
    PROVE  /\ stack # <<>> /\ stack[1].frame = "dispatch" /\ 1 \in Depth /\ 2 \in Depth
           /\ ~triggered /\ Live(2) /\ NobodyHeard(2)
           /\ Queued(2) = stack[1].queue /\ stack[2].event = stack[1].event /\ ClickAt(2) = ClickAt(1)
           /\ \A m \in 1 + 1 .. Len(stack) : Live(m) /\ ClickAt(m) = ClickAt(1) => m = 2
<1>1. /\ stack # <<>> /\ stack[1].frame = "dispatch" /\ 1 \in Depth /\ Walks(2)
      /\ stack[2].event = stack[1].event /\ Object(2) = Object(1) /\ ~Object(1).immediate
      /\ Len(stack) \in Nat /\ Len(stack) >= 2
  BY CalleeIs
<1>2. 2 \in Depth /\ ClickAt(2) = ClickAt(1)
  BY <1>1 DEF Depth, ClickAt
<1>3. ~triggered /\ \A j \in Depth : ~Is(j, {"default"})
  BY <1>1, NoDefault
<1>4. Live(2)
  <2>1. ~Discards(2)
    BY <1>3 DEF Discards, Is
  <2> QED BY <1>1, <2>1 DEF Live, Waits
<1>5. Queued(2) = stack[1].queue
  <2>1. PICK j : j = 2
    OBVIOUS
  <2>2. j > 1 /\ j - 1 = 1
    BY <2>1
  <2> QED BY <2>1, <2>2 DEF Queued
<1>6. NobodyHeard(2)
  BY <1>2, <1>4 DEF UnheardInv
<1>7. ASSUME NEW m \in 1 + 1 .. Len(stack), Live(m), ClickAt(m) = ClickAt(1), m # 2 PROVE FALSE
  <2>1. 2 < m /\ m \in Depth
    BY <1>1, <1>7 DEF Depth
  <2>2. ~Is(2, {"dispatch", "user"})
    BY <1>1 DEF Walks, Is
  <2>3. Waits(m)
    BY <1>2, <1>7, <2>1, <2>2 DEF OnePassInv, Live
  <2> QED BY <1>7, <2>3 DEF Live
<1> QED BY <1>1, <1>2, <1>3, <1>4, <1>5, <1>6, <1>7

\* What follows is the rest of the queue; the leveraging handler is not in it.
LEMMA FollowingRest ==
    ASSUME BaseInv, TriggeredInv, OnePassInv, UnheardInv, In("dispatch"), ~Ended,
           NEW n \in {1, 2, 3}, stack'[n] = Following
    PROVE  /\ Queued(n + 1)' = Following.queue /\ Rest(n + 1, 1 + 1, 1)
           /\ n = 1 => AtBox'
<1>1. /\ stack[1].queue \in Seq(Elements \X Handle) /\ Following \in Frame
      /\ Len(Following.queue) = Len(stack[1].queue) - 1 /\ Len(stack[1].queue) \in Nat
      /\ \A k \in 1 .. Len(Following.queue) :
            Following.queue[k] = stack[1].queue[k + 1] /\ k + 1 \in 1 .. Len(stack[1].queue)
      /\ Queued(2) = stack[1].queue
  BY CalleeIs, DispatchWalk
<1>2. Queued(n + 1)' = Following.queue
  <2>1. PICK j : j = n + 1
    OBVIOUS
  <2>2. j > 1 /\ j - 1 = n
    BY <2>1
  <2> QED BY <2>1, <2>2 DEF Queued
<1>3. Rest(n + 1, 1 + 1, 1)
  <2>1. PICK m : m = 1 + 1
    OBVIOUS
  <2>2. m = 2
    BY <2>1
  <2> QED BY <1>1, <1>2, <2>1, <2>2 DEF Rest
<1>4. ASSUME n = 1 PROVE AtBox'
  <2>1. ASSUME Following.queue # <<>>, Head(Following.queue)[2].guid = "leverage" PROVE FALSE
    <3>1. Following.queue \in Seq(Elements \X Handle)
      BY <1>1 DEF Frame
    <3>2. 1 \in 1 .. Len(Following.queue) /\ Head(Following.queue) = Following.queue[1]
      BY <2>1, <3>1, EmptySeq, LenProperties, HeadTailProperties
    <3>3. PICK k : k = 1 + 1
      OBVIOUS
    <3>4. k \in 1 .. Len(stack[1].queue) /\ stack[1].queue[k][2].guid = "leverage" /\ k # 1
      BY <1>1, <2>1, <3>2, <3>3
    <3>5. 1 \in Depth
      BY DispatchWalk
    <3> QED BY <3>4, <3>5 DEF BaseInv, StackInv, Queues
  <2> QED BY <1>4, <2>1 DEF AtBox
<1> QED BY <1>2, <1>3, <1>4

LEMMA UnheardPass ==
    ASSUME EventsInv, Next, Pass
    PROVE  UnheardInv'
<1>1. /\ BaseInv /\ TriggeredInv /\ LeverageInv /\ UnheardInv /\ OnePassInv
      /\ BaseInv' /\ Grows
  BY BaseNext DEF EventsInv
<1>2. /\ In("dispatch") /\ ~Ended /\ Shifted(1, 1) /\ stack'[1] = Following
      /\ UNCHANGED <<events, heard, repeats>>
  BY <1>1, PassStep
<1>3. stack[1].frame = "dispatch" /\ Following.frame = "dispatch"
  BY <1>1, <1>2, CalleeIs
<1>4. OldLive(1, 1)
  <2>1. Stopping /\ ~(stack[1].frame \in {"interrupt", "reinvoke"})
    BY <1>2, <1>3 DEF Stopping
  <2> QED BY <1>1, <1>2, <2>1, LiveBefore
<1>5. Spared(1, 1)
  BY <1>2 DEF Spared, Unheard
<1>6. Rest(1 + 1, 1 + 1, 1) /\ AtBox'
  BY <1>1, <1>2, FollowingRest
<1>7. \A j \in 1 .. 1 : ~Live(j)'
  BY <1>2, <1>3 DEF Live, Walks, Is
<1>8. repeats' = {}
  BY <1>1, <1>2 DEF UnheardInv
<1> QED BY <1>1, <1>2, <1>4, <1>5, <1>6, <1>7, <1>8, UnheardKept

LEMMA UnheardCall ==
    ASSUME EventsInv, Next, CallUser
    PROVE  UnheardInv'
<1>1. /\ BaseInv /\ TriggeredInv /\ LeverageInv /\ UnheardInv /\ OnePassInv
      /\ BaseInv' /\ Grows
  BY BaseNext DEF EventsInv
<1> DEFINE c == ClickAt(1)
           id == Callee.id
           hears == <<c, id, Callee.once>>
<1>2. /\ In("dispatch") /\ ~Ended /\ id # 0
      /\ heard' = heard \cup {hears} /\ repeats' = repeats \cup ({hears} \cap heard)
      /\ events' = events
      /\ \A d \in Elements : Handlers(d)' \subseteq Handlers(d)
      /\ Shifted(2, 1) /\ stack'[1] = FrameOf("user", stack[1].event) /\ stack'[2] = Following
  BY <1>1, UserStep
<1>3. /\ stack[1].frame = "dispatch" /\ Following.frame = "dispatch" /\ stack'[1].frame = "user"
      /\ id = stack[1].queue[1][2].id
      /\ 1 \in 1 .. Len(stack[1].queue) /\ Len(stack[1].queue) \in Nat
      /\ Len(Following.queue) = Len(stack[1].queue) - 1
      /\ \A k \in 1 .. Len(Following.queue) :
            Following.queue[k] = stack[1].queue[k + 1] /\ k + 1 \in 1 .. Len(stack[1].queue)
  BY <1>1, <1>2, CalleeIs, NewCalls
<1>4. /\ Live(2) /\ NobodyHeard(2) /\ Queued(2) = stack[1].queue /\ ClickAt(2) = c /\ 2 \in Depth
      /\ \A m \in 1 + 1 .. Len(stack) : Live(m) /\ ClickAt(m) = c => m = 2
  BY <1>1, <1>2, DispatchWalk
<1> HIDE DEF c, id
<1>5. id \notin HeardOf(c)
  BY <1>2, <1>3, <1>4 DEF NobodyHeard
<1>6. repeats' = {}
  <2>1. hears \notin heard
    BY <1>5 DEF HeardOf
  <2> QED BY <1>1, <1>2, <2>1 DEF UnheardInv
<1>7. NobodyHeard(3)'
  <2>1. 3 \in 2 + 1 .. Len(stack') /\ 2 = 3 - 2 + 1
    BY <1>1, <1>2, <1>4, Numbers DEF Shifted, Depth
  <2>2. stack'[3] = stack[2] /\ ClickAt(3)' = c /\ Object(3)'.target = Object(2).target
    <3>1. PICK n, j, m : n \in Nat /\ n = 2 /\ j = 3 /\ m = 2
      OBVIOUS
    <3>2. n \in Nat /\ Shifted(n, 1) /\ j \in n + 1 .. Len(stack') /\ m = j - n + 1
      BY <1>2, <2>1, <3>1
    <3>3. stack'[j] = stack[m] /\ ClickAt(j)' = ClickAt(m) /\ Object(j)'.target = Object(m).target
      BY <1>1, <3>2, MovedCall
    <3> QED BY <1>4, <3>1, <3>3
  <2>3. Ahead(3)' = Ahead(2)
    BY <2>2 DEF Ahead
  <2>4. Queued(3)' = Following.queue
    <3>1. PICK n \in {1, 2, 3} : n = 2
      OBVIOUS
    <3>2. n + 1 = 3
      BY <3>1
    <3>3. Queued(n + 1)' = Following.queue
      BY <1>1, <1>2, <3>1, FollowingRest
    <3> QED BY <3>2, <3>3
  <2>5. HeardOf(ClickAt(3))' \subseteq HeardOf(c) \cup {id}
    BY <1>2, <2>2 DEF HeardOf
  <2>6. Ahead(2) \subseteq Elements
    BY <1>1, <1>4, QueuedIs DEF Live
  <2>7. ASSUME NEW l \in 1 .. Len(Following.queue), Following.queue[l][2].id # 0
        PROVE  /\ Following.queue[l][2].id \notin HeardOf(ClickAt(3))'
               /\ \A i \in 1 .. Len(Following.queue) :
                     Following.queue[i][2].id = Following.queue[l][2].id => l = i
               /\ \A e \in Ahead(2) : \A h \in Handlers(e)' : h.id # Following.queue[l][2].id
    <3>1. /\ l + 1 \in 1 .. Len(stack[1].queue) /\ Following.queue[l] = stack[1].queue[l + 1]
          /\ l + 1 # 1
      BY <1>3
    <3>2. Following.queue[l][2].id \notin HeardOf(c) /\ Following.queue[l][2].id # id
      BY <1>3, <1>4, <2>7, <3>1 DEF NobodyHeard
    <3>3. ASSUME NEW i \in 1 .. Len(Following.queue), Following.queue[i][2].id = Following.queue[l][2].id
          PROVE  l = i
      <4>1. i + 1 \in 1 .. Len(stack[1].queue) /\ Following.queue[i] = stack[1].queue[i + 1]
        BY <1>3
      <4>2. l + 1 = i + 1
        BY <1>4, <2>7, <3>1, <3>3, <4>1 DEF NobodyHeard
      <4> QED BY <4>2
    <3>4. \A e \in Ahead(2) : \A h \in Handlers(e)' : h.id # Following.queue[l][2].id
      BY <1>2, <1>4, <2>6, <2>7, <3>1 DEF NobodyHeard
    <3> QED BY <2>5, <3>2, <3>3, <3>4
  <2>8. ASSUME NEW e \in Ahead(2), NEW h \in Handlers(e)', h.id # 0
        PROVE  h.id \notin HeardOf(ClickAt(3))'
    <3>1. h \in Handlers(e)
      BY <1>2, <2>6
    <3>2. h.id # id
      BY <1>2, <1>3, <1>4, <3>1 DEF NobodyHeard
    <3> QED BY <1>4, <2>5, <2>8, <3>1, <3>2 DEF NobodyHeard
  <2> QED BY <2>3, <2>4, <2>7, <2>8 DEF NobodyHeard
<1>8. Spared(2, 1)
  <2>1. ASSUME NEW m \in 1 + 1 .. Len(stack), Live(m)
        PROVE  Unheard(ClickAt(m)) \/ \A j \in Nat : j = m - 1 + 2 => NobodyHeard(j)'
    <3>1. CASE m = 2
      BY <1>7, <3>1
    <3>2. CASE m # 2
      <4>1. ClickAt(m) # c
        BY <1>4, <2>1, <3>2
      <4> QED BY <1>2, <4>1 DEF Unheard
    <3> QED BY <3>1, <3>2
  <2> QED BY <2>1 DEF Spared
<1>9. OldLive(2, 1)
  <2>1. Stopping /\ ~(stack[1].frame \in {"interrupt", "reinvoke"})
    BY <1>2, <1>3 DEF Stopping
  <2> QED BY <1>1, <1>2, <2>1, LiveBefore
<1>10. AtBox' /\ \A j \in 1 .. 2 : ~Live(j)'
  <2>1. \A j \in 1 .. 2 : stack'[j].frame \in {"user", "dispatch"}
    BY <1>2, <1>3
  <2> QED BY <1>3, <2>1 DEF AtBox, Live, Walks, Is
<1>11. Rest(2 + 1, 1 + 1, 1)
  BY <1>1, <1>2, FollowingRest
<1> QED BY <1>1, <1>2, <1>6, <1>8, <1>9, <1>10, <1>11, UnheardKept

\* The click walks its path once more, and nobody has heard it yet.
LEMMA Again ==
    ASSUME BaseInv, NobodyHeard(2), stack[2].i = 2, Object(2).target = "box", ClickAt(2) = ClickAt(1),
           \A h \in Handlers("box") : h.id # 0 => h.id \notin HeardOf(ClickAt(1)),
           handlers' = handlers, heard' = heard, ClickAt(1)' = ClickAt(1),
           Object(1)'.target = "box", stack'[1].i = 1
    PROVE  NobodyHeard(1)'
<1>1. Queued(1)' = <<>>
  BY DEF Queued
<1>2. Ahead(1)' \subseteq {"box", "form"} /\ "form" \in Ahead(2)
  <2>1. Len(Path("box")) = 2
    BY Paths
  <2>2. \A k : (k \in 1 .. 2 <=> k = 1 \/ k = 2) /\ (k \in 2 .. 2 <=> k = 2)
    OBVIOUS
  <2> QED BY <2>1, <2>2, Paths DEF Ahead
<1>3. \A e \in {"box", "form"} : \A h \in Handlers(e) : h.id # 0 => h.id \notin HeardOf(ClickAt(1))
  BY <1>2 DEF NobodyHeard
<1>4. HeardOf(ClickAt(1))' = HeardOf(ClickAt(1)) /\ \A e : Handlers(e)' = Handlers(e)
  BY DEF HeardOf, Handlers
<1> QED BY <1>1, <1>2, <1>3, <1>4, EmptySeq DEF NobodyHeard

LEMMA UnheardInterrupt ==
    ASSUME EventsInv, Next, Interrupt
    PROVE  UnheardInv'
<1>1. /\ BaseInv /\ TriggeredInv /\ LeverageInv /\ UnheardInv /\ OnePassInv
      /\ BaseInv' /\ Grows
  BY BaseNext DEF EventsInv
<1>2. /\ In("dispatch") /\ ~Ended /\ Shifted(3, 1) /\ stack'[3] = Following
      /\ stack'[1] = NativeFrame(Len(events) + 1)
      /\ stack'[2] = FrameOf("interrupt", stack[1].event)
      /\ handlers' = handlers /\ heard' = heard /\ repeats' = repeats
      /\ \A k \in 1 .. Len(events) : events'[k] = events[k]
      /\ events'[Len(events) + 1] = NewEvent(ClickAt(1), "box", TRUE)
      /\ Object(1).target = "box" /\ stack[2].i = 2
      /\ \A h \in Handlers("box") : h.id # 0 => h.id \notin HeardOf(ClickAt(1))
  BY <1>1, InterruptStep DEF registry
<1>3. /\ Live(2) /\ NobodyHeard(2) /\ ClickAt(2) = ClickAt(1) /\ stack[2].event = stack[1].event
      /\ stack[1].frame = "dispatch" /\ 1 \in Depth
  BY <1>1, <1>2, DispatchWalk
<1>4. /\ stack'[1].frame = "native" /\ stack'[1].event = Len(events) + 1 /\ stack'[1].i = 1
      /\ stack'[2].frame = "interrupt" /\ stack'[3].frame = "dispatch"
  BY <1>1, <1>2, <1>3, Numbers, NewCalls, CalleeIs, SMTT(15)
<1>5. ClickAt(1)' = ClickAt(1) /\ Object(1)'.target = "box"
  BY <1>2, <1>4 DEF ClickAt, Object, NewEvent
<1>6. NobodyHeard(1)'
  <2>1. Object(2).target = "box"
    BY <1>2, <1>3 DEF Object
  <2> QED BY <1>1, <1>2, <1>3, <1>4, <1>5, <2>1, Again
<1>7. \A j \in 1 .. 3 : Live(j)' => NobodyHeard(j)'
  <2>1. \A j \in 1 .. 3 : j = 1 \/ j = 2 \/ j = 3
    OBVIOUS
  <2>2. ~Live(2)' /\ ~Live(3)'
    BY <1>4 DEF Live, Walks, Is
  <2> QED BY <1>6, <2>1, <2>2
<1>8. OldLive(3, 1)
  <2>1. Stopping /\ ~(stack[1].frame \in {"interrupt", "reinvoke"})
    BY <1>2, <1>3 DEF Stopping
  <2> QED BY <1>1, <1>2, <2>1, LiveBefore
<1>9. Spared(3, 1) /\ AtBox' /\ repeats' = {}
  BY <1>1, <1>2, <1>4 DEF Spared, Unheard, AtBox, Is, UnheardInv
<1>10. Rest(3 + 1, 1 + 1, 1)
  BY <1>1, <1>2, FollowingRest
<1> QED BY <1>1, <1>2, <1>7, <1>8, <1>9, <1>10, UnheardKept

LEMMA UnheardReinvoke ==
    ASSUME EventsInv, Next, Reinvoke
    PROVE  UnheardInv'
<1>1. /\ BaseInv /\ TriggeredInv /\ LeverageInv /\ UnheardInv /\ OnePassInv
      /\ BaseInv' /\ Grows
  BY BaseNext DEF EventsInv
<1>2. /\ In("dispatch") /\ ~Ended /\ Callee.guid = "leverage" /\ Object(1).native /\ saved.is = "args"
      /\ Shifted(3, 1) /\ stack'[3] = Following
      /\ stack'[1] = TriggerFrame(stack[3].event)
      /\ stack'[2] = FrameOf("reinvoke", stack[1].event)
      /\ handlers' = handlers /\ heard' = heard /\ repeats' = repeats
      /\ \A k \in 1 .. Len(events) : k # stack[3].event => events'[k] = events[k]
  BY <1>1, ReinvokeStep DEF registry
<1>3. /\ Live(2) /\ NobodyHeard(2) /\ ClickAt(2) = ClickAt(1) /\ stack[2].event = stack[1].event
      /\ stack[1].frame = "dispatch" /\ 1 \in Depth
      /\ \A m \in 1 + 1 .. Len(stack) : Live(m) /\ ClickAt(m) = ClickAt(1) => m = 2
  BY <1>1, <1>2, DispatchWalk
<1>4. /\ ClickAt(3) = ClickAt(1) /\ ~Object(3).native /\ Object(3).target = "box"
      /\ stack[3].event \in 1 .. Len(events) /\ stack[3].event \in Nat
  BY <1>1, <1>2, ReinvokedWhere, Numbers
<1>5. /\ stack'[1].frame = "trigger" /\ stack'[1].event = stack[3].event /\ stack'[1].i = 1
      /\ stack'[2].frame = "reinvoke" /\ stack'[3].frame = "dispatch"
  BY <1>1, <1>2, <1>3, <1>4, Numbers, NewCalls, CalleeIs, SMTT(45)
<1>6. ClickAt(1)' = ClickAt(1) /\ Object(1)'.target = "box"
  BY <1>1, <1>4, <1>5 DEF ClickAt, Object, Grows
<1>7. /\ stack[2].i = 2 /\ Object(2).target = "box"
      /\ \A h \in Handlers("box") : h.id # 0 => h.id \notin HeardOf(ClickAt(1))
  <2>1. Is(1, {"dispatch"}) /\ stack[1].queue # <<>> /\ Head(stack[1].queue)[2].guid = "leverage"
    BY <1>1, <1>2, <1>3, CalleeIs DEF Is
  <2>2. Object(2) = Object(1)
    BY <1>3 DEF Object
  <2> QED BY <1>1, <2>1, <2>2 DEF UnheardInv
<1>8. NobodyHeard(1)'
  BY <1>1, <1>2, <1>3, <1>5, <1>6, <1>7, Again
<1>9. \A j \in 1 .. 3 : Live(j)' => NobodyHeard(j)'
  <2>1. \A j \in 1 .. 3 : j = 1 \/ j = 2 \/ j = 3
    OBVIOUS
  <2>2. ~Live(2)' /\ ~Live(3)'
    BY <1>5 DEF Live, Walks, Is
  <2> QED BY <1>8, <2>1, <2>2
<1>10. OldLive(3, 1)
  <2>1. ASSUME NEW m \in 1 + 1 .. Len(stack), NEW j \in Nat, j = m - 1 + 3, Live(j)'
        PROVE  Live(m)
    <3>1. /\ Walks(m) /\ ~Discards(m) /\ m \in Depth /\ ~Waits(m) /\ stack'[j] = stack[m]
          /\ ~Object(j)'.immediate
      BY <1>1, <1>2, <1>3, <2>1, WalkBefore
    <3>2. CASE stack[m].event = stack[3].event
      <4>1. m # 2
        BY <1>2, <1>3, <1>4, <3>2 DEF Object
      <4>2. ClickAt(m) = ClickAt(2) /\ 2 < m /\ 2 \in Depth /\ ~Is(2, {"dispatch", "user"})
        BY <1>3, <1>4, <2>1, <3>2, <4>1 DEF ClickAt, Object, Live, Walks, Is
      <4>3. Waits(m)
        BY <1>1, <3>1, <4>2 DEF OnePassInv
      <4> QED BY <3>1, <4>3
    <3>3. CASE stack[m].event # stack[3].event
      <4>1. ~Object(m).immediate
        BY <1>1, <1>2, <3>1, <3>3, Numbers DEF Object
      <4> QED BY <3>1, <4>1 DEF Live
    <3> QED BY <3>2, <3>3
  <2> QED BY <2>1 DEF OldLive
<1>11. Spared(3, 1) /\ AtBox' /\ repeats' = {}
  BY <1>1, <1>2, <1>5 DEF Spared, Unheard, AtBox, Is, UnheardInv
<1>12. Rest(3 + 1, 1 + 1, 1)
  BY <1>1, <1>2, FollowingRest
<1> QED BY <1>1, <1>2, <1>9, <1>10, <1>11, <1>12, UnheardKept

\* The leverage's calls return: the walk they held up was stopped at once.
LEMMA UnheardBack ==
    ASSUME EventsInv, Next, Reinvoked \/ Interrupted
    PROVE  UnheardInv'
<1>1. /\ BaseInv /\ TriggeredInv /\ LeverageInv /\ UnheardInv /\ OnePassInv
      /\ BaseInv' /\ Grows
  BY BaseNext DEF EventsInv
<1>2. /\ stack # <<>> /\ Shifted(0, 1) /\ stack[1].frame \in {"interrupt", "reinvoke"}
      /\ heard' = heard /\ repeats' = repeats
      /\ \A k \in 1 .. Len(events) : k # stack[1].event => events'[k] = events[k]
      /\ events'[stack[1].event].immediate
  <2>1. CASE Reinvoked
    BY <1>1, <2>1, ReinvokedStep
  <2>2. CASE Interrupted
    <3>1. stack # <<>> /\ stack[1].frame = "interrupt"
      BY <1>1, <2>2, InterruptedStep
    <3>2. 1 \in Depth /\ Is(1, {"interrupt"})
      BY <1>1, <3>1, Numbers DEF Is
    <3>3. saved # Args(stack[1].event)
      BY <1>1, <3>2 DEF LeverageInv, Args, Captured
    <3> QED BY <1>1, <2>2, <3>3, InterruptedStep
  <2> QED BY <2>1, <2>2
<1>3. Is(2, {"dispatch"}) /\ stack[2].event = stack[1].event /\ stack[2].frame = "dispatch" /\ 2 \in Depth
  BY <1>1, <1>2, UnderTop DEF Is
<1>4. stack[3].event = stack[1].event
  <2>1. PICK m \in Depth : m = 2
    BY <1>3
  <2>2. stack[m].frame = "dispatch" => stack[m + 1].event = stack[m].event
    BY <1>1, <2>1 DEF BaseInv, StackInv, Stands
  <2>3. m + 1 = 3
    BY <2>1
  <2> QED BY <1>3, <2>1, <2>2, <2>3
<1>5. Stopping
  BY <1>2 DEF Stopping
<1>6. OldLive(0, 1)
  <2>1. ASSUME NEW m \in 1 + 1 .. Len(stack), NEW j \in Nat, j = m - 1 + 0, Live(j)'
        PROVE  Live(m)
    <3>1. /\ Walks(m) /\ ~Discards(m) /\ m \in Depth /\ stack'[j] = stack[m]
          /\ ~Object(j)'.immediate /\ (Waits(m) => m = 3)
      BY <1>1, <1>2, <2>1, WalkBefore
    <3>2. stack[m].event # stack[1].event
      BY <1>2, <3>1 DEF Object
    <3>3. ~Waits(m)
      BY <1>4, <3>1, <3>2
    <3>4. ~Object(m).immediate
      BY <1>1, <1>2, <3>1, <3>2, Numbers DEF Object
    <3> QED BY <3>1, <3>3, <3>4 DEF Live
  <2> QED BY <2>1 DEF OldLive
<1>7. Spared(0, 1) /\ repeats' = {}
  BY <1>1, <1>2 DEF Spared, Unheard, UnheardInv
<1>8. AtBox'
  BY <1>1, <1>2, NobodyAtBox
<1>9. Rest(0 + 1, 1 + 1, 0)
  BY <1>2, NoQueue DEF Shifted
<1> QED BY <1>1, <1>2, <1>6, <1>7, <1>8, <1>9, UnheardKept

LEMMA UnheardNext ==
    ASSUME EventsInv, Next
    PROVE  UnheardInv'
BY NextSplit, UnheardUser, UnheardEnd, UnheardVisit, UnheardPass, UnheardCall,
   UnheardInterrupt, UnheardReinvoke, UnheardBack

-----------------------------------------------------------------------------
(* A click that is over was heard by all it was for.                       *)

\* Who should hear a click has, or will, or it was stopped.
Safe(c) ==
    \/ clicks[c].stopped
    \/ Delivered(c)
    \/ \E j \in Depth : Live(j) /\ ClickAt(j) = c /\ ~Object(j).stopped /\ ToHear(j)

\* A walk from which everybody who should hear a click will be called.
Delivers(m) == m \in Depth /\ Live(m) /\ ~Object(m).stopped /\ ToHear(m)

\* Whoever was in the queue is, or has heard.
Reaches(j, m) ==
    \A l \in 1 .. Len(Queued(m)) :
        \/ Queued(m)[l][2].id = 0
        \/ Queued(m)[l][2].id \in HeardOf(ClickAt(j))'
        \/ \E i \in 1 .. Len(Queued(j)') : Queued(j)'[i][2].id = Queued(m)[l][2].id

\* The handlers a click is for are not new ones.
LEMMA DueKept ==
    ASSUME BaseInv, Grows, NEW c \in 1 .. Len(clicks), NEW e \in Elements, NEW h \in Handlers(e)',
           h.id \in clicks'[c].due
    PROVE  h \in Handlers(e) /\ h.id \in clicks[c].due /\ h.id # 0
<1>1. h.id \in clicks[c].due
  BY DEF Grows
<1>2. h.id \in 1 .. calls /\ calls \in Nat
  BY <1>1, Numbers DEF BaseInv, HistoryInv
<1>3. h \in Handlers(e) \/ h.id = 0 \/ h.id > calls
  BY DEF Grows
<1> QED BY <1>1, <1>2, <1>3

LEMMA DeliveredKept ==
    ASSUME BaseInv, Grows, heard \subseteq heard', NEW c \in 1 .. Len(clicks), Delivered(c)
    PROVE  Safe(c)'
<1>1. ASSUME NEW e \in Elements, NEW h \in Handlers(e)', h.id \in clicks'[c].due
      PROVE  h.id \in HeardOf(c)'
  <2>1. h \in Handlers(e) /\ h.id \in clicks[c].due
    BY <1>1, DueKept
  <2> QED BY <2>1 DEF Delivered, HeardOf
<1> QED BY <1>1 DEF Safe, Delivered

LEMMA WalkStays ==
    ASSUME BaseInv, BaseInv', Grows, heard \subseteq heard', NEW n \in Nat, NEW k \in {0, 1}, Shifted(n, k),
           NEW m \in k + 1 .. Len(stack), Delivers(m), NEW j \in Nat, j = m - k + n,
           ~events'[stack[m].event].stopped, Reaches(j, m),
           j - 2 \in 1 .. n => ~(stack'[j - 2].frame \in {"interrupt", "reinvoke"}),
           NEW c, c = ClickAt(m)
    PROVE  Safe(c)'
<1>1. j \in n + 1 .. Len(stack') /\ m = j - n + k
  BY MovesTo
<1>2. /\ m \in Depth /\ j \in Depth' /\ stack'[j] = stack[m] /\ ClickAt(j)' = ClickAt(m)
      /\ Object(j)'.target = Object(m).target
  BY <1>1, MovedCall
<1>3. Walks(j)' /\ ~Discards(j)'
  <2>1. \A kinds : Is(j, kinds)' <=> Is(m, kinds)
    BY <1>1, Moved
  <2>2. \A kinds : Is(j + 1, kinds)' <=> Is(m + 1, kinds)
    BY <1>1, Moved
  <2> QED BY <2>1, <2>2 DEF Delivers, Live, Walks, Discards
<1>4. ~Waits(j)'
  <2>1. Waits(j)' => \/ Waits(m)
                     \/ j - 2 \in 1 .. n /\ stack'[j - 2].frame \in {"interrupt", "reinvoke"}
    BY <1>1, WaitsAs
  <2> QED BY <2>1 DEF Delivers, Live
<1>5. ~Object(j)'.stopped /\ ~Object(j)'.immediate
  <2>1. stack'[j].event \in 1 .. Len(events')
    BY <1>2 DEF BaseInv, StackInv, Stands
  <2> QED BY <1>2, <2>1 DEF Object, BaseInv, HistoryInv
<1>6. Ahead(j)' = Ahead(m)
  BY <1>2 DEF Ahead
<1>7. ToHear(j)'
  <2>1. c \in 1 .. Len(clicks)
    BY <1>2, Numbers
  <2>2. ASSUME NEW e \in Elements, NEW h \in Handlers(e)', h.id \in clicks'[c].due
        PROVE  \/ h.id \in HeardOf(ClickAt(j))'
               \/ \E i \in 1 .. Len(Queued(j)') : Queued(j)'[i][2].id = h.id
               \/ e \in Ahead(j)' /\ (h.selector => Object(j)'.target # e)
    <3>1. h \in Handlers(e) /\ h.id \in clicks[c].due /\ h.id # 0
      BY <2>1, <2>2, DueKept
    <3>2. HeardOf(c) \subseteq HeardOf(ClickAt(j))'
      BY <1>2 DEF HeardOf
    <3>3. \/ h.id \in HeardOf(c)
          \/ \E l \in 1 .. Len(Queued(m)) : Queued(m)[l][2].id = h.id
          \/ e \in Ahead(m) /\ (h.selector => Object(m).target # e)
      BY <3>1 DEF Delivers, ToHear
    <3> QED BY <1>2, <1>6, <3>1, <3>2, <3>3 DEF Reaches
  <2> QED BY <1>2, <2>2 DEF ToHear
<1> QED BY <1>2, <1>3, <1>4, <1>5, <1>7 DEF Safe, Live

\* A walk further out has the queue it had.
LEMMA SameQueue ==
    ASSUME BaseInv, BaseInv', Grows, NEW n \in Nat, NEW k \in {0, 1}, Shifted(n, k),
           NEW m \in k + 1 .. Len(stack), NEW j \in Nat, j = m - k + n, m # k + 1
    PROVE  Reaches(j, m)
<1>0. Len(stack) \in Nat
  BY Numbers
<1>1. j \in n + 1 .. Len(stack') /\ m = j - n + k /\ m \in Nat
  <2>1. j \in n + 1 .. Len(stack') /\ m = j - n + k
    BY MovesTo
  <2> QED BY <1>0, <2>1
<1>2. PICK i, l : i = j - 1 /\ l = m - 1
  OBVIOUS
<1>3. i \in n + 1 .. Len(stack') /\ l = i - n + k /\ j > 1 /\ m > 1
  BY <1>1, <1>2
<1>4. stack'[i] = stack[l]
  BY <1>3, MovedCall
<1>5. Queued(j)' = Queued(m)
  BY <1>2, <1>3, <1>4 DEF Queued
<1> QED BY <1>5 DEF Reaches

\* Nobody is in the queue.
LEMMA NobodyQueued ==
    ASSUME BaseInv, NEW m \in Depth, m > 1 => stack[m - 1].queue = <<>>, NEW j
    PROVE  Reaches(j, m) /\ Queued(m) = <<>>
BY EmptySeq DEF Reaches, Queued

LEMMA DeliveryKept ==
    ASSUME BaseInv, BaseInv', Grows, DeliveryInv, heard \subseteq heard',
           \A c \in 1 .. Len(clicks') : c > Len(clicks) => Safe(c)',
           \A m \in Depth : Delivers(m) => \A c \in Nat : c = ClickAt(m) => Safe(c)'
    PROVE  DeliveryInv'
<1>1. ASSUME NEW c \in 1 .. Len(clicks') PROVE Safe(c)'
  <2>1. CASE c > Len(clicks)
    BY <2>1
  <2>2. CASE ~(c > Len(clicks))
    <3>1. c \in 1 .. Len(clicks) /\ c \in Nat
      BY <2>2, Numbers
    <3>2. \/ clicks[c].stopped
          \/ Delivered(c)
          \/ \E j \in Depth : Live(j) /\ ClickAt(j) = c /\ ~Object(j).stopped /\ ToHear(j)
      BY <3>1 DEF DeliveryInv
    <3>3. CASE clicks[c].stopped
      BY <3>1, <3>3 DEF Grows, Safe
    <3>4. CASE Delivered(c)
      BY <3>1, <3>4, DeliveredKept
    <3>5. CASE \E j \in Depth : Live(j) /\ ClickAt(j) = c /\ ~Object(j).stopped /\ ToHear(j)
      BY <3>1, <3>5 DEF Delivers
    <3> QED BY <3>2, <3>3, <3>4, <3>5
  <2> QED BY <2>1, <2>2
<1> QED BY <1>1 DEF Safe, DeliveryInv

\* What the user's calls leave to deliver.
LEMMA DeliveryUser ==
    ASSUME EventsInv, Next, On \/ Off
    PROVE  DeliveryInv'
<1>1. BaseInv /\ DeliveryInv /\ BaseInv' /\ Grows
  BY BaseNext DEF EventsInv
<1>2. UNCHANGED <<events, stack, clicks, heard>>
  BY <1>1, OnStep, OffStep
<1>3. Shifted(0, 0)
  BY <1>1, <1>2, SameStack
<1>4. ASSUME NEW m \in Depth, Delivers(m), NEW c \in Nat, c = ClickAt(m) PROVE Safe(c)'
  <2>1. m \in 0 + 1 .. Len(stack) /\ m \in Nat
    BY DEF Depth
  <2>2. PICK j \in Nat : j = m - 0 + 0
    BY <2>1
  <2>3. j = m
    BY <2>1, <2>2
  <2>4. Queued(j)' = Queued(m)
    BY <1>2, <2>3 DEF Queued
  <2>5. Reaches(j, m) /\ ~events'[stack[m].event].stopped
    BY <1>2, <1>4, <2>4 DEF Reaches, Delivers, Object
  <2>6. j - 2 \in 1 .. 0 => FALSE
    OBVIOUS
  <2>7. heard \subseteq heard'
    BY <1>2
  <2> QED BY <1>1, <1>3, <1>4, <2>1, <2>2, <2>5, <2>6, <2>7, WalkStays
<1>5. /\ heard \subseteq heard'
      /\ \A c \in 1 .. Len(clicks') : c > Len(clicks) => Safe(c)'
  <2>1. Len(clicks) \in Nat /\ Len(clicks') = Len(clicks)
    BY <1>1, <1>2, Numbers
  <2>2. \A c \in 1 .. Len(clicks') : ~(c > Len(clicks))
    BY <2>1
  <2> QED BY <1>2, <2>2
<1> QED BY <1>1, <1>4, <1>5, DeliveryKept

LEMMA DeliveryNew ==
    ASSUME EventsInv, Next, Trigger \/ RealClick
    PROVE  DeliveryInv'
<1>1. BaseInv /\ DeliveryInv /\ BaseInv' /\ Grows
  BY BaseNext DEF EventsInv
<1>2. /\ Shifted(1, 0) /\ heard' = heard /\ Len(clicks') = Len(clicks) + 1
      /\ \A k \in 1 .. Len(events) : events'[k] = events[k]
      /\ stack = <<>> \/ stack[1].frame = "user"
      /\ \/ stack'[1] = TriggerFrame(Len(events) + 1)
         \/ stack'[1] = NativeFrame(Len(events) + 1) /\ Len(stack') = 1
  BY <1>1, TriggerStep, RealClickStep
<1>3. PICK target \in Elements, native \in BOOLEAN :
          /\ events'[Len(events) + 1] = NewEvent(Len(clicks) + 1, target, native)
          /\ clicks'[Len(clicks) + 1].due = Due(target)
          /\ \A e \in Elements : \A h \in Handlers(e)' : h.id \in Due(target) =>
                /\ e \in {Path(target)[k] : k \in 1 .. Len(Path(target))}
                /\ h.selector => target # e
  <2>1. CASE Trigger
    <3>1. PICK target \in Elements :
              /\ events'[Len(events) + 1] = NewEvent(Len(clicks) + 1, target, FALSE)
              /\ clicks'[Len(clicks) + 1].due = Due(target)
              /\ \A e \in Elements : \A h \in Handlers(e)' : h.id \in Due(target) =>
                    /\ e \in {Path(target)[k] : k \in 1 .. Len(Path(target))}
                    /\ h.selector => target # e
      BY <1>1, <2>1, TriggerStep
    <3> QED BY <3>1
  <2>2. CASE RealClick
    <3>1. PICK target \in Elements :
              /\ events'[Len(events) + 1] = NewEvent(Len(clicks) + 1, target, TRUE)
              /\ clicks'[Len(clicks) + 1].due = Due(target)
              /\ \A e \in Elements : \A h \in Handlers(e)' : h.id \in Due(target) =>
                    /\ e \in {Path(target)[k] : k \in 1 .. Len(Path(target))}
                    /\ h.selector => target # e
      BY <1>1, <2>2, RealClickStep
    <3> QED BY <3>1
  <2> QED BY <2>1, <2>2
<1>4. /\ stack'[1].event = Len(events) + 1 /\ stack'[1].i = 1
      /\ stack'[1].frame = "trigger" \/ (stack'[1].frame = "native" /\ Len(stack') = 1)
  BY <1>1, <1>2, Numbers, NewCalls
<1>5. 1 \in Depth'
  BY <1>1, <1>2, Numbers DEF Shifted, Depth
<1>6. /\ ClickAt(1)' = Len(clicks) + 1 /\ Object(1)'.target = target
      /\ ~Object(1)'.stopped /\ ~Object(1)'.immediate
  BY <1>3, <1>4 DEF ClickAt, Object, NewEvent
<1>7. Live(1)'
  <2>1. Walks(1)' /\ ~Waits(1)'
    BY <1>4, <1>5 DEF Walks, Is, Waits
  <2>2. ~Discards(1)'
    <3>1. ASSUME Is(1, {"native"})' PROVE ~Is(1 + 1, {"default"})'
      <4>1. Len(stack') = 1
        BY <1>4, <3>1 DEF Is
      <4>2. 1 + 1 \notin 1 .. Len(stack')
        BY <4>1, Alone
      <4> QED BY <4>2 DEF Is, Depth
    <3> QED BY <3>1 DEF Discards
  <2> QED BY <1>6, <2>1, <2>2 DEF Live
<1>8. ToHear(1)'
  <2>1. Ahead(1)' = {Path(target)[k] : k \in 1 .. Len(Path(target))}
    BY <1>4, <1>6 DEF Ahead
  <2> QED BY <1>3, <1>6, <2>1 DEF ToHear
<1>9. \A c : c = ClickAt(1)' => Safe(c)'
  BY <1>5, <1>6, <1>7, <1>8 DEF Safe
<1>10. \A c \in 1 .. Len(clicks') : c > Len(clicks) => Safe(c)'
  <2>1. Len(clicks) \in Nat
    BY <1>1, Numbers
  <2>2. \A c \in 1 .. Len(clicks') : c > Len(clicks) => c = Len(clicks) + 1
    BY <1>2, <2>1
  <2> QED BY <1>6, <1>9, <2>2
<1>11. ASSUME NEW m \in Depth, Delivers(m), NEW c \in Nat, c = ClickAt(m) PROVE Safe(c)'
  <2>1. m \in 0 + 1 .. Len(stack) /\ m \in Nat
    BY DEF Depth
  <2>2. PICK j \in Nat : j = m - 0 + 1
    BY <2>1
  <2>3. Reaches(j, m)
    <3>1. CASE m = 1
      <4>1. m > 1 => stack[m - 1].queue = <<>>
        BY <3>1
      <4> QED BY <1>1, <4>1, NobodyQueued
    <3>2. CASE m # 0 + 1
      BY <1>1, <1>2, <2>1, <2>2, <3>2, SameQueue
    <3> QED BY <3>1, <3>2
  <2>4. ~events'[stack[m].event].stopped
    BY <1>1, <1>2, <1>11, Numbers DEF Delivers, Object
  <2>5. j - 2 \in 1 .. 1 => ~(stack'[j - 2].frame \in {"interrupt", "reinvoke"})
    <3>1. \A x \in 1 .. 1 : x = 1
      OBVIOUS
    <3> QED BY <1>4, <3>1
  <2>6. heard \subseteq heard'
    BY <1>2
  <2> QED BY <1>1, <1>2, <1>11, <2>1, <2>2, <2>3, <2>4, <2>5, <2>6, WalkStays
<1>12. heard \subseteq heard'
  BY <1>2
<1> QED BY <1>1, <1>10, <1>11, <1>12, DeliveryKept

\* What a step that ends or replaces the innermost call leaves to deliver.
LEMMA StillDelivers ==
    ASSUME BaseInv, BaseInv', Grows, heard \subseteq heard', NEW n \in Nat, Shifted(n, 1),
           NEW m \in Depth, m # 1, Delivers(m), ~events'[stack[m].event].stopped,
           m # 2 => n = 0 \/ ~(stack'[n].frame \in {"interrupt", "reinvoke"}),
           m = 2 => /\ Reaches(n + 1, 2)
                    /\ \A j \in 1 .. n : ~(stack'[j].frame \in {"interrupt", "reinvoke"}),
           NEW c, c = ClickAt(m)
    PROVE  Safe(c)'
<1>1. m \in 1 + 1 .. Len(stack) /\ m \in Nat
  BY DEF Depth
<1>2. PICK j \in Nat : j = m - 1 + n
  BY <1>1
<1>3. Reaches(j, m)
  <2>1. CASE m = 2
    <3>1. j = n + 1
      BY <1>2, <2>1
    <3> QED BY <2>1, <3>1
  <2>2. CASE m # 1 + 1
    BY <1>1, <1>2, <2>2, SameQueue
  <2> QED BY <2>1, <2>2
<1>4. j - 2 \in 1 .. n => ~(stack'[j - 2].frame \in {"interrupt", "reinvoke"})
  <2>1. CASE m = 2
    BY <2>1
  <2>2. CASE m # 2
    <3>1. j - 2 \in 1 .. n => j - 2 = n /\ n # 0
      BY <1>1, <1>2, <2>2
    <3> QED BY <2>2, <3>1
  <2> QED BY <2>1, <2>2
<1> QED BY <1>1, <1>2, <1>3, <1>4, WalkStays

LEMMA DeliveryStep ==
    ASSUME BaseInv, BaseInv', Grows, DeliveryInv, heard \subseteq heard', Len(clicks') = Len(clicks),
           \A m \in Depth : Delivers(m) => \A c \in Nat : c = ClickAt(m) => Safe(c)'
    PROVE  DeliveryInv'
<1>1. \A c \in 1 .. Len(clicks') : ~(c > Len(clicks))
  BY Numbers
<1> QED BY <1>1, DeliveryKept

\* At the end of its path a walk has delivered.
LEMMA WalkOver ==
    ASSUME BaseInv, Grows, heard \subseteq heard', 1 \in Depth, Delivers(1),
           stack[1].i > Len(Path(Object(1).target)), NEW c, c = ClickAt(1)
    PROVE  Safe(c)'
<1>1. Ahead(1) = {}
  <2>1. stack[1].i \in Nat /\ Object(1).target \in Elements
    BY Numbers, Lens DEF BaseInv, Frame, Depth, EventObject
  <2>2. Len(Path(Object(1).target)) \in Nat
    <3>1. Object(1).target = "box" \/ Object(1).target = "form"
      BY <2>1, Paths
    <3> QED BY <3>1, Paths
  <2>3. stack[1].i .. Len(Path(Object(1).target)) = {}
    BY <2>1, <2>2
  <2> QED BY <2>3 DEF Ahead
<1>2. Queued(1) = <<>>
  BY DEF Queued
<1>3. Delivered(c)
  BY <1>1, <1>2, EmptySeq DEF Delivers, ToHear, Delivered
<1>4. c \in 1 .. Len(clicks)
  BY Numbers
<1> QED BY <1>3, <1>4, DeliveredKept

LEMMA DeliveryReturn ==
    ASSUME EventsInv, Next, Return
    PROVE  DeliveryInv'
<1>1. BaseInv /\ DeliveryInv /\ BaseInv' /\ Grows
  BY BaseNext DEF EventsInv
<1>2. /\ stack # <<>> /\ stack[1].frame = "user" /\ Shifted(0, 1) /\ heard' = heard
      /\ Len(clicks') = Len(clicks)
      /\ \A k \in 1 .. Len(events) : k # stack[1].event => events'[k] = events[k]
      /\ events'[stack[1].event].stopped =>
            Object(1).stopped \/ clicks'[ClickAt(1)].stopped
  BY <1>1, ReturnStep
<1>3. 1 \in Depth /\ stack[1].queue = <<>>
  BY <1>1, <1>2, Numbers DEF BaseInv, StackInv, Queues
<1>4. ASSUME NEW m \in Depth, Delivers(m), NEW c \in Nat, c = ClickAt(m) PROVE Safe(c)'
  <2>1. m # 1
    BY <1>2, <1>4 DEF Delivers, Live, Walks, Is
  <2>2. CASE ~events'[stack[m].event].stopped
    <3>1. m = 2 => Reaches(0 + 1, 2)
      <4>1. m > 1 => (m = 2 => stack[m - 1].queue = <<>>)
        BY <1>3
      <4> QED BY <1>1, <4>1, NobodyQueued
    <3>2. heard \subseteq heard'
      BY <1>2
    <3> QED BY <1>1, <1>2, <1>4, <2>1, <2>2, <3>1, <3>2, StillDelivers
  <2>3. CASE events'[stack[m].event].stopped
    <3>1. stack[m].event \in 1 .. Len(events)
      BY <1>1, Numbers
    <3>2. stack[m].event = stack[1].event
      BY <1>2, <1>4, <2>3, <3>1 DEF Delivers, Object
    <3>3. clicks'[c].stopped
      BY <1>2, <1>4, <2>3, <3>2 DEF Delivers, Object, ClickAt
    <3> QED BY <3>3 DEF Safe
  <2> QED BY <2>2, <2>3
<1>5. heard \subseteq heard'
  BY <1>2
<1> QED BY <1>1, <1>2, <1>4, <1>5, DeliveryStep

LEMMA DeliveryEnd ==
    ASSUME EventsInv, Next, EndNext
    PROVE  DeliveryInv'
<1>1. BaseInv /\ DeliveryInv /\ BaseInv' /\ Grows
  BY BaseNext DEF EventsInv
<1>2. /\ UNCHANGED <<events, clicks, heard>> /\ stack # <<>> /\ Shifted(0, 1)
      /\ stack[1].frame \in {"trigger", "native", "dispatch", "default"}
      /\ stack[1].frame \in {"trigger", "native"} =>
            Object(1).stopped \/ stack[1].i > Len(Path(Object(1).target))
      /\ stack[1].frame = "dispatch" =>
            stack[1].queue = <<>> \/ Object(1).immediate \/ Object(1).stopped
  BY <1>1, EndStep
<1>3. 1 \in Depth /\ (stack[1].frame # "dispatch" => stack[1].queue = <<>>)
  BY <1>1, <1>2, Numbers DEF BaseInv, StackInv, Queues
<1>4. heard \subseteq heard'
  BY <1>2
<1>5. ASSUME NEW m \in Depth, Delivers(m), NEW c \in Nat, c = ClickAt(m) PROVE Safe(c)'
  <2>1. CASE m = 1
    <3>1. stack[1].frame \in {"trigger", "native"} /\ ~Object(1).stopped
      BY <1>5, <2>1 DEF Delivers, Live, Walks, Is
    <3> QED BY <1>1, <1>2, <1>3, <1>4, <1>5, <2>1, <3>1, WalkOver
  <2>2. CASE m # 1
    <3>1. m = 2 => stack[1].queue = <<>>
      <4>1. CASE stack[1].frame # "dispatch"
        BY <1>3, <4>1
      <4>2. CASE m = 2 /\ stack[1].frame = "dispatch"
        <5>1. Object(2) = Object(1)
          BY <1>1, <1>2, <4>2, UnderTop DEF Object
        <5> QED BY <1>2, <1>5, <4>2, <5>1 DEF Delivers, Live
      <4> QED BY <4>1, <4>2
    <3>2. m = 2 => Reaches(0 + 1, 2)
      <4>1. m > 1 => (m = 2 => stack[m - 1].queue = <<>>)
        BY <3>1
      <4> QED BY <1>1, <4>1, NobodyQueued
    <3>3. ~events'[stack[m].event].stopped
      BY <1>2, <1>5 DEF Delivers, Object
    <3> QED BY <1>1, <1>2, <1>4, <1>5, <2>2, <3>2, <3>3, StillDelivers
  <2> QED BY <2>1, <2>2
<1>6. Len(clicks') = Len(clicks)
  BY <1>2
<1> QED BY <1>1, <1>4, <1>5, <1>6, DeliveryStep

LEMMA DeliveryDefault ==
    ASSUME EventsInv, Next, TriggerDefault
    PROVE  DeliveryInv'
<1>1. BaseInv /\ DeliveryInv /\ BaseInv' /\ Grows
  BY BaseNext DEF EventsInv
<1>2. /\ heard' = heard /\ stack # <<>> /\ stack[1].frame = "trigger" /\ Shifted(2, 1)
      /\ stack'[1].frame = "native" /\ stack'[2].frame = "default"
      /\ Object(1).stopped \/ stack[1].i > Len(Path(Object(1).target))
      /\ Len(clicks') = Len(clicks)
      /\ \A k \in 1 .. Len(events) : events'[k] = events[k]
  BY <1>1, TriggerDefaultStep, Numbers, NewCalls
<1>3. 1 \in Depth /\ stack[1].queue = <<>>
  BY <1>1, <1>2, Numbers DEF BaseInv, StackInv, Queues
<1>4. heard \subseteq heard'
  BY <1>2
<1>5. ASSUME NEW m \in Depth, Delivers(m), NEW c \in Nat, c = ClickAt(m) PROVE Safe(c)'
  <2>1. CASE m = 1
    BY <1>1, <1>2, <1>3, <1>4, <1>5, <2>1, WalkOver DEF Delivers
  <2>2. CASE m # 1
    <3>1. m = 2 => Reaches(2 + 1, 2)
      <4>1. m > 1 => (m = 2 => stack[m - 1].queue = <<>>)
        BY <1>3
      <4> QED BY <1>1, <4>1, NobodyQueued
    <3>2. ~events'[stack[m].event].stopped
      BY <1>1, <1>2, <1>5, Numbers DEF Delivers, Object
    <3>3. /\ ~(stack'[2].frame \in {"interrupt", "reinvoke"})
          /\ \A j \in 1 .. 2 : ~(stack'[j].frame \in {"interrupt", "reinvoke"})
      BY <1>2
    <3> QED BY <1>1, <1>2, <1>4, <1>5, <2>2, <3>1, <3>2, <3>3, StillDelivers
  <2> QED BY <2>1, <2>2
<1> QED BY <1>1, <1>2, <1>4, <1>5, DeliveryStep

LEMMA DeliveryVisit ==
    ASSUME EventsInv, Next, VisitNext
    PROVE  DeliveryInv'
<1>1. BaseInv /\ TriggeredInv /\ DeliveryInv /\ BaseInv' /\ Grows
  BY BaseNext DEF EventsInv
<1> DEFINE target == Object(1).target
           e == Path(target)[stack[1].i]
           next == [stack[1] EXCEPT !.i = @ + 1]
           q == HandlerQueue(e, target)
           new == DispatchFrame(stack[1].event, e, q)
           further == {Path(target)[k] : k \in stack[1].i + 1 .. Len(Path(target))}
<1>2. /\ UNCHANGED <<registry, saved, triggered, events, clicks, heard, repeats>>
      /\ stack # <<>> /\ stack[1].frame \in {"trigger", "native"} /\ ~Object(1).stopped
      /\ stack[1].i \in 1 .. Len(Path(target)) /\ e \in Elements
      /\ \/ (handlers[e] = <<>> \/ triggered) /\ Shifted(1, 1) /\ stack'[1] = next
         \/ Shifted(2, 1) /\ stack'[2] = next /\ stack'[1] = new
  BY <1>1, VisitStep
<1>3. /\ 1 \in Depth /\ ~Object(1).immediate /\ stack[1].queue = <<>>
      /\ further \subseteq Ahead(1)
  BY <1>1, <1>2, WalkAt
<1>4. /\ next.frame = stack[1].frame /\ next.event = stack[1].event
      /\ next.i = stack[1].i + 1
      /\ new.frame = "dispatch" /\ new.event = stack[1].event /\ new.queue = q
  BY <1>1, <1>2, <1>3, StackTop DEF BaseInv, Frame, DispatchFrame, Idle
<1>5. handlers' = handlers /\ heard' = heard /\ heard \subseteq heard' /\ Len(clicks') = Len(clicks)
      /\ events' = events /\ clicks' = clicks
  BY <1>2 DEF registry
<1>6. target \in Elements
  BY <1>1, <1>3, Numbers DEF EventObject
<1>7. Ahead(1) \subseteq further \cup {e}
  <2>1. Len(Path(target)) \in Nat
    BY <1>6, Paths
  <2>2. \A k \in stack[1].i .. Len(Path(target)) :
            k = stack[1].i \/ k \in stack[1].i + 1 .. Len(Path(target))
    BY <1>2, <2>1
  <2> QED BY <2>2 DEF Ahead
<1>8. ASSUME NEW m \in Depth, m # 1, Delivers(m), NEW c \in Nat, c = ClickAt(m) PROVE Safe(c)'
  <2>1. \A n : Reaches(n + 1, 2) \/ m # 2
    <3>1. m > 1 => (m = 2 => stack[m - 1].queue = <<>>)
      BY <1>3
    <3> QED BY <1>1, <3>1, NobodyQueued
  <2>2. ~events'[stack[m].event].stopped
    BY <1>5, <1>8 DEF Delivers, Object
  <2>3. CASE Shifted(1, 1) /\ stack'[1] = next
    <3>2. ~(stack'[1].frame \in {"interrupt", "reinvoke"})
      BY <1>2, <1>4, <2>3
    <3>1. \A j \in 1 .. 1 : ~(stack'[j].frame \in {"interrupt", "reinvoke"})
      <4>1. \A j \in 1 .. 1 : j = 1
        OBVIOUS
      <4> QED BY <3>2, <4>1
    <3>3. m = 2 => Reaches(1 + 1, 2)
      BY <2>1
    <3> QED BY <1>1, <1>5, <1>8, <2>2, <2>3, <3>1, <3>2, <3>3, StillDelivers
  <2>4. CASE Shifted(2, 1) /\ stack'[2] = next /\ stack'[1] = new
    <3>2. ~(stack'[2].frame \in {"interrupt", "reinvoke"})
      BY <1>2, <1>4, <2>4
    <3>1. \A j \in 1 .. 2 : ~(stack'[j].frame \in {"interrupt", "reinvoke"})
      <4>1. \A j \in 1 .. 2 : j = 1 \/ j = 2
        OBVIOUS
      <4>2. stack'[1].frame = "dispatch"
        BY <1>4, <2>4
      <4> QED BY <3>2, <4>1, <4>2
    <3>3. m = 2 => Reaches(2 + 1, 2)
      BY <2>1
    <3> QED BY <1>1, <1>5, <1>8, <2>2, <2>4, <3>1, <3>2, <3>3, StillDelivers
  <2> QED BY <1>2, <2>3, <2>4
<1> HIDE DEF next, new, q, further, e
<1>9. ASSUME Delivers(1), NEW c \in Nat, c = ClickAt(1) PROVE Safe(c)'
  <2>0. c \in 1 .. Len(clicks)
    BY <1>1, <1>3, <1>9, Numbers
  <2>1. Live(1) /\ ~Object(1).stopped /\ ToHear(1) /\ ~Discards(1) /\ Queued(1) = <<>>
    BY <1>9 DEF Delivers, Live, Queued
  <2>2. \A d \in Elements : \A h \in Handlers(d) : h.id \in clicks[c].due =>
            \/ h.id \in HeardOf(c)
            \/ d \in Ahead(1) /\ (h.selector => target # d)
    BY <1>9, <2>1, EmptySeq DEF ToHear
  <2>3. ASSUME NEW n \in Nat, Shifted(n, 1), stack'[n] = next, n \in {1, 2}
        PROVE  /\ n \in Depth' /\ Live(n)' /\ ClickAt(n)' = c /\ ~Object(n)'.stopped
               /\ Object(n)'.target = target /\ Ahead(n)' = further
    <3>1. n \in Depth'
      BY <1>1, <1>2, <2>3, StackTop DEF Shifted, Depth, BaseInv
    <3>2. ClickAt(n)' = c /\ Object(n)' = Object(1)
      BY <1>4, <1>5, <1>9, <2>3 DEF ClickAt, Object
    <3>3. Walks(n)' /\ ~Waits(n)'
      BY <1>2, <1>4, <2>3, <3>1 DEF Walks, Is, Waits
    <3>4. ~Discards(n)'
      <4>1. Is(n + 1, {"default"})' <=> Is(2, {"default"})
        BY <1>1, <1>2, <2>3, Beneath
      <4>2. Is(n, {"native"})' => Is(1, {"native"})
        BY <1>3, <1>4, <2>3 DEF Is
      <4>3. PICK k : k = 1 + 1
        OBVIOUS
      <4>4. k = 2
        BY <4>3
      <4>5. ~(Is(1, {"native"}) /\ Is(k, {"default"}))
        BY <2>1, <4>3 DEF Discards
      <4> QED BY <4>1, <4>2, <4>4, <4>5 DEF Discards
    <3>5. Ahead(n)' = further
      BY <1>4, <2>3, <3>2 DEF Ahead, further
    <3> QED BY <1>3, <2>1, <3>1, <3>2, <3>3, <3>4, <3>5 DEF Live
  <2>4. ASSUME NEW n \in {1, 2}, Shifted(n, 1), stack'[n] = next,
               \A h \in Handlers(e) : h.id \in clicks[c].due /\ (h.selector => target # e) =>
                   \E i \in 1 .. Len(Queued(n)') : Queued(n)'[i][2].id = h.id
        PROVE  Safe(c)'
    <3>1. /\ n \in Depth' /\ Live(n)' /\ ClickAt(n)' = c /\ ~Object(n)'.stopped
          /\ Object(n)'.target = target /\ Ahead(n)' = further
      BY <2>3, <2>4
    <3>2. ToHear(n)'
      <4>1. ASSUME NEW d \in Elements, NEW h \in Handlers(d)', h.id \in clicks'[c].due
            PROVE  \/ h.id \in HeardOf(ClickAt(n))'
                   \/ \E i \in 1 .. Len(Queued(n)') : Queued(n)'[i][2].id = h.id
                   \/ d \in further /\ (h.selector => target # d)
        <5>1. h \in Handlers(d) /\ h.id \in clicks[c].due
          BY <1>1, <2>0, <4>1, DueKept
        <5>2. HeardOf(ClickAt(n))' = HeardOf(c)
          BY <1>5, <3>1 DEF HeardOf
        <5>3. h.id \in HeardOf(c) \/ (d \in further \cup {e} /\ (h.selector => target # d))
          BY <1>7, <2>2, <5>1
        <5> QED BY <2>4, <5>1, <5>2, <5>3
      <4> QED BY <3>1, <4>1 DEF ToHear
    <3> QED BY <3>1, <3>2 DEF Safe
  <2>5. CASE (handlers[e] = <<>> \/ triggered) /\ Shifted(1, 1) /\ stack'[1] = next
    <3>1. ~triggered
      <4>1. ASSUME triggered PROVE FALSE
        <5>1. PICK d \in Depth : Is(d, {"default"})
          BY <1>1, <4>1 DEF TriggeredInv
        <5>2. d = 2 /\ Is(1, {"native"})
          BY <1>1, <1>2, <5>1 DEF TriggeredInv, Is
        <5>3. PICK k : k = 1 + 1
          OBVIOUS
        <5>4. k = d
          BY <5>2, <5>3
        <5> QED BY <2>1, <5>1, <5>2, <5>3, <5>4 DEF Discards
      <4> QED BY <4>1
    <3>2. Handlers(e) = {}
      BY <2>5, <3>1, EmptySeq DEF Handlers, Seqs!ToSet
    <3> QED BY <2>4, <2>5, <3>2
  <2>6. CASE Shifted(2, 1) /\ stack'[2] = next /\ stack'[1] = new
    <3>1. Queued(2)' = q
      <4>1. PICK j : j = 2
        OBVIOUS
      <4>2. j > 1 /\ j - 1 = 1
        BY <4>1
      <4> QED BY <1>4, <2>6, <4>1, <4>2 DEF Queued
    <3>2. /\ Offset(e, target) \in 0 .. Len(handlers[e])
          /\ Len(q) = Len(handlers[e]) - Offset(e, target)
          /\ \A k \in 1 .. Len(q) : q[k][2] = handlers[e][k + Offset(e, target)]
      BY <1>1, <1>2, <1>6, QueueOf DEF BaseInv, q, e
    <3>3. e \in Elements /\ handlers[e] \in Seq(Handle) /\ Len(handlers[e]) \in Nat
      BY <1>1, <1>2, LenProperties DEF BaseInv, TypesInv, e
    <3>4. ASSUME NEW h \in Handlers(e), h.selector => target # e
          PROVE  \E i \in 1 .. Len(q) : q[i][2].id = h.id
      <4>1. PICK k \in 1 .. Len(handlers[e]) : h = handlers[e][k]
        BY <3>3, LenProperties DEF Handlers, Seqs!ToSet
      <4>2. k > Offset(e, target)
        <5>1. CASE target # e
          BY <5>1 DEF Offset
        <5>2. CASE target = e
          BY <1>1, <3>3, <3>4, <4>1, <5>2 DEF Offset, BaseInv, RegistryInv, Front
        <5> QED BY <5>1, <5>2
      <4>3. k - Offset(e, target) \in 1 .. Len(q) /\ (k - Offset(e, target)) + Offset(e, target) = k
        BY <3>2, <3>3, <4>2
      <4>4. q[k - Offset(e, target)][2] = h
        BY <3>2, <4>1, <4>3
      <4> QED BY <4>3, <4>4
    <3>5. \A h \in Handlers(e) : h.id \in clicks[c].due /\ (h.selector => target # e) =>
              \E i \in 1 .. Len(Queued(2)') : Queued(2)'[i][2].id = h.id
      BY <3>1, <3>4
    <3> QED BY <2>4, <2>6, <3>5
  <2> QED BY <1>2, <2>5, <2>6 DEF e, next, new, q
<1>10. ASSUME NEW m \in Depth, Delivers(m), NEW c \in Nat, c = ClickAt(m) PROVE Safe(c)'
  BY <1>8, <1>9, <1>10
<1> QED BY <1>1, <1>5, <1>10, DeliveryStep

\* The first of the queue hears, and the rest is still queued.
LEMMA DeliveryPass ==
    ASSUME EventsInv, Next, Pass
    PROVE  DeliveryInv'
<1>1. /\ BaseInv /\ TriggeredInv /\ UnheardInv /\ OnePassInv /\ DeliveryInv
      /\ BaseInv' /\ Grows
  BY BaseNext DEF EventsInv
<1>2. /\ In("dispatch") /\ ~Ended /\ Shifted(1, 1) /\ stack'[1] = Following
      /\ UNCHANGED <<events, clicks, heard>> /\ Callee.id = 0
  BY <1>1, PassStep
<1>3. /\ stack[1].frame = "dispatch" /\ Following.frame = "dispatch"
      /\ Callee = stack[1].queue[1][2] /\ Len(stack[1].queue) \in Nat
      /\ Len(Following.queue) = Len(stack[1].queue) - 1
      /\ \A k \in 1 .. Len(Following.queue) : Following.queue[k] = stack[1].queue[k + 1]
  BY <1>1, <1>2, CalleeIs
<1>4. Queued(2) = stack[1].queue
  BY <1>1, <1>2, DispatchWalk
<1>5. Queued(1 + 1)' = Following.queue
  BY <1>1, <1>2, FollowingRest
<1>6. Reaches(1 + 1, 2)
  <2>1. ASSUME NEW l \in 1 .. Len(stack[1].queue), l # 1
        PROVE  \E i \in 1 .. Len(Following.queue) : Following.queue[i][2].id = stack[1].queue[l][2].id
    <3>1. l - 1 \in 1 .. Len(Following.queue) /\ (l - 1) + 1 = l
      BY <1>3, <2>1
    <3> QED BY <1>3, <3>1
  <2>2. PICK j : j = 1 + 1
    OBVIOUS
  <2>3. Queued(j)' = Following.queue
    BY <1>5, <2>2
  <2>4. \A l \in 1 .. Len(stack[1].queue) :
            \/ stack[1].queue[l][2].id = 0
            \/ \E i \in 1 .. Len(Following.queue) : Following.queue[i][2].id = stack[1].queue[l][2].id
    <3>1. stack[1].queue[1][2].id = 0
      BY <1>2, <1>3
    <3> QED BY <2>1, <3>1
  <2>5. Reaches(j, 2)
    BY <1>4, <2>3, <2>4 DEF Reaches
  <2> QED BY <2>2, <2>5
<1>7. \A j \in 1 .. 1 : ~(stack'[j].frame \in {"interrupt", "reinvoke"})
  <2>1. \A j \in 1 .. 1 : j = 1
    OBVIOUS
  <2> QED BY <1>2, <1>3, <2>1
<1>8. heard \subseteq heard' /\ Len(clicks') = Len(clicks)
  BY <1>2
<1>9. ASSUME NEW m \in Depth, Delivers(m), NEW c \in Nat, c = ClickAt(m) PROVE Safe(c)'
  <2>1. m # 1
    BY <1>3, <1>9 DEF Delivers, Live, Walks, Is
  <2>2. ~events'[stack[m].event].stopped
    BY <1>2, <1>9 DEF Delivers, Object
  <2>3. ~(stack'[1].frame \in {"interrupt", "reinvoke"})
    BY <1>2, <1>3
  <2> QED BY <1>1, <1>2, <1>6, <1>7, <1>8, <1>9, <2>1, <2>2, <2>3, StillDelivers
<1> QED BY <1>1, <1>8, <1>9, DeliveryStep

LEMMA DeliveryCall ==
    ASSUME EventsInv, Next, CallUser
    PROVE  DeliveryInv'
<1>1. /\ BaseInv /\ TriggeredInv /\ UnheardInv /\ OnePassInv /\ DeliveryInv
      /\ BaseInv' /\ Grows
  BY BaseNext DEF EventsInv
<1> DEFINE hears == <<ClickAt(1), Callee.id, Callee.once>>
<1>2. /\ In("dispatch") /\ ~Ended /\ Shifted(2, 1) /\ stack'[2] = Following
      /\ stack'[1] = FrameOf("user", stack[1].event)
      /\ UNCHANGED <<events, clicks>> /\ heard' = heard \cup {hears}
  BY <1>1, UserStep
<1>3. /\ stack[1].frame = "dispatch" /\ Following.frame = "dispatch" /\ stack'[1].frame = "user"
      /\ Callee = stack[1].queue[1][2] /\ Len(stack[1].queue) \in Nat
      /\ Len(Following.queue) = Len(stack[1].queue) - 1
      /\ \A k \in 1 .. Len(Following.queue) : Following.queue[k] = stack[1].queue[k + 1]
  BY <1>1, <1>2, CalleeIs, NewCalls
<1>4. Queued(2) = stack[1].queue /\ ClickAt(2) = ClickAt(1) /\ 2 \in Depth
  BY <1>1, <1>2, DispatchWalk
<1>5. Queued(2 + 1)' = Following.queue
  <2>1. PICK n \in {1, 2, 3} : n = 2
    OBVIOUS
  <2>2. Queued(n + 1)' = Following.queue
    BY <1>1, <1>2, <2>1, FollowingRest
  <2> QED BY <2>1, <2>2
<1>6. ClickAt(2 + 1)' = ClickAt(1)
  <2>1. PICK n \in Nat, j \in Nat : n = 2 /\ j = n + 1
    OBVIOUS
  <2>2. PICK m \in Nat : m = 2
    OBVIOUS
  <2>3. j \in n + 1 .. Len(stack') /\ m = j - n + 1
    BY <1>1, <1>2, <1>4, <2>1, <2>2, Numbers DEF Shifted, Depth
  <2>4. ClickAt(j)' = ClickAt(m)
    BY <1>1, <1>2, <2>1, <2>3, MovedCall
  <2> QED BY <1>4, <2>1, <2>2, <2>4
<1>7. Reaches(2 + 1, 2)
  <2>1. ASSUME NEW l \in 1 .. Len(stack[1].queue), l # 1
        PROVE  \E i \in 1 .. Len(Following.queue) : Following.queue[i][2].id = stack[1].queue[l][2].id
    <3>1. l - 1 \in 1 .. Len(Following.queue) /\ (l - 1) + 1 = l
      BY <1>3, <2>1
    <3> QED BY <1>3, <3>1
  <2>2. Callee.id \in HeardOf(ClickAt(2 + 1))'
    <3>1. hears \in heard' /\ hears[1] = ClickAt(2 + 1)' /\ hears[2] = Callee.id
      BY <1>2, <1>6
    <3> QED BY <3>1 DEF HeardOf
  <2> QED BY <1>3, <1>4, <1>5, <2>1, <2>2 DEF Reaches
<1>8. \A j \in 1 .. 2 : ~(stack'[j].frame \in {"interrupt", "reinvoke"})
  <2>1. \A j \in 1 .. 2 : j = 1 \/ j = 2
    OBVIOUS
  <2> QED BY <1>2, <1>3, <2>1
<1>9. heard \subseteq heard' /\ Len(clicks') = Len(clicks)
  BY <1>2
<1>10. ASSUME NEW m \in Depth, Delivers(m), NEW c \in Nat, c = ClickAt(m) PROVE Safe(c)'
  <2>1. m # 1
    BY <1>3, <1>10 DEF Delivers, Live, Walks, Is
  <2>2. ~events'[stack[m].event].stopped
    BY <1>2, <1>10 DEF Delivers, Object
  <2>3. ~(stack'[2].frame \in {"interrupt", "reinvoke"})
    BY <1>2, <1>3
  <2> QED BY <1>1, <1>2, <1>7, <1>8, <1>9, <1>10, <2>1, <2>2, <2>3, StillDelivers
<1> QED BY <1>1, <1>9, <1>10, DeliveryStep

\* A walk that starts at the box will come by everybody.
LEMMA AllAhead ==
    ASSUME BaseInv', Object(1)'.target = "box", stack'[1].i = 1
    PROVE  ToHear(1)'
<1>1. Ahead(1)' = {"box", "form"}
  <2>1. Len(Path("box")) = 2
    BY Paths
  <2>2. \A k : k \in 1 .. 2 <=> k = 1 \/ k = 2
    OBVIOUS
  <2> QED BY <2>1, <2>2, Paths DEF Ahead
<1>2. ASSUME NEW h \in Handlers("box")' PROVE ~h.selector
  <2>1. handlers'["box"] \in Seq(Handle) /\ "box" \in Elements
    BY Paths DEF BaseInv, TypesInv
  <2>2. PICK i \in 1 .. Len(handlers'["box"]) : h = handlers'["box"][i]
    BY <2>1, LenProperties DEF Handlers, Seqs!ToSet
  <2>3. Front(handlers'["box"], 0)
    BY <2>1 DEF BaseInv, RegistryInv
  <2> QED BY <2>2, <2>3 DEF Front
<1>3. Elements = {"box", "form"}
  BY Paths
<1> QED BY <1>1, <1>2, <1>3 DEF ToHear

\* The click walks its path once more.
LEMMA WalksAgain ==
    ASSUME BaseInv', stack' # <<>>, stack'[1].frame \in {"trigger", "native"},
           ~Is(2, {"default"})', Object(1)'.target = "box", stack'[1].i = 1,
           ~Object(1)'.stopped, ~Object(1)'.immediate, NEW c, c = ClickAt(1)'
    PROVE  Safe(c)'
<1>1. 1 \in Depth'
  BY Lens DEF BaseInv, TypesInv, Depth
<1>2. ToHear(1)'
  BY AllAhead
<1>3. ~Discards(1)'
  <2>1. PICK j : j = 1 + 1
    OBVIOUS
  <2>2. j = 2
    BY <2>1
  <2> QED BY <2>1, <2>2 DEF Discards
<1>4. Live(1)'
  BY <1>1, <1>3 DEF Live, Walks, Is, Waits
<1> QED BY <1>1, <1>2, <1>4 DEF Safe

LEMMA DeliveryInterrupt ==
    ASSUME EventsInv, Next, Interrupt
    PROVE  DeliveryInv'
<1>1. /\ BaseInv /\ TriggeredInv /\ UnheardInv /\ OnePassInv /\ DeliveryInv
      /\ BaseInv' /\ Grows
  BY BaseNext DEF EventsInv
<1>2. /\ In("dispatch") /\ ~Ended /\ Shifted(3, 1) /\ stack'[3] = Following
      /\ stack'[1] = NativeFrame(Len(events) + 1)
      /\ stack'[2] = FrameOf("interrupt", stack[1].event)
      /\ heard' = heard /\ Len(clicks') = Len(clicks)
      /\ \A k \in 1 .. Len(events) : events'[k] = events[k]
      /\ events'[Len(events) + 1] = NewEvent(ClickAt(1), "box", TRUE)
  BY <1>1, InterruptStep
<1>3. /\ ClickAt(2) = ClickAt(1) /\ stack[1].frame = "dispatch"
      /\ \A m \in 1 + 1 .. Len(stack) : Live(m) /\ ClickAt(m) = ClickAt(1) => m = 2
  BY <1>1, <1>2, DispatchWalk
<1>4. /\ stack'[1].frame = "native" /\ stack'[1].event = Len(events) + 1 /\ stack'[1].i = 1
      /\ stack'[2].frame = "interrupt" /\ stack'[3].frame = "dispatch"
  BY <1>1, <1>2, <1>3, Numbers, NewCalls, CalleeIs, SMTT(15)
<1>5. /\ ClickAt(1)' = ClickAt(1) /\ Object(1)'.target = "box"
      /\ ~Object(1)'.stopped /\ ~Object(1)'.immediate
  BY <1>2, <1>4 DEF ClickAt, Object, NewEvent
<1>6. stack' # <<>> /\ ~Is(2, {"default"})'
  <2>1. Len(stack') # 0
    BY <1>1, <1>2, Numbers, CalleeIs DEF Shifted
  <2> QED BY <1>4, <2>1, EmptySeq DEF Is
<1>7. heard \subseteq heard'
  BY <1>2
<1>8. ASSUME NEW m \in Depth, Delivers(m), NEW c \in Nat, c = ClickAt(m) PROVE Safe(c)'
  <2>1. m # 1
    BY <1>3, <1>8 DEF Delivers, Live, Walks, Is
  <2>2. CASE m = 2
    <3>1. c = ClickAt(1)'
      BY <1>3, <1>5, <1>8, <2>2
    <3> QED BY <1>1, <1>4, <1>5, <1>6, <3>1, WalksAgain
  <2>3. CASE m # 2
    <3>1. ~events'[stack[m].event].stopped
      BY <1>1, <1>2, <1>8, Numbers DEF Delivers, Object
    <3>2. ~(stack'[3].frame \in {"interrupt", "reinvoke"})
      BY <1>4
    <3> QED BY <1>1, <1>2, <1>7, <1>8, <2>1, <2>3, <3>1, <3>2, StillDelivers
  <2> QED BY <2>2, <2>3
<1> QED BY <1>1, <1>2, <1>7, <1>8, DeliveryStep

LEMMA DeliveryReinvoke ==
    ASSUME EventsInv, Next, Reinvoke
    PROVE  DeliveryInv'
<1>1. /\ BaseInv /\ TriggeredInv /\ LeverageInv /\ UnheardInv /\ OnePassInv /\ DeliveryInv
      /\ BaseInv' /\ Grows
  BY BaseNext DEF EventsInv
<1>2. /\ In("dispatch") /\ ~Ended /\ Object(1).native /\ saved.is = "args"
      /\ Shifted(3, 1) /\ stack'[3] = Following
      /\ stack'[1] = TriggerFrame(stack[3].event)
      /\ stack'[2] = FrameOf("reinvoke", stack[1].event)
      /\ heard' = heard /\ clicks' = clicks
      /\ \A k \in 1 .. Len(events) : k # stack[3].event => events'[k] = events[k]
      /\ ~events'[stack[3].event].stopped /\ ~events'[stack[3].event].immediate
  BY <1>1, ReinvokeStep
<1>3. ClickAt(2) = ClickAt(1) /\ stack[1].frame = "dispatch" /\ 1 \in Depth
  BY <1>1, <1>2, DispatchWalk
<1>4. /\ ClickAt(3) = ClickAt(1) /\ Object(3).target = "box"
      /\ stack[3].event \in 1 .. Len(events) /\ stack[3].event \in Nat
  BY <1>1, <1>2, ReinvokedWhere, Numbers
<1>5. /\ stack'[1].frame = "trigger" /\ stack'[1].event = stack[3].event /\ stack'[1].i = 1
      /\ stack'[2].frame = "reinvoke" /\ stack'[3].frame = "dispatch"
  BY <1>1, <1>2, <1>3, <1>4, Numbers, NewCalls, CalleeIs, SMTT(15)
<1>6. /\ ClickAt(1)' = ClickAt(1) /\ Object(1)'.target = "box"
      /\ ~Object(1)'.stopped /\ ~Object(1)'.immediate
  BY <1>1, <1>2, <1>4, <1>5 DEF ClickAt, Object, Grows
<1>7. stack' # <<>> /\ ~Is(2, {"default"})'
  <2>1. Len(stack') # 0
    BY <1>1, <1>2, Numbers, CalleeIs DEF Shifted
  <2> QED BY <1>5, <2>1, EmptySeq DEF Is
<1>8. heard \subseteq heard' /\ Len(clicks') = Len(clicks)
  BY <1>2
<1>9. ASSUME NEW m \in Depth, Delivers(m), NEW c \in Nat, c = ClickAt(m) PROVE Safe(c)'
  <2>1. m # 1
    BY <1>3, <1>9 DEF Delivers, Live, Walks, Is
  <2>2. CASE m = 2
    <3>1. c = ClickAt(1)'
      BY <1>3, <1>6, <1>9, <2>2
    <3> QED BY <1>1, <1>5, <1>6, <1>7, <3>1, WalksAgain
  <2>3. CASE m # 2
    <3>1. ~events'[stack[m].event].stopped
      <4>1. stack[m].event \in 1 .. Len(events)
        BY <1>1, Numbers
      <4>2. ~events[stack[m].event].stopped
        BY <1>9 DEF Delivers, Object
      <4> QED BY <1>2, <4>1, <4>2
    <3>2. ~(stack'[3].frame \in {"interrupt", "reinvoke"})
      BY <1>5
    <3> QED BY <1>1, <1>2, <1>8, <1>9, <2>1, <2>3, <3>1, <3>2, StillDelivers
  <2> QED BY <2>2, <2>3
<1> QED BY <1>1, <1>8, <1>9, DeliveryStep

\* The leverage's calls return: the walk they held up had nothing to deliver.
LEMMA DeliveryBack ==
    ASSUME EventsInv, Next, Reinvoked \/ Interrupted
    PROVE  DeliveryInv'
<1>1. /\ BaseInv /\ TriggeredInv /\ LeverageInv /\ UnheardInv /\ OnePassInv /\ DeliveryInv
      /\ BaseInv' /\ Grows
  BY BaseNext DEF EventsInv
<1>2. /\ stack # <<>> /\ Shifted(0, 1) /\ stack[1].frame \in {"interrupt", "reinvoke"}
      /\ heard' = heard /\ clicks' = clicks
      /\ \A k \in 1 .. Len(events) : k # stack[1].event => events'[k] = events[k]
  <2>1. CASE Reinvoked
    BY <1>1, <2>1, ReinvokedStep
  <2>2. CASE Interrupted
    <3>1. stack # <<>> /\ stack[1].frame = "interrupt"
      BY <1>1, <2>2, InterruptedStep
    <3>2. 1 \in Depth /\ Is(1, {"interrupt"})
      BY <1>1, <3>1, Numbers DEF Is
    <3>3. saved # Args(stack[1].event)
      BY <1>1, <3>2 DEF LeverageInv, Args, Captured
    <3> QED BY <1>1, <2>2, <3>3, InterruptedStep
  <2> QED BY <2>1, <2>2
<1>3. Is(2, {"dispatch"}) /\ 1 \in Depth
  BY <1>1, <1>2, UnderTop, Numbers
<1>4. heard \subseteq heard' /\ Len(clicks') = Len(clicks)
  BY <1>2
<1>5. ASSUME NEW m \in Depth, Delivers(m), NEW c \in Nat, c = ClickAt(m) PROVE Safe(c)'
  <2>1. m # 1 /\ m # 2 /\ Walks(m) /\ ~Waits(m) /\ ~Object(m).stopped
    BY <1>2, <1>3, <1>5 DEF Delivers, Live, Walks, Is
  <2>2. stack[m].event # stack[1].event
    <3>1. ASSUME stack[m].event = stack[1].event PROVE FALSE
      <4>1. ClickAt(m) = ClickAt(1) /\ 1 < m
        BY <2>1, <3>1 DEF ClickAt, Object, Depth
      <4>2. ~Is(1, {"dispatch", "user"})
        BY <1>2 DEF Is
      <4>3. Waits(m)
        BY <1>1, <1>3, <2>1, <4>1, <4>2 DEF OnePassInv
      <4> QED BY <2>1, <4>3
    <3> QED BY <3>1
  <2>3. ~events'[stack[m].event].stopped
    BY <1>1, <1>2, <2>1, <2>2, Numbers DEF Object
  <2> QED BY <1>1, <1>2, <1>4, <1>5, <2>1, <2>3, StillDelivers
<1> QED BY <1>1, <1>4, <1>5, DeliveryStep

LEMMA DeliveryNext ==
    ASSUME EventsInv, Next
    PROVE  DeliveryInv'
BY NextSplit, DeliveryUser, DeliveryNew, DeliveryReturn, DeliveryVisit, DeliveryDefault, DeliveryEnd,
   DeliveryCall, DeliveryPass, DeliveryInterrupt, DeliveryReinvoke, DeliveryBack

-----------------------------------------------------------------------------
(* A click that has not changed the box yet.                               *)

\* A leveraged click whose native click was not fired yet.
Pending(c) == clicks[c].leveraged /\ ~clicks[c].done

\* Only what was pending is, but for a click that begins.
LEMMA StillPending ==
    ASSUME Grows, NEW c \in 1 .. Len(clicks), Pending(c)'
    PROVE  Pending(c)
BY DEF Grows, Pending

LEMMA NonePending ==
    ASSUME Grows, Len(clicks') = Len(clicks), \A c \in 1 .. Len(clicks) : Pending(c) => ~Pending(c)'
    PROVE  PendingInv'
<1>1. ASSUME NEW c \in 1 .. Len(clicks'), Pending(c)' PROVE FALSE
  BY <1>1, StillPending
<1> QED BY <1>1 DEF PendingInv, Pending

\* Who is called while one is.
LEMMA PendingWhere ==
    ASSUME EventsInv, NEW c \in 1 .. Len(clicks), Pending(c)
    PROVE  /\ stack # <<>> /\ ClickAt(1) = c /\ Fresh(1) /\ ~Object(1).native
           /\ saved.is = "false" /\ ~triggered
           /\ stack[1].frame \in {"trigger", "dispatch"}
           /\ stack[1].frame = "trigger" =>
                 /\ stack[1].i = 1 /\ Object(1).target = "box" /\ handlers["box"] # <<>>
                 /\ Len(Path(Object(1).target)) = 2 /\ Path(Object(1).target)[1] = "box"
           /\ stack[1].frame = "dispatch" =>
                 stack[1].queue # <<>> /\ Head(stack[1].queue)[2] = Leverage
BY Paths DEF EventsInv, PendingInv, Pending, Is

LEMMA PendingUser ==
    ASSUME EventsInv, Next, On \/ Off \/ Return \/ Reinvoked \/ Interrupted
    PROVE  PendingInv'
<1>1. BaseInv /\ Grows /\ Len(clicks) \in Nat
  BY BaseNext, Numbers DEF EventsInv
<1>2. Len(clicks') = Len(clicks) /\ (stack = <<>> \/ ~(stack[1].frame \in {"trigger", "dispatch"}))
  <2>1. CASE On
    BY <1>1, <2>1, OnStep
  <2>2. CASE Off
    BY <1>1, <2>2, OffStep
  <2>3. CASE Return
    BY <1>1, <2>3, ReturnStep
  <2>4. CASE Reinvoked
    BY <1>1, <2>4, ReinvokedStep
  <2>5. CASE Interrupted
    BY <1>1, <2>5, InterruptedStep
  <2> QED BY <2>1, <2>2, <2>3, <2>4, <2>5
<1>3. \A c \in 1 .. Len(clicks) : ~Pending(c)
  BY <1>2, PendingWhere
<1> QED BY <1>1, <1>2, <1>3, NonePending

\* A trigger of the box makes one, and it is at the box.
LEMMA PendingTrigger ==
    ASSUME EventsInv, Next, Trigger
    PROVE  PendingInv'
<1>1. BaseInv /\ TriggeredInv /\ BaseInv' /\ Grows
  BY BaseNext DEF EventsInv
<1>2. /\ triggered' = triggered /\ (stack = <<>> \/ stack[1].frame = "user")
      /\ Shifted(1, 0) /\ stack'[1] = TriggerFrame(Len(events) + 1)
  BY <1>1, TriggerStep
<1>3. PICK target \in Elements :
          /\ Len(clicks') = Len(clicks) + 1
          /\ events'[Len(events) + 1] = NewEvent(Len(clicks) + 1, target, FALSE)
          /\ clicks'[Len(clicks) + 1].leveraged =>
                target = "box" /\ saved'.is = "false" /\ handlers'["box"] # <<>>
  BY <1>1, TriggerStep
<1>4. stack'[1].frame = "trigger" /\ stack'[1].event = Len(events) + 1 /\ stack'[1].i = 1
  BY <1>1, <1>2, Numbers, NewCalls
<1>5. 1 \in Depth' /\ stack' # <<>>
  <2>1. Len(stack') # 0 /\ 1 \in Depth'
    BY <1>1, <1>2, Numbers DEF Shifted, Depth
  <2> QED BY <2>1, EmptySeq
<1>6. /\ ClickAt(1)' = Len(clicks) + 1 /\ Fresh(1)' /\ ~Object(1)'.native
      /\ Object(1)'.target = target
  BY <1>3, <1>4 DEF ClickAt, Object, NewEvent, Fresh
<1>7. ~triggered'
  BY <1>1, <1>2, NoDefault
<1>8. \A c \in 1 .. Len(clicks) : ~Pending(c)'
  <2>1. \A c \in 1 .. Len(clicks) : ~Pending(c)
    BY <1>2, PendingWhere
  <2> QED BY <1>1, <2>1, StillPending
<1>9. \A c \in 1 .. Len(clicks') : c \in 1 .. Len(clicks) \/ c = Len(clicks) + 1
  BY <1>1, <1>3, Numbers
<1>10. Is(1, {"trigger"})'
  BY <1>4, <1>5 DEF Is
<1> QED BY <1>3, <1>4, <1>5, <1>6, <1>7, <1>8, <1>9, <1>10 DEF PendingInv, Pending

LEMMA PendingRealClick ==
    ASSUME EventsInv, Next, RealClick
    PROVE  PendingInv'
<1>1. BaseInv /\ Grows /\ Len(clicks) \in Nat
  BY BaseNext, Numbers DEF EventsInv
<1>2. stack = <<>> /\ Len(clicks') = Len(clicks) + 1 /\ clicks'[Len(clicks) + 1].done
  BY <1>1, RealClickStep
<1>3. \A c \in 1 .. Len(clicks) : ~Pending(c)'
  <2>1. \A c \in 1 .. Len(clicks) : ~Pending(c)
    BY <1>2, PendingWhere
  <2> QED BY <1>1, <2>1, StillPending
<1>4. \A c \in 1 .. Len(clicks') : c \in 1 .. Len(clicks) \/ c = Len(clicks) + 1
  BY <1>1, <1>2
<1> QED BY <1>2, <1>3, <1>4 DEF PendingInv, Pending

\* The walk calls the handlers of the box, the leveraging one first.
LEMMA PendingVisit ==
    ASSUME EventsInv, Next, VisitNext
    PROVE  PendingInv'
<1>1. BaseInv /\ BaseInv' /\ Grows
  BY BaseNext DEF EventsInv
<1> DEFINE target == Object(1).target
           e == Path(target)[stack[1].i]
           new == DispatchFrame(stack[1].event, e, HandlerQueue(e, target))
<1>2. /\ UNCHANGED <<saved, triggered, events, clicks>>
      /\ stack # <<>> /\ stack[1].frame \in {"trigger", "native"}
      /\ \/ handlers[e] = <<>> \/ triggered
         \/ Shifted(2, 1) /\ stack'[1] = new
  BY <1>1, VisitStep
<1>3. ASSUME NEW c \in 1 .. Len(clicks), Pending(c)
      PROVE  /\ stack' # <<>> /\ ClickAt(1)' = c /\ Fresh(1)' /\ ~Object(1)'.native
             /\ saved'.is = "false" /\ ~triggered'
             /\ Is(1, {"dispatch"})' /\ stack'[1].queue # <<>>
             /\ Head(stack'[1].queue)[2] = Leverage
  <2>1. /\ ClickAt(1) = c /\ Fresh(1) /\ ~Object(1).native
        /\ saved.is = "false" /\ ~triggered /\ target = "box" /\ handlers["box"] # <<>>
        /\ e = "box"
    BY <1>2, <1>3, PendingWhere
  <2>2. Shifted(2, 1) /\ stack'[1] = new
    BY <1>2, <2>1
  <2> DEFINE q == HandlerQueue("box", "box")
  <2>3. stack'[1] = DispatchFrame(stack[1].event, "box", q)
    BY <2>1, <2>2
  <2>4. /\ q \in Seq(Elements \X Handle) /\ Len(q) = Len(handlers["box"])
        /\ Len(q) > 0 => q[1][2] = handlers["box"][1]
    <3>1. "box" \in Elements
      BY Paths
    <3>2. /\ q \in Seq(Elements \X Handle) /\ Len(q) = Len(handlers["box"]) - Offset("box", "box")
          /\ \A k \in 1 .. Len(q) : q[k][2] = handlers["box"][k + Offset("box", "box")]
      BY <1>1, <3>1, QueueOf DEF BaseInv
    <3>3. Offset("box", "box") = 0
      BY <1>1 DEF Offset, BaseInv, RegistryInv
    <3>4. handlers["box"] \in Seq(Handle) /\ Len(handlers["box"]) \in Nat
      BY <1>1, <3>1, LenProperties DEF BaseInv, TypesInv
    <3> HIDE DEF q
    <3>5. Len(q) > 0 => 1 \in 1 .. Len(q) /\ 1 + 0 = 1
      BY <3>2, <3>3, <3>4
    <3> QED BY <3>2, <3>3, <3>4, <3>5
  <2>5. handlers["box"][1] = Leverage /\ Len(handlers["box"]) > 0
    <3>1. "box" \in Elements
      BY Paths
    <3>2. handlers["box"] \in Seq(Handle)
      BY <1>1, <3>1 DEF BaseInv, TypesInv
    <3> QED BY <1>1, <2>1, <3>2, EmptySeq, LenProperties DEF BaseInv, RegistryInv
  <2>6. stack[1].event \in Nat /\ 1 \in Depth
    BY <1>1, <1>2, Numbers
  <2>7. /\ stack'[1].frame = "dispatch" /\ stack'[1].event = stack[1].event
        /\ stack'[1].queue = q
    <3> HIDE DEF q
    <3> QED BY <2>3, <2>4, <2>6, NewFrames, Paths
  <2>8. 1 \in Depth' /\ stack' # <<>>
    <3>1. Len(stack') # 0 /\ 1 \in Depth'
      BY <1>1, <1>2, <2>2, <2>6, Numbers DEF Shifted, Depth
    <3> QED BY <3>1, EmptySeq
  <2>9. ClickAt(1)' = c /\ Fresh(1)' /\ ~Object(1)'.native
    BY <1>2, <2>1, <2>7 DEF ClickAt, Object, Fresh
  <2>10. stack'[1].queue # <<>> /\ Head(stack'[1].queue)[2] = Leverage
    <3> HIDE DEF q
    <3>1. Head(q) = q[1] /\ q # <<>>
      BY <2>4, <2>5, EmptySeq, HeadTailProperties
    <3> QED BY <2>4, <2>5, <2>7, <3>1
  <2> QED BY <1>2, <2>1, <2>7, <2>8, <2>9, <2>10 DEF Is
<1>4. ASSUME NEW c \in 1 .. Len(clicks'), Pending(c)' PROVE c \in 1 .. Len(clicks) /\ Pending(c)
  BY <1>1, <1>2, <1>4, StillPending
<1> HIDE DEF e, target, new
<1> QED BY <1>3, <1>4 DEF PendingInv, Pending

\* It does not end, and calls nobody of the user.
LEMMA PendingOther ==
    ASSUME EventsInv, Next, TriggerDefault \/ EndNext \/ CallUser \/ Pass \/ Reinvoke
    PROVE  PendingInv'
<1>1. BaseInv /\ TriggeredInv /\ LeverageInv /\ BaseInv' /\ Grows
  BY BaseNext DEF EventsInv
<1>2. ASSUME NEW c \in 1 .. Len(clicks), Pending(c) PROVE FALSE
  <2>1. /\ stack # <<>> /\ Fresh(1) /\ ~Object(1).native /\ saved.is = "false"
        /\ stack[1].frame \in {"trigger", "dispatch"}
        /\ stack[1].frame = "trigger" => stack[1].i = 1 /\ Len(Path(Object(1).target)) = 2
        /\ stack[1].frame = "dispatch" =>
              stack[1].queue # <<>> /\ Head(stack[1].queue)[2] = Leverage
    BY <1>2, PendingWhere
  <2>2. CASE TriggerDefault
    <3>1. stack[1].frame = "trigger" /\ (Object(1).stopped \/ stack[1].i > Len(Path(Object(1).target)))
      BY <1>1, <2>2, TriggerDefaultStep
    <3> QED BY <2>1, <3>1 DEF Fresh
  <2>3. CASE EndNext
    <3>1. /\ stack[1].frame = "trigger" => Object(1).stopped \/ stack[1].i > Len(Path(Object(1).target))
          /\ stack[1].frame = "dispatch" => stack[1].queue = <<>> \/ Object(1).immediate \/ Object(1).stopped
      BY <1>1, <2>3, EndStep
    <3> QED BY <2>1, <3>1 DEF Fresh
  <2>4. ASSUME In("dispatch"), ~Ended PROVE Callee.guid = "leverage"
    <3>1. stack[1].frame = "dispatch" /\ Callee = Head(stack[1].queue)[2]
      BY <1>1, <2>4, CalleeIs
    <3> QED BY <2>1, <3>1 DEF Leverage, HandleObj
  <2>5. CASE CallUser
    <3>1. In("dispatch") /\ ~Ended /\ Callee.guid \in Fns
      BY <1>1, <2>5, UserStep
    <3> QED BY <2>4, <3>1, FnsAssumption
  <2>6. CASE Pass
    <3>1. In("dispatch") /\ ~Ended /\ (Callee.guid = "leverage" => (~Object(1).native <=> saved.is = "args"))
      BY <1>1, <2>6, PassStep
    <3> QED BY <2>1, <2>4, <3>1
  <2>7. CASE Reinvoke
    BY <1>1, <2>1, <2>7, ReinvokeStep
  <2> QED BY <2>2, <2>3, <2>5, <2>6, <2>7
<1>3. Len(clicks') = Len(clicks)
  <2>1. CASE TriggerDefault
    BY <1>1, <2>1, TriggerDefaultStep
  <2>2. CASE EndNext
    BY <1>1, <2>2, EndStep
  <2>3. CASE CallUser
    BY <1>1, <2>3, UserStep
  <2>4. CASE Pass
    BY <1>1, <2>4, PassStep
  <2>5. CASE Reinvoke
    BY <1>1, <2>5, ReinvokeStep
  <2> QED BY <2>1, <2>2, <2>3, <2>4, <2>5
<1> QED BY <1>1, <1>2, <1>3, NonePending

\* The leveraging handler changes the box.
LEMMA PendingInterrupt ==
    ASSUME EventsInv, Next, Interrupt
    PROVE  PendingInv'
<1>1. BaseInv /\ UnheardInv /\ Grows
  BY BaseNext DEF EventsInv
<1>2. Len(clicks') = Len(clicks) /\ clicks'[ClickAt(1)].done
  BY <1>1, InterruptStep
<1>3. \A c \in 1 .. Len(clicks) : Pending(c) => ~Pending(c)'
  <2>1. ASSUME NEW c \in 1 .. Len(clicks), Pending(c) PROVE ~Pending(c)'
    <3>1. c = ClickAt(1)
      BY <2>1, PendingWhere
    <3> QED BY <1>2, <3>1 DEF Pending
  <2> QED BY <2>1
<1> QED BY <1>1, <1>2, <1>3, NonePending

LEMMA PendingNext ==
    ASSUME EventsInv, Next
    PROVE  PendingInv'
BY NextSplit, PendingUser, PendingTrigger, PendingRealClick, PendingVisit, PendingOther, PendingInterrupt

-----------------------------------------------------------------------------
(* The theorems.                                                           *)

LEMMA EventsInit ==
    ASSUME Init
    PROVE  EventsInv
<1>1. /\ handlers = [e \in Elements |-> <<>>] /\ delegateCount = [e \in Elements |-> 0]
      /\ saved = Unset /\ triggered = FALSE /\ checked = FALSE
      /\ events = <<>> /\ stack = <<>> /\ calls = 0
      /\ clicks = <<>> /\ heard = {} /\ repeats = {}
  BY DEF Init
<1>2. /\ Len(events) = 0 /\ Len(stack) = 0 /\ Len(clicks) = 0
      /\ \A e \in Elements : Len(handlers[e]) = 0
  BY <1>1, EmptySeq
<1>3. TypesInv
  BY <1>1, EmptySeq DEF TypesInv, Saved, Unset
<1>4. RegistryInv
  <2>1. Elements = {"box", "form"}
    BY Paths
  <2> QED BY <1>1, <1>2, <2>1 DEF RegistryInv, Front
<1>5. HistoryInv /\ StackInv
  BY <1>1, <1>2 DEF HistoryInv, StackInv, Depth
<1>6. TriggeredInv /\ LeverageInv /\ OnePassInv
  BY <1>1, <1>2 DEF TriggeredInv, LeverageInv, OnePassInv, Leveraged, Is, Depth, Unset
<1>7. UnheardInv /\ DeliveryInv /\ PendingInv
  BY <1>1, <1>2 DEF UnheardInv, DeliveryInv, PendingInv, Is, Depth
<1> QED BY <1>3, <1>4, <1>5, <1>6, <1>7 DEF EventsInv, BaseInv

LEMMA EventsStutter ==
    ASSUME EventsInv, UNCHANGED vars
    PROVE  EventsInv'
<1>1. /\ UNCHANGED <<handlers, delegateCount, saved, triggered, checked, events, stack>>
      /\ UNCHANGED <<calls, clicks, heard, repeats>>
  BY DEF vars
<1> USE <1>1
<1>2. BaseInv'
  <2>1. TypesInv'
    BY DEF EventsInv, BaseInv, TypesInv
  <2>2. RegistryInv'
    BY DEF EventsInv, BaseInv, RegistryInv, Numbered, Front
  <2>3. HistoryInv'
    BY DEF EventsInv, BaseInv, HistoryInv
  <2>4. ASSUME NEW j PROVE Stands(j)' = Stands(j) /\ Queues(j)' = Queues(j)
    BY DEF Stands, Queues, Object, ClickAt, Is, Walks, Depth, Numbered
  <2>5. StackInv'
    BY <2>4 DEF EventsInv, BaseInv, StackInv, Depth
  <2> QED BY <2>1, <2>2, <2>3, <2>5 DEF BaseInv
<1>3. TriggeredInv' /\ LeverageInv'
  BY DEF EventsInv, TriggeredInv, LeverageInv, Leveraged, Stage, Fresh, Object, Is, Depth
<1>4. OnePassInv'
  BY DEF EventsInv, OnePassInv, Waits, Walks, Is, Depth, ClickAt, Object
<1>5. ASSUME NEW j PROVE /\ Ahead(j)' = Ahead(j) /\ Queued(j)' = Queued(j) /\ Object(j)' = Object(j)
                         /\ ClickAt(j)' = ClickAt(j) /\ Live(j)' = Live(j)
  BY DEF Ahead, Queued, Object, ClickAt, Live, Walks, Waits, Discards, Is, Depth
<1>6. ASSUME NEW c PROVE HeardOf(c)' = HeardOf(c) /\ Handlers(c)' = Handlers(c)
  BY DEF HeardOf, Handlers
<1>7. UnheardInv'
  BY <1>5, <1>6 DEF EventsInv, UnheardInv, NobodyHeard, Is, Depth
<1>8. DeliveryInv'
  BY <1>5, <1>6 DEF EventsInv, DeliveryInv, ToHear, Delivered, Depth
<1>9. PendingInv'
  BY <1>5 DEF EventsInv, PendingInv, Fresh, Is, Depth
<1> QED BY <1>2, <1>3, <1>4, <1>7, <1>8, <1>9 DEF EventsInv

\* The inductive invariant: what jQuery's data about the box says of the calls
\* on the stack, one pass of a click at a time, nobody ahead of it has heard
\* it, and everybody it is for has or is ahead of it.
THEOREM EventsInvariance == Spec => []EventsInv
<1>1. Init => EventsInv
  BY EventsInit
<1>2. EventsInv /\ [Next]_vars => EventsInv'
  <2>1. ASSUME EventsInv, Next PROVE EventsInv'
    <3>1. BaseInv'
      BY <2>1, BaseNext
    <3> QED BY <2>1, <3>1, TriggeredNext, LeverageNext, OnePassNext, UnheardNext, DeliveryNext,
               PendingNext DEF EventsInv
  <2> QED BY <2>1, EventsStutter
<1> QED BY <1>1, <1>2, PTL DEF Spec

\* A handler runs after the box changed, unless the trigger was not leveraged:
\* until the leveraging handler has fired the native click, nobody but it is
\* called.
THEOREM StateFirstHolds == Spec => []StateFirst
<1>1. ASSUME EventsInv PROVE StateFirst
  <2>1. SUFFICES ASSUME In("user"), clicks[Event(Top.event).click].leveraged,
                        ~clicks[Event(Top.event).click].done
                 PROVE  FALSE
    BY DEF StateFirst
  <2>2. BaseInv
    BY <1>1 DEF EventsInv
  <2>3. stack # <<>> /\ Top = stack[1] /\ stack[1].frame = "user"
    BY <2>1, <2>2, StackTop DEF In, BaseInv
  <2>4. Event(Top.event).click = ClickAt(1) /\ ClickAt(1) \in 1 .. Len(clicks)
    BY <2>2, <2>3, Numbers DEF Event, Object, ClickAt
  <2> QED BY <1>1, <2>1, <2>3, <2>4, PendingWhere DEF Pending
<1> QED BY <1>1, EventsInvariance, PTL

\* A registration hears a click once, however many events the click becomes,
\* and a click that is over and was not stopped was heard by all it was for.
THEOREM HeardOnceHolds == Spec => []HeardOnce
<1>1. ASSUME EventsInv PROVE HeardOnce
  <2>1. BaseInv /\ DeliveryInv /\ repeats = {}
    BY <1>1 DEF EventsInv, UnheardInv
  <2>2. ASSUME NEW c \in DOMAIN clicks, c \notin Clicking, ~clicks[c].stopped,
               NEW x \in clicks[c].due \cap Registered
        PROVE  x \in HeardOf(c)
    <3>1. c \in 1 .. Len(clicks)
      BY <2>1, Lens DEF BaseInv
    <3>2. ~\E j \in Depth : ClickAt(j) = c
      <4>1. DOMAIN stack = Depth
        BY <2>1, Lens DEF BaseInv, Depth
      <4> QED BY <2>2, <4>1 DEF Clicking, ClickAt, Object, Event
    <3>3. Delivered(c)
      BY <2>1, <2>2, <3>1, <3>2 DEF DeliveryInv
    <3>4. PICK e \in Elements : \E i \in DOMAIN handlers[e] : x = handlers[e][i].id
      BY <2>2 DEF Registered
    <3>5. PICK i \in DOMAIN handlers[e] : x = handlers[e][i].id
      BY <3>4
    <3>6. handlers[e][i] \in Handlers(e)
      BY DEF Handlers, Seqs!ToSet
    <3> QED BY <2>2, <3>3, <3>5, <3>6 DEF Delivered
  <2> QED BY <2>1, <2>2 DEF HeardOnce, HeardOf
<1> QED BY <1>1, EventsInvariance, PTL
=============================================================================
