------------------------------ MODULE Matching ------------------------------
(***************************************************************************)
(* Matching elements against a selector, from right to left, with what was *)
(* found of an element kept for the next ones: the combinator caches and   *)
(* the position cache of Sizzle.                                           *)
(*                                                                         *)
(* Node 0 is the context, the others are in it.  All of them are elements, *)
(* text between them is left out.  A simple selector is "mark", which a    *)
(* node has or not (a tag, a class, an attribute), or "second", which is   *)
(* :nth-child(2).  Two combinators or one make a selector of them.         *)
(* Between two calls a node may change its mark, or nodes may be moved.    *)
(***************************************************************************)
EXTENDS Integers, Sequences, FiniteSets
LOCAL Seqs == INSTANCE SequencesExt

CONSTANTS MaxNode, MaxRuns

VARIABLES
    parent, marked,  \* the page
    selector,        \* what is being matched
    dirruns,         \* the number of the call
    unvisited,       \* the elements yet to match, in order
    results,
    data             \* what is kept of the nodes: see Nothing

vars == <<parent, marked, selector, dirruns, unvisited, results, data>>

Elements == 1..MaxNode
Nodes == 0..MaxNode
Nobody == -1

Combinators == {" ", ">", "~", "+"}
Simple == {"mark", "second"}
Selectors ==
    UNION {[simple : [1..n -> Simple], relative : [1..n - 1 -> Combinators]] : n \in 2..3}

\* Trees, numbered in document order.
Up(p, n) == IF n = 0 THEN Nobody ELSE p[n]
RECURSIVE Ancestors(_, _)
Ancestors(p, n) == IF n = 0 THEN {} ELSE {p[n]} \union Ancestors(p, p[n])
Trees == {p \in [Elements -> Nodes] :
             \A n \in Elements : p[n] < n /\ p[n] \in {n - 1} \union Ancestors(p, n - 1)}

\* What is kept of a node are, for each direction, the run and the combinator
\* of a result, with the place of the result, which other nodes may share; and
\* of a parent the run, index and position of the child that was sought last.
Nothing ==
    [cache |-> [n \in Nodes |-> [dir \in {"parentNode", "previousSibling"} |->
                    [run |-> 0, done |-> 0, result |-> 0]]],
     results |-> <<>>,
     position |-> [n \in Nodes |-> [run |-> 0, index |-> 0, diff |-> 0]]]

Init ==
    /\ parent \in Trees /\ marked \in SUBSET Nodes
    /\ selector \in Selectors
    /\ dirruns = 1
    /\ unvisited \in {[i \in Elements |-> i], [i \in Elements |-> MaxNode + 1 - i]}
    /\ results = {} /\ data = Nothing

-----------------------------------------------------------------------------
(* The page.                                                               *)

Children(n) == Seqs!SetToSortSeq({m \in Elements : parent[m] = n}, LAMBDA a, b : a < b)

Previous(n) ==
    LET before == {m \in Elements : m < n /\ n # 0 /\ parent[m] = parent[n]}
    IN  IF before = {} THEN Nobody ELSE CHOOSE m \in before : \A k \in before : k <= m

Dir(combinator) == IF combinator \in {" ", ">"} THEN "parentNode" ELSE "previousSibling"
Step(n, dir) == IF dir = "parentNode" THEN Up(parent, n) ELSE Previous(n)

-----------------------------------------------------------------------------
(* What the selector means.                                                *)

RECURSIVE Along(_, _)
Along(n, dir) == IF n = Nobody THEN {} ELSE {n} \union Along(Step(n, dir), dir)

IsSecond(n) == n # 0 /\ Cardinality(Along(n, "previousSibling")) = 2

Means(simple, n) == IF simple = "mark" THEN n \in marked ELSE IsSecond(n)

RECURSIVE Satisfies(_, _)
Satisfies(n, k) ==
    /\ n # 0
    /\ Means(selector.simple[k], n)
    /\ k > 1 =>
        LET combinator == selector.relative[k - 1]
            dir == Dir(combinator)
            next == Step(n, dir)
        IN  IF combinator \in {">", "+"}
            THEN next # Nobody /\ Satisfies(next, k - 1)
            ELSE \E m \in Along(next, dir) : Satisfies(m, k - 1)

-----------------------------------------------------------------------------
(* Matchers: [ok, data] of a node, given the data.                         *)

Answer(ok, d) == [ok |-> ok, data |-> d]

\* :nth-child, sought on from the last position of the run, or else from the
\* first child.
Position(n, d) ==
    LET children == Children(parent[n])
        last == d.position[parent[n]]
        cached == IF last.run = dirruns THEN last.index ELSE 0
        ahead == {i \in DOMAIN children : cached > 0 /\ i > cached + 1 /\ children[i] = n}
        start == IF ahead # {} THEN cached + 1 ELSE 0
        diff0 == IF ahead # {} THEN last.diff ELSE 0
        index == CHOOSE i \in DOMAIN children : children[i] = n
        diff == diff0 + (index - start)
    IN  [diff |-> diff,
         data |-> [d EXCEPT !.position[parent[n]] =
                     [run |-> dirruns, index |-> index - 1, diff |-> diff]]]

Filter(simple, n, d) ==
    IF simple = "mark" THEN Answer(n \in marked, d)
    ELSE IF n = 0 THEN Answer(FALSE, d)
    ELSE Answer(Position(n, d).diff = 2, Position(n, d).data)

\* A walk in a direction: matcher k - 1 of each node, the context itself for
\* the first.  The result goes to a place that all the nodes of the walk
\* share, until one of them has a result of this run and combinator already.
RECURSIVE Walk(_, _, _, _, _), Match(_, _, _)

Result(d, place, ok) == [d EXCEPT !.results[place] = ok]

Walk(n, dir, k, place, d) ==
    LET next == Step(n, dir)
        old == d.cache[next][dir]
        kept == [d EXCEPT !.cache[next][dir] = [run |-> dirruns, done |-> k, result |-> place]]
        match == IF k = 1 THEN Answer(next = 0, kept) ELSE Match(next, k - 1, kept)
    IN  IF next = Nobody THEN Answer(FALSE, d)
        ELSE IF old.run = dirruns /\ old.done = k
        THEN Answer(d.results[old.result], Result(d, place, d.results[old.result]))
        ELSE IF match.ok THEN Answer(TRUE, Result(match.data, place, TRUE))
        ELSE Walk(next, dir, k, place, Result(match.data, place, FALSE))

\* A new walk.
AddCombinator(n, dir, k, d) ==
    Walk(n, dir, k, Len(d.results) + 1, [d EXCEPT !.results = Append(@, FALSE)])

\* The last of the matchers comes first.
Match(n, k, d) ==
    LET simple == Filter(selector.simple[k], n, d)
        combinator == IF k = 1 THEN " " ELSE selector.relative[k - 1]
        next == Step(n, Dir(combinator))
    IN  IF ~simple.ok THEN simple
        ELSE IF combinator \in {" ", "~"} THEN AddCombinator(n, Dir(combinator), k, simple.data)
        ELSE IF next = Nobody THEN Answer(FALSE, simple.data)
        ELSE Match(next, k - 1, simple.data)

-----------------------------------------------------------------------------
(* The calls.                                                              *)

Visit ==
    /\ unvisited # <<>>
    /\ LET match == Match(Head(unvisited), Len(selector.simple), data)
       IN  /\ results' = IF match.ok THEN results \union {Head(unvisited)} ELSE results
           /\ data' = match.data
    /\ unvisited' = Tail(unvisited)
    /\ UNCHANGED <<parent, marked, selector, dirruns>>

\* Faulty: dirruns stays, and what was kept seems to be of this call.
AgainSameRun ==
    /\ unvisited = <<>> /\ dirruns < MaxRuns
    /\ \/ \E n \in Nodes : marked' = (marked \ {n}) \union ({n} \ marked) /\ UNCHANGED parent
       \/ parent' \in Trees /\ UNCHANGED marked
    /\ unvisited' = [i \in Elements |-> i]
    /\ results' = {}
    /\ UNCHANGED <<dirruns, selector, data>>

\* The next call of the compiled selector, after a change of the page.
Again ==
    /\ unvisited = <<>> /\ dirruns < MaxRuns
    /\ dirruns' = dirruns + 1
    /\ \/ \E n \in Nodes : marked' = (marked \ {n}) \union ({n} \ marked) /\ UNCHANGED parent
       \/ parent' \in Trees /\ UNCHANGED marked
    /\ unvisited' = [i \in Elements |-> i]
    /\ results' = {}
    /\ UNCHANGED <<selector, data>>

Next == Visit \/ Again

Spec == Init /\ [][Next]_vars

-----------------------------------------------------------------------------

\* Of the elements visited so far those are found that the selector means,
\* whatever was kept of them and of others, in this call or before the page
\* changed.
FindsWhatIsMeant ==
    \A n \in Elements \ Seqs!ToSet(unvisited) :
        n \in results <=> Satisfies(n, Len(selector.simple))
=============================================================================
