---------------------------- MODULE Manipulation ----------------------------
(***************************************************************************)
(* Moving, copying and removing the nodes of a page: what becomes of their *)
(* listeners, and when the scripts among them are evaluated.               *)
(*                                                                         *)
(* Nodes 1 and 2 are containers, 2 is in the document or not.  Node 3 is   *)
(* an element with the scripts 4 and 5 in it, not in the document yet.     *)
(* `jobs' is what the current calls still have to do, innermost first; the *)
(* code of a script may do all that other code may.                        *)
(***************************************************************************)
EXTENDS Integers, Sequences, FiniteSets
LOCAL Seqs == INSTANCE SequencesExt

CONSTANTS MaxNodes, MaxCalls

VARIABLES
    page,      \* the nodes, their places, listeners and data
    jobs, calls,
    given,     \* history: the nodes that were given a listener
    runs,      \* history: how often a script ran since its data was cleaned
    spread,    \* history: scripts copied by one call for several targets
    disturbed  \* history: scripts moved while they were to be evaluated

vars == <<page, jobs, calls, given, runs, spread, disturbed>>

Document == 0
Nowhere == -1
Nodes == 1..MaxNodes

\* handle: the element that the function in its data dispatches to.
\* heard: the elements that the functions listening to the node dispatch to.
Init ==
    /\ \E place \in {Document, Nowhere} :
        page = [count |-> 5,
                script |-> {4, 5},
                parent |-> [n \in Nodes |-> CASE n = 1 -> Document [] n = 2 -> place
                                              [] n \in {4, 5} -> 3 [] OTHER -> Nowhere],
                origin |-> [n \in Nodes |-> n],
                events |-> {},
                handle |-> [n \in Nodes |-> Nowhere],
                heard |-> [n \in Nodes |-> {}],
                globalEval |-> {}]
    /\ jobs = <<>> /\ calls = 0
    /\ given = {} /\ runs = [n \in Nodes |-> 0]
    /\ spread = {} /\ disturbed = {}

-----------------------------------------------------------------------------
(* The tree.                                                               *)

\* A node and what it is in.
Chain(p, n) ==
    LET chain[m \in Nodes \union {Document, Nowhere}] ==
            IF m \in Nodes THEN {m} \union chain[p.parent[m]] ELSE {m}
    IN  chain[n]

IsAttached(p, n) == Document \in Chain(p, n)
GetAll(p, n) == {n} \union {m \in 1..p.count : n \in Chain(p, m)}
Scripts(p, n) == GetAll(p, n) \intersect p.script

Placed(p, n, place) == [p EXCEPT !.parent[n] = place]
Marked(p, scripts) == [p EXCEPT !.globalEval = @ \union scripts]

-----------------------------------------------------------------------------
(* Listeners and data.                                                     *)

\* jQuery.event.add: the first listener of an element creates its handle.
Listens(p, n) ==
    LET owner == IF p.handle[n] = Nowhere THEN n ELSE p.handle[n]
    IN  [p EXCEPT !.events = @ \union {n},
                  !.handle[n] = owner,
                  !.heard[n] = IF n \in p.events THEN @ ELSE @ \union {owner}]

\* jQuery.cleanData
Cleaned(p, nodes) ==
    [p EXCEPT !.heard = [n \in Nodes |->
                  IF n \in nodes /\ n \in p.events THEN @[n] \ {p.handle[n]} ELSE @[n]],
              !.events = @ \ nodes,
              !.handle = [n \in Nodes |-> IF n \in nodes THEN Nowhere ELSE @[n]],
              !.globalEval = @ \ nodes]

\* Faulty: the handle is copied with the rest of the data.
CopyHandle(p, src, dest) ==
    LET copied == [p EXCEPT
            !.globalEval = IF src \in p.globalEval THEN @ \union {dest} ELSE @,
            !.handle[dest] = p.handle[src]]
    IN  IF src \in p.events THEN Listens(copied, dest) ELSE copied

\* cloneCopyEvent: all the private data, but with listeners of its own.
CopyEvent(p, src, dest) ==
    LET copied == [p EXCEPT
            !.globalEval = IF src \in p.globalEval THEN @ \union {dest} ELSE @,
            !.handle[dest] = Nowhere]
    IN  IF src \in p.events THEN Listens(copied, dest) ELSE copied

\* The copies of a node and what is in it.
Copy(p, n) ==
    [m \in GetAll(p, n) |-> p.count + Cardinality({k \in GetAll(p, n) : k <= m})]

HasRoom(p, n, times) == p.count + times * Cardinality(GetAll(p, n)) <= MaxNodes

\* Node.cloneNode: the tree without data.
CloneNode(p, n) ==
    LET copy == Copy(p, n)
        old(m) == CHOOSE k \in DOMAIN copy : copy[k] = m
        new == {copy[m] : m \in DOMAIN copy}
    IN  [p EXCEPT
            !.count = @ + Cardinality(new),
            !.script = @ \union {copy[m] : m \in Scripts(p, n)},
            !.parent = [m \in Nodes |->
                IF m \in new THEN (IF old(m) = n THEN Nowhere ELSE copy[@[old(m)]]) ELSE @[m]],
            !.origin = [m \in Nodes |-> IF m \in new THEN @[old(m)] ELSE @[m]]]

\* full[k]: with the data of the first k nodes.
CopyEvents(p, n, withEvents) ==
    LET copy == Copy(p, n)
        full[k \in 0..p.count] ==
            IF k = 0 THEN CloneNode(p, n)
            ELSE IF k \in withEvents THEN CopyEvent(full[k - 1], k, copy[k]) ELSE full[k - 1]
    IN  full[p.count]

\* jQuery.clone, of an element alone or with all that is in it.  Scripts that
\* are in the page have been evaluated.
Cloned(p, n, withEvents) ==
    LET copies(nodes) == {Copy(p, n)[m] : m \in nodes}
        evaluated == IF IsAttached(p, n) THEN Scripts(p, n)
                     ELSE Scripts(p, n) \intersect p.globalEval
    IN  [CopyEvents(p, n, withEvents) EXCEPT !.globalEval =
            (@ \ copies(Scripts(p, n))) \union copies(evaluated)]

-----------------------------------------------------------------------------
(* User code.                                                              *)

UserCode == jobs # <<>> => Head(jobs).job = "user"
Call == UserCode /\ calls < MaxCalls /\ calls' = calls + 1
Existing == 1..page.count

\* The scripts that are still to be evaluated.
Due == UNION {Seqs!ToSet(jobs[i].scripts) : i \in {j \in DOMAIN jobs : jobs[j].job = "evaluate"}}

\* n leaves its place, while scripts in it are due or not.
Disturbs(n) == disturbed' = disturbed \union (Due \intersect GetAll(page, n))

On(n) ==
    /\ Call
    /\ page' = Listens(page, n)
    /\ given' = given \union {n}
    /\ UNCHANGED <<jobs, runs, spread, disturbed>>

\* The data of nodes is cleaned: a script among them counts as a new one.
Forget(nodes) ==
    /\ given' = given \ nodes
    /\ runs' = [n \in Nodes |-> IF n \in nodes THEN 0 ELSE runs[n]]

Detach(n) ==
    /\ Call
    /\ page' = Placed(IF IsAttached(page, n) THEN Marked(page, Scripts(page, n)) ELSE page,
                      n, Nowhere)
    /\ Disturbs(n)
    /\ UNCHANGED <<jobs, given, runs, spread>>

Remove(n) ==
    /\ Call
    /\ page' = Placed(Cleaned(page, GetAll(page, n)), n, Nowhere)
    /\ Forget(GetAll(page, n))
    /\ Disturbs(n)
    /\ UNCHANGED <<jobs, spread>>

\* empty, and html before the new content.
Empty(n) ==
    /\ Call /\ GetAll(page, n) # {n}
    /\ LET inside == GetAll(page, n) \ {n}
           clean == Cleaned(page, inside)
       IN  /\ page' = [clean EXCEPT !.parent = [m \in Nodes |-> IF @[m] = n THEN Nowhere ELSE @[m]]]
           /\ Forget(inside)
    /\ Disturbs(n)
    /\ UNCHANGED <<jobs, spread>>

\* clone(), clone( true, false ) and clone( true ).
Clone(n) ==
    /\ Call /\ HasRoom(page, n, 1)
    /\ \E withEvents \in {{}, {n}, GetAll(page, n)} :
        /\ page' = Cloned(page, n, withEvents)
        /\ given' = given \union {Copy(page, n)[m] : m \in withEvents \intersect given}
    /\ UNCHANGED <<jobs, runs, spread, disturbed>>

-----------------------------------------------------------------------------
(* domManip.                                                               *)

\* Faulty: nothing tells that its scripts have been evaluated.
TakenUnmarked(p, content) == Placed(p, content, Nowhere)

\* buildFragment: the content leaves its place.  What was in the page has been
\* evaluated.
Taken(p, content) ==
    Placed(IF IsAttached(p, content) THEN Marked(p, Scripts(p, content)) ELSE p,
           content, Nowhere)

\* The scripts to evaluate, in document order: the ones of the original.
Evaluate(p, content) ==
    [job |-> "evaluate",
     scripts |-> Seqs!SetToSortSeq(Scripts(p, content), LAMBDA a, b : a < b)]

\* append and prepend put the content into the target; before and after put it
\* beside the target, where that has a parent.
Place(p, target, beside) == IF beside THEN p.parent[target] ELSE target

\* The last of the targets gets the content, the others a copy.
Insert(targets, content) ==
    /\ Call
    /\ \A i \in DOMAIN targets : targets[i] \notin GetAll(page, content)
    /\ LET fragment == Taken(page, content)
           last == Seqs!Last(targets)
           several == Len(targets) > 1
           copied == Cloned(fragment, content, GetAll(fragment, content))
           copy == Copy(fragment, content)
       IN  /\ several => HasRoom(fragment, content, 1)
           /\ \E beside \in BOOLEAN :
               page' = Placed(
                   IF several
                   THEN Placed(copied, copy[content], Place(fragment, targets[1], beside))
                   ELSE fragment,
                   content, Place(fragment, last, beside))
           /\ jobs' = <<Evaluate(fragment, content)>> \o jobs
           /\ given' = IF several THEN given \union {copy[m] : m \in DOMAIN copy \intersect given}
                                  ELSE given
           /\ spread' = IF several THEN spread \union {page.origin[s] : s \in Scripts(page, content)}
                                   ELSE spread
    /\ Disturbs(content)
    /\ UNCHANGED runs

\* The content takes the place of the target, whose data is cleaned; what was
\* inside the target and is its replacement is out of it by then.
ReplaceWith(target, content) ==
    /\ Call
    /\ target \notin GetAll(page, content)
    /\ LET fragment == Taken(page, content)
           clean == Cleaned(fragment, GetAll(fragment, target))
           place == fragment.parent[target]
       IN  /\ page' = IF place = Nowhere THEN clean
                      ELSE Placed(Placed(clean, content, place), target, Nowhere)
           /\ jobs' = <<Evaluate(fragment, content)>> \o jobs
           /\ Forget(GetAll(fragment, target))
    /\ disturbed' = disturbed \union (Due \intersect (GetAll(page, target) \union GetAll(page, content)))
    /\ UNCHANGED spread

-----------------------------------------------------------------------------
(* The evaluation of scripts, at the end of domManip.                      *)

Script == Head(Head(jobs).scripts)
Later == [Head(jobs) EXCEPT !.scripts = Tail(@)]

Evaluating == jobs # <<>> /\ Head(jobs).job = "evaluate"

Evaluated ==
    /\ Evaluating /\ Head(jobs).scripts = <<>>
    /\ jobs' = Tail(jobs)
    /\ UNCHANGED <<page, calls, given, runs, spread, disturbed>>

\* Executable scripts are evaluated on their first insertion into the document.
EvaluateScript ==
    /\ Evaluating /\ Head(jobs).scripts # <<>>
    /\ IF Script \notin page.globalEval /\ IsAttached(page, Script)
       THEN /\ runs' = [runs EXCEPT ![Script] = @ + 1]
            /\ jobs' = <<[job |-> "user"], Later>> \o Tail(jobs)
       ELSE jobs' = <<Later>> \o Tail(jobs) /\ UNCHANGED runs
    /\ UNCHANGED <<page, calls, given, spread, disturbed>>

Return ==
    /\ jobs # <<>> /\ Head(jobs).job = "user"
    /\ jobs' = Tail(jobs)
    /\ UNCHANGED <<page, calls, given, runs, spread, disturbed>>

Next ==
    \/ \E n \in Existing : On(n) \/ Detach(n) \/ Remove(n) \/ Empty(n) \/ Clone(n)
    \/ \E content \in Existing, targets \in {<<1>>, <<2>>, <<1, 2>>, <<2, 1>>} : Insert(targets, content)
    \/ \E content, target \in Existing : ReplaceWith(target, content)
    \/ Evaluated \/ EvaluateScript \/ Return

Spec == Init /\ [][Next]_vars

-----------------------------------------------------------------------------

\* A node listens if it was given a listener, itself or as a copy of one that
\* was, and neither it nor a node it was in was removed since; what listens to
\* it dispatches to it, never to the node that it is a copy of.
ListenersAsGiven ==
    /\ page.events = given
    /\ \A n \in Nodes : page.heard[n] = IF n \in given THEN {n} ELSE {}

\* A script is evaluated once, the first time that it gets into the document,
\* however it or what it is in is moved afterwards, unless it is removed with
\* its data, or moved by a script that was evaluated just before it.  If what it
\* is in was inserted into several targets at once it may not be evaluated at
\* all: only the scripts of the original are looked at, in the last of them.
EvaluatedOnce ==
    \A s \in page.script \ disturbed :
        /\ runs[s] <= 1
        /\ jobs = <<>> /\ IsAttached(page, s) /\ page.origin[s] \notin spread
           => s \in page.globalEval \/ runs[s] = 1

\* As the comment on it has it: executable scripts are evaluated on the first
\* insertion into the document, of the script or of a copy of it.
EvaluatedOnFirstInsertion ==
    jobs = <<>> =>
        \A s \in page.script : IsAttached(page, s) =>
            \E t \in page.script :
                /\ page.origin[t] = page.origin[s]
                /\ t \in page.globalEval \/ runs[t] >= 1
=============================================================================
