------------------------------ MODULE MCDocument ------------------------------
(***************************************************************************)
(* Small instances of what jQuery does with a document: the three of       *)
(* DocumentParts, and elements matched.  `part' says which of the four     *)
(* takes steps; the others stay as they begin, and nothing is matched.     *)
(***************************************************************************)
EXTENDS DocumentParts, TLC

CONSTANTS
    f, g,
    MaxNode, MaxRuns   \* of Matching

VARIABLES
    part,
    parent, marked, selector, dirruns, unvisited, results, data   \* Matching

matchVars == <<parent, marked, selector, dirruns, unvisited, results, data>>
allVars == <<part, vars, nodeVars, typeVars, matchVars>>

Sizzle == INSTANCE Matching

MCSymmetry == Permutations(Fns)

-----------------------------------------------------------------------------

Unused == <<>>
NoMatch ==
    /\ parent = Unused /\ marked = Unused /\ selector = Unused /\ dirruns = Unused
    /\ unvisited = Unused /\ results = Unused /\ data = Unused

MCInit ==
    /\ part \in {"click", "nodes", "types", "match"}
    /\ Init
    /\ Manip!Init /\ (part # "nodes" => page.parent[2] = Manip!Nowhere)
    /\ Conv!Init
    /\ part # "types" => asked = <<"*">> /\ \A pair \in Conv!Pairs : converters[pair] = "none"
    /\ IF part = "match" THEN Sizzle!Init ELSE NoMatch

MCNext ==
    \/ part = "click" /\ Next /\ UNCHANGED <<part, nodeVars, typeVars, matchVars>>
    \/ part = "nodes" /\ Manip!Next /\ UNCHANGED <<part, vars, typeVars, matchVars>>
    \/ part = "types" /\ Conv!Next /\ UNCHANGED <<part, vars, nodeVars, matchVars>>
    \/ part = "match" /\ Sizzle!Next /\ UNCHANGED <<part, vars, nodeVars, typeVars>>

MCSpec == MCInit /\ [][MCNext]_allVars

-----------------------------------------------------------------------------

\* The elements visited are found just if the selector means them, whatever was
\* kept of them and of others.
FindsWhatIsMeant == part = "match" => Sizzle!FindsWhatIsMeant
=============================================================================
