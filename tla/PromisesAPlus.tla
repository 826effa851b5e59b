--------------------------- MODULE PromisesAPlus ---------------------------
(***************************************************************************)
(* What then() promises (the Promises/A+ rules its comments cite).  A      *)
(* promise settles once.  It may be resolved to another promise or to a    *)
(* foreign thenable: from then on it follows that one, whatever else       *)
(* happens, and settles as it does; of a thenable the first call counts.   *)
(***************************************************************************)
EXTENDS Integers

CONSTANT Promises

VARIABLES
    state,      \* pending, resolved, rejected
    val,        \* a plain value or <<"promise", p>>; <<>> while pending
    following   \* nothing <<>>, <<"promise", p>> or <<"thenable", n>>

vars == <<state, val, following>>

Init ==
    /\ state = [p \in Promises |-> "pending"]
    /\ val = [p \in Promises |-> <<>>]
    /\ following = [p \in Promises |-> <<>>]

\* With any value.
Settle(p, outcome) ==
    /\ state[p] = "pending"
    /\ state' = [state EXCEPT ![p] = outcome]
    /\ val' = [val EXCEPT ![p] = val'[p]]
    /\ UNCHANGED following

Follow(p, x) ==
    /\ state[p] = "pending"
    /\ following' = [following EXCEPT ![p] = x]
    /\ UNCHANGED <<state, val>>

FollowsPromise(p) == following[p] # <<>> /\ following[p][1] = "promise"

\* By its handler, by its owner, or by the thenable it follows.
Decide(p) ==
    /\ ~FollowsPromise(p)
    /\ \/ \E outcome \in {"resolved", "rejected"} : Settle(p, outcome)
       \/ \E q \in Promises \ {p} : Follow(p, <<"promise", q>>)
       \/ following[p] = <<>> /\ \E n \in 1..3 : Follow(p, <<"thenable", n>>)

\* The promise it follows has settled.
Adopt(p) ==
    /\ FollowsPromise(p)
    /\ LET q == following[p][2]
       IN  /\ state[q] # "pending"
           /\ IF state[q] = "resolved" /\ val[q][1] = "promise"
              THEN IF val[q][2] = p
                   THEN Settle(p, "rejected")   \* it would follow itself
                   ELSE Follow(p, val[q])
              ELSE Settle(p, state[q]) /\ val'[p] = val[q]

Next == \E p \in Promises : Decide(p) \/ Adopt(p)

Spec == Init /\ [][Next]_vars
=============================================================================
