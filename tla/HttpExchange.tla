---------------------------- MODULE HttpExchange ----------------------------
(***************************************************************************)
(* What an http connection of netty-api-practice amounts to for its        *)
(* client: responses come in the order of the requests, perRequest of them *)
(* to each.  With one per request a response waits for the whole request;  *)
(* with two, the first comes for its head and the second for its end.      *)
(***************************************************************************)
EXTENDS Naturals, Sequences

VARIABLES
    perRequest,  \* responses to a request: 1 or 2
    begun,       \* requests of which the server has handled the head
    complete,    \* requests it has handled to the end
    answers,     \* per response that left the server: the request it answers
    broken       \* has the connection ended?

vars == <<perRequest, begun, complete, answers, broken>>

Due == IF perRequest = 1 THEN complete ELSE begun + complete

Init ==
    /\ perRequest \in {1, 2}
    /\ begun = 0 /\ complete = 0
    /\ answers = <<>>
    /\ broken = FALSE

Begin    == begun = complete /\ begun' = begun + 1 /\ complete' = complete
Complete == begun > complete /\ complete' = complete + 1 /\ begun' = begun

\* The request that the i-th response answers.
Answered(i) == (i + perRequest - 1) \div perRequest

Proceed ==
    /\ ~broken
    /\ Begin \/ Complete \/ UNCHANGED <<begun, complete>>
    /\ \E k \in Len(answers) .. Due' : answers' = [i \in 1 .. k |-> Answered(i)]
    /\ UNCHANGED <<perRequest, broken>>

Break ==
    /\ broken' = TRUE
    /\ UNCHANGED <<perRequest, begun, complete, answers>>

Next == Proceed \/ Break

Spec == Init /\ [][Next]_vars
=============================================================================
