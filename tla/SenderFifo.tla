----------------------------- MODULE SenderFifo -----------------------------
(***************************************************************************)
(* What the chat server promises about text, whatever its loops do: every  *)
(* client hears the texts of one sender in the order in which they were    *)
(* said, none twice, and, from the first one it hears, none left out.      *)
(* Nothing is promised about the texts of different senders, nor about     *)
(* what else a client receives, which is from NoOne.                       *)
(***************************************************************************)
EXTENDS Naturals, Sequences

CONSTANTS Clients, NoOne

VARIABLES
    said,    \* per client: how many texts it has said
    heard    \* per client: what reached it, in order

Said == [from : Clients \cup {NoOne}, n : Nat]

\* The texts of s in h are numbered m, m + 1, m + 2, ... for some m.
Consecutive(h, s) ==
    \A i \in DOMAIN h : h[i].from = s =>
        \/ \A j \in 1 .. i - 1 : h[j].from # s
        \/ \E j \in 1 .. i - 1 : /\ h[j] = [from |-> s, n |-> h[i].n - 1]
                                 /\ \A k \in j + 1 .. i - 1 : h[k].from # s

IsExtension(g, h) == Len(g) <= Len(h) /\ SubSeq(h, 1, Len(g)) = g

Init ==
    /\ said = [s \in Clients |-> 0]
    /\ heard = [r \in Clients |-> <<>>]

Say(s) ==
    /\ said' = [said EXCEPT ![s] = @ + 1]
    /\ UNCHANGED heard

\* One write to a socket may carry several.
Hear(r) ==
    /\ heard' \in [Clients -> Seq(Said)]
    /\ IsExtension(heard[r], heard'[r])
    /\ \A q \in Clients \ {r} : heard'[q] = heard[q]
    /\ \A i \in DOMAIN heard'[r] :
          heard'[r][i].from # NoOne => heard'[r][i].n \in 1 .. said[heard'[r][i].from]
    /\ \A s \in Clients : Consecutive(heard'[r], s)
    /\ UNCHANGED said

Next == \E c \in Clients : Say(c) \/ Hear(c)

Spec == Init /\ [][Next]_<<said, heard>>
=============================================================================
