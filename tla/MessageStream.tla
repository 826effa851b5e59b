--------------------------- MODULE MessageStream ---------------------------
(***************************************************************************)
(* What MessageEncoder at one end and MessageDecoder at the other promise: *)
(* messages arrive whole, in the order they were sent, none twice and none *)
(* invented, until the stream breaks; then nothing arrives any more.  That *)
(* the stream breaks only when the connection does is NOT promised.        *)
(***************************************************************************)
EXTENDS Naturals, Sequences

CONSTANT Messages

VARIABLES
    sent,      \* the messages encoded so far
    arrived,   \* the messages the next handler has been given
    broken     \* has the receiving end given up?

Init == sent = <<>> /\ arrived = <<>> /\ broken = FALSE

Send ==
    /\ sent' \in Seq(Messages)
    /\ Len(sent') = Len(sent) + 1
    /\ \A i \in 1 .. Len(sent) : sent'[i] = sent[i]
    /\ UNCHANGED <<arrived, broken>>

Arrive ==
    /\ ~broken
    /\ Len(arrived) < Len(sent)
    /\ arrived' = Append(arrived, sent[Len(arrived) + 1])
    /\ UNCHANGED <<sent, broken>>

Break == broken' = TRUE /\ UNCHANGED <<sent, arrived>>

Next == Send \/ Arrive \/ Break

Spec == Init /\ [][Next]_<<sent, arrived, broken>>
=============================================================================
