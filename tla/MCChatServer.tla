---------------------------- MODULE MCChatServer ----------------------------
(* Small instances of ChatServer for TLC. *)
EXTENDS ChatServer, TLC

CONSTANTS a, b, l1, l2

MCClients2 == {a, b}
MCLoops1   == {l1}
MCLoops2   == {l1, l2}

\* On two loops, or on one.
MCLoopOfApart  == (a :> l1) @@ (b :> l2)
MCLoopOfShared == (a :> l1) @@ (b :> l1)

\* How much each client sends, its upgrade request included.
MCSpeaker   == [x \in Clients |-> IF x = a THEN 3 ELSE 1]
MCThreeEach == [x \in Clients |-> 3]
=============================================================================
