------------------------- MODULE AbsIntegerEncoder -------------------------
(***************************************************************************)
(* AbsIntegerEncoder with the MessageToMessageEncoder it extends: a buffer *)
(* of integers written to the channel leaves it as one object per integer. *)
(* An integer is one of -Half .. Half - 1; Half is 2^31 in the program.    *)
(***************************************************************************)
EXTENDS Integers, Sequences

CONSTANTS
    Half,
    MaxInts,     \* bound: integers in a buffer
    MaxOffered   \* bound: integers written after which no buffer follows

VARIABLES
    offered,   \* the integers of all buffers written so far
    in,        \* of the buffer being encoded: integers not read yet
    tail,      \* bytes behind its last whole integer
    out,       \* objects made from it so far
    busy,      \* is encode running?
    outbound   \* everything that has left the channel

vars == <<offered, in, tail, out, busy, outbound>>

IntValues == -Half .. Half - 1

\* What an int holds of a number: two's complement.
Wrap(x) == ((x + Half) % (2 * Half)) - Half

\* Math.abs
Abs(v) == IF v < 0 THEN Wrap(-v) ELSE v

Init ==
    /\ offered = <<>>
    /\ in = <<>> /\ tail = 0 /\ out = <<>>
    /\ busy = FALSE
    /\ outbound = <<>>

\* A buffer is written to the channel.
Write ==
    /\ ~busy
    /\ Len(offered) < MaxOffered
    /\ \E k \in 0 .. MaxInts : \E buffer \in [1 .. k -> IntValues] :
         /\ in' = buffer
         /\ offered' = offered \o buffer
    /\ tail' \in 0 .. 3
    /\ busy' = TRUE
    /\ UNCHANGED <<out, outbound>>

ReadableBytes == 4 * Len(in) + tail

\* Faulty: more bytes than an integer has.
EnoughGreater == ReadableBytes > 4

\* The condition of the loop: there is an integer to read.
Enough == ReadableBytes >= 4

\* An iteration of the loop.
Encode ==
    /\ busy /\ Enough
    /\ out' = Append(out, Abs(Head(in)))
    /\ in' = Tail(in)
    /\ UNCHANGED <<offered, tail, busy, outbound>>

\* The objects leave the channel and the buffer is released, with the bytes
\* left in it.  If there are none the write fails: an encoder must produce at
\* least one message.
Return ==
    /\ busy /\ ~Enough
    /\ outbound' = outbound \o out
    /\ in' = <<>> /\ tail' = 0 /\ out' = <<>>
    /\ busy' = FALSE
    /\ UNCHANGED offered

Next == Write \/ Encode \/ Return

Spec == Init /\ [][Next]_vars

-----------------------------------------------------------------------------
(* Properties *)

Magnitude(v) == IF v < 0 THEN -v ELSE v

\* Whatever the sizes of the buffers and however many bytes are left over,
\* the i-th object is the absolute value of the i-th integer, with the one
\* exception two's complement makes.
EveryMagnitude ==
    ~busy => /\ Len(outbound) = Len(offered)
             /\ \A i \in DOMAIN offered :
                    outbound[i] = IF offered[i] = -Half THEN -Half
                                  ELSE Magnitude(offered[i])
=============================================================================
