------------------------- MODULE FrameChunkDecoder -------------------------
(***************************************************************************)
(* FrameChunkDecoder with the ByteToMessageDecoder it extends: each read   *)
(* leaves as one frame, unless it is longer than maxFrameSize: then it is  *)
(* discarded and the sender's write throws, but the channel goes on.       *)
(* Bytes are numbered 1, 2, 3, ... as they come.                           *)
(***************************************************************************)
EXTENDS Naturals, Sequences

CONSTANTS
    maxFrameSize,
    MaxBytes       \* bound: bytes written to the channel

VARIABLES
    reads,     \* the reads so far, each with its first and its last byte
    pos,       \* bytes that left the buffer, in a frame or discarded
    out,       \* the frames, likewise
    thrown     \* how many reads ended in a TooLongFrameException

vars == <<reads, pos, out, thrown>>

Frame == [first : Nat, last : Nat]

Taken == IF reads = <<>> THEN 0 ELSE reads[Len(reads)].last

Init ==
    /\ reads = <<>>
    /\ pos = 0
    /\ out = <<>>
    /\ thrown = 0

ReadableBytes == Taken - pos

\* decode is called while there is something in the buffer, then comes a read.
Read ==
    /\ ReadableBytes = 0
    /\ \E last \in Taken + 1 .. MaxBytes :
          reads' = Append(reads, [first |-> Taken + 1, last |-> last])
    /\ UNCHANGED <<pos, out, thrown>>

\* Faulty: the boundary is refused.
TooLongAtLimit == ReadableBytes >= maxFrameSize

\* More than a frame may have.
TooLong == ReadableBytes > maxFrameSize

\* The buffer is cleared and decode throws.
Discard ==
    /\ ReadableBytes > 0
    /\ TooLong
    /\ pos' = Taken
    /\ thrown' = thrown + 1
    /\ UNCHANGED <<reads, out>>

\* Everything in the buffer is one frame.
Pass ==
    /\ ReadableBytes > 0
    /\ ~TooLong
    /\ out' = Append(out, [first |-> pos + 1, last |-> Taken])
    /\ pos' = Taken
    /\ UNCHANGED <<reads, thrown>>

Next == Read \/ Discard \/ Pass

Spec == Init /\ [][Next]_vars

-----------------------------------------------------------------------------
(* Properties *)

\* A read that is too long takes nothing with it, neither bytes of the read
\* before nor of the one after: the frames are the reads that fit, whole and
\* in order, and every other read threw once.
Fits(r) == r.last - r.first < maxFrameSize
Elements(s) == {s[i] : i \in DOMAIN s}
InOrder(s) == \A i, j \in DOMAIN s : i < j => s[i].last < s[j].first
FramesAreReads ==
    ReadableBytes = 0 => /\ Elements(out) = {r \in Elements(reads) : Fits(r)}
                         /\ InOrder(out)
                         /\ thrown = Len(reads) - Len(out)
=============================================================================
