----------------------- MODULE FixLengthFrameDecoder -----------------------
(***************************************************************************)
(* FixLengthFrameDecoder with the ByteToMessageDecoder it extends: bytes   *)
(* come in reads of any size and leave as frames of frameLength bytes.     *)
(* Bytes are numbered 1, 2, 3, ... as they come.                           *)
(***************************************************************************)
EXTENDS Naturals, Sequences

CONSTANTS
    frameLength,
    MaxBytes       \* bound: bytes written to the channel

\* The constructor refuses any other length.
ASSUME LengthAssumption == frameLength \in Nat \ {0}
ASSUME BytesAssumption == MaxBytes \in Nat

VARIABLES
    taken,     \* bytes read from the channel
    pos,       \* bytes consumed by the decoder
    out,       \* the frames, each with its first and its last byte
    running,   \* is decode running?
    open       \* is the channel open?

vars == <<taken, pos, out, running, open>>

Frame == [first : Nat, last : Nat]

Init ==
    /\ taken = 0
    /\ pos = 0
    /\ out = <<>>
    /\ running = FALSE
    /\ open = TRUE

\* A read adds to the bytes kept from earlier reads, and decode is called.
Read ==
    /\ open
    /\ ~running
    /\ taken' \in taken + 1 .. MaxBytes
    /\ running' = TRUE
    /\ UNCHANGED <<pos, out, open>>

ReadableBytes == taken - pos

\* The condition of the loop.
Enough == ReadableBytes >= frameLength

\* Faulty: the frame is copied, its bytes are not consumed.
DecodeCopies ==
    /\ running
    /\ Enough
    /\ Len(out) < MaxBytes
    /\ out' = Append(out, [first |-> pos + 1, last |-> pos + frameLength])
    /\ UNCHANGED <<taken, pos, running, open>>

\* An iteration of the loop cuts off a frame.
Decode ==
    /\ running
    /\ Enough
    /\ out' = Append(out, [first |-> pos + 1, last |-> pos + frameLength])
    /\ pos' = pos + frameLength
    /\ UNCHANGED <<taken, running, open>>

\* Faulty: what is left over is thrown away with the buffer.
ReturnDropping ==
    /\ running
    /\ ~Enough
    /\ pos' = taken
    /\ running' = FALSE
    /\ UNCHANGED <<taken, out, open>>

\* decode returns; the bytes that make no frame are kept for the next read.
Return ==
    /\ running
    /\ ~Enough
    /\ running' = FALSE
    /\ UNCHANGED <<taken, pos, out, open>>

\* The channel closes: decode is called for what is left, finds no frame in
\* it, and it is released.
Close ==
    /\ open
    /\ ~running
    /\ running' = (ReadableBytes > 0)
    /\ open' = FALSE
    /\ UNCHANGED <<taken, pos, out>>

Next == Read \/ Decode \/ Return \/ Close

Spec == Init /\ [][Next]_vars

-----------------------------------------------------------------------------
(* Properties *)

\* Every variable keeps its type, and no byte is consumed before it came.
TypeOK ==
    /\ taken \in Nat
    /\ pos \in Nat /\ pos <= taken
    /\ out \in Seq(Frame)
    /\ running \in BOOLEAN
    /\ open \in BOOLEAN

\* The frames follow each other without gap or overlap, each as long as it
\* should be, and no consumed byte is in none.
Tiled ==
    /\ \A i \in DOMAIN out :
          /\ out[i].last = out[i].first + frameLength - 1
          /\ out[i].first = IF i = 1 THEN 1 ELSE out[i - 1].last + 1
    /\ pos = IF out = <<>> THEN 0 ELSE out[Len(out)].last

\* Between reads no whole frame is held back, so that the frames depend on
\* the bytes alone and not on how reads cut them.
NoneHeldBack == ~running => taken - pos < frameLength
CutIndependent == ~running => Len(out) = taken \div frameLength
=============================================================================
