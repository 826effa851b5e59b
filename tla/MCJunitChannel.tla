--------------------------- MODULE MCJunitChannel ---------------------------
(***************************************************************************)
(* The three handlers of junit-channel as their tests use them: an         *)
(* EmbeddedChannel with one of them in its pipeline.                       *)
(***************************************************************************)
EXTENDS FixLengthFrameDecoder, Integers

CONSTANTS maxFrameSize, MaxChunkBytes, Half, MaxInts, MaxOffered

\* The sizes are numbers, and an integer has some width.
ASSUME SizesAssumption == maxFrameSize \in Int /\ MaxChunkBytes \in Nat
ASSUME HalfAssumption == Half \in Nat \ {0}

VARIABLES
    handler,                                 \* the handler in the pipeline
    reads, chunkPos, chunks, thrown,         \* of a FrameChunkDecoder
    offered, in, tail, ints, busy, outbound  \* of an AbsIntegerEncoder

fixVars == <<taken, pos, out, running, open>>
chunkVars == <<reads, chunkPos, chunks, thrown>>
absVars == <<offered, in, tail, ints, busy, outbound>>
allVars == <<handler, fixVars, chunkVars, absVars>>

Chunk == INSTANCE FrameChunkDecoder WITH
             pos <- chunkPos, out <- chunks, MaxBytes <- MaxChunkBytes
Abs == INSTANCE AbsIntegerEncoder WITH out <- ints

MCInit ==
    /\ handler \in {"FixLength", "FrameChunk", "AbsInteger"}
    /\ Init /\ Chunk!Init /\ Abs!Init

FixStep   == handler = "FixLength" /\ Next /\ UNCHANGED <<handler, chunkVars, absVars>>
ChunkStep == handler = "FrameChunk" /\ Chunk!Next /\ UNCHANGED <<handler, fixVars, absVars>>
AbsStep   == handler = "AbsInteger" /\ Abs!Next /\ UNCHANGED <<handler, fixVars, chunkVars>>

MCNext == FixStep \/ ChunkStep \/ AbsStep

MCSpec == MCInit /\ [][MCNext]_allVars

\* The properties of the other two: a read is a frame or is discarded alone,
\* and every integer leaves as its absolute value.
FramesAreReads == Chunk!FramesAreReads
EveryMagnitude == Abs!EveryMagnitude
=============================================================================
