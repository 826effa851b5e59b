------------------------- MODULE JunitChannelProofs -------------------------
(***************************************************************************)
(* Proofs about the handlers of junit-channel: FixLengthFrameDecoder, for  *)
(* every frameLength and however the bytes are cut into reads,             *)
(* FrameChunkDecoder, for every maxFrameSize and every size of the reads,  *)
(* and AbsIntegerEncoder, for every width of an integer.                   *)
(***************************************************************************)
EXTENDS MCJunitChannel, SequenceTheorems, TLAPS

-----------------------------------------------------------------------------
(* FixLengthFrameDecoder                                                    *)

\* The invariant of the proofs: the three facts depend on the types only.
FrameInv == TypeOK /\ Tiled /\ NoneHeldBack

LEMMA InitInv == Init => FrameInv
  <1> SUFFICES ASSUME Init PROVE FrameInv
    OBVIOUS
  <1> USE DEF Init
  <1>1. TypeOK
    <2>1. out \in Seq(Frame)
      BY EmptySeq
    <2>2. taken \in Nat /\ pos \in Nat /\ pos <= taken
      OBVIOUS
    <2>3. running \in BOOLEAN /\ open \in BOOLEAN
      OBVIOUS
    <2> QED BY <2>1, <2>2, <2>3 DEF TypeOK
  <1>2. Tiled
    BY DEF Tiled
  <1>3. NoneHeldBack
    BY LengthAssumption DEF NoneHeldBack
  <1> QED BY <1>1, <1>2, <1>3 DEF FrameInv

\* The one step that makes a frame: it begins behind the last one.
LEMMA DecodeInv ==
  ASSUME FrameInv, Decode
  PROVE  FrameInv'
  <1> DEFINE f == [first |-> pos + 1, last |-> pos + frameLength]
  <1> USE LengthAssumption DEF FrameInv
  <1>1. /\ taken \in Nat /\ pos \in Nat /\ out \in Seq(Frame)
        /\ frameLength \in Nat /\ frameLength > 0
        /\ taken - pos >= frameLength
        /\ running' = running /\ open' = open /\ taken' = taken
        /\ out' = Append(out, f) /\ pos' = pos + frameLength
    BY DEF TypeOK, Decode, Enough, ReadableBytes
  <1>2. f \in Frame
    BY <1>1 DEF Frame
  <1>3. f.first = pos + 1 /\ f.last = pos + frameLength
    OBVIOUS
  <1> HIDE DEF f
  <1>4. /\ out' \in Seq(Frame) /\ Len(out) \in Nat
        /\ Len(out') = Len(out) + 1
        /\ \A i \in 1 .. Len(out) : out'[i] = out[i]
        /\ out'[Len(out) + 1] = f
        /\ DOMAIN out = 1 .. Len(out) /\ DOMAIN out' = 1 .. Len(out) + 1
        /\ out' # <<>>
    BY <1>1, <1>2, AppendProperties, LenProperties
  <1>5. TypeOK'
    BY <1>1, <1>4 DEF TypeOK
  <1>6. pos = IF Len(out) = 0 THEN 0 ELSE out[Len(out)].last
    BY <1>1, EmptySeq DEF Tiled
  <1>7. ASSUME NEW i \in 1 .. Len(out) + 1
        PROVE  /\ out'[i].last = out'[i].first + frameLength - 1
               /\ out'[i].first = IF i = 1 THEN 1 ELSE out'[i - 1].last + 1
    <2>1. CASE i \in 1 .. Len(out)
      <3>1. out'[i] = out[i] /\ (i # 1 => out'[i - 1] = out[i - 1])
        BY <2>1, <1>4
      <3>2. /\ out[i].last = out[i].first + frameLength - 1
            /\ out[i].first = IF i = 1 THEN 1 ELSE out[i - 1].last + 1
        BY <2>1, <1>4 DEF Tiled
      <3> QED BY <3>1, <3>2
    <2>2. CASE i = Len(out) + 1
      <3>1. CASE Len(out) = 0
        BY <3>1, <2>2, <1>1, <1>3, <1>4, <1>6
      <3>2. CASE Len(out) > 0
        <4>1. out'[i - 1] = out[Len(out)] /\ i # 1
          BY <3>2, <2>2, <1>4
        <4>2. pos = out[Len(out)].last
          BY <3>2, <1>6
        <4>3. out'[i] = f
          BY <2>2, <1>4
        <4>4. out'[i - 1].last = pos
          BY <4>1, <4>2
        <4> QED BY <4>1, <4>3, <4>4, <1>1, <1>3
      <3> QED BY <3>1, <3>2, <1>4
    <2> QED BY <2>1, <2>2, <1>4
  <1>8. pos' = out'[Len(out')].last
    BY <1>1, <1>3, <1>4
  <1>9. Tiled'
    BY <1>4, <1>7, <1>8 DEF Tiled
  <1>10. NoneHeldBack'
    BY <1>1 DEF NoneHeldBack, Decode
  <1> QED BY <1>5, <1>9, <1>10

\* Every step keeps the invariant.
LEMMA NextInv == FrameInv /\ [Next]_vars => FrameInv'
  <1> SUFFICES ASSUME FrameInv, [Next]_vars PROVE FrameInv'
    OBVIOUS
  <1> USE LengthAssumption, BytesAssumption DEF FrameInv, ReadableBytes
  <1>1. CASE Read
    <2>1. TypeOK'
      BY <1>1 DEF Read, TypeOK
    <2>2. Tiled'
      BY <1>1 DEF Read, Tiled
    <2>3. NoneHeldBack'
      BY <1>1 DEF Read, NoneHeldBack
    <2> QED BY <2>1, <2>2, <2>3
  <1>2. CASE Decode
    BY <1>2, DecodeInv
  <1>3. CASE Return
    <2>1. TypeOK'
      BY <1>3 DEF Return, TypeOK
    <2>2. Tiled'
      BY <1>3 DEF Return, Tiled
    <2>3. NoneHeldBack'
      BY <1>3 DEF Return, Enough, NoneHeldBack, TypeOK
    <2> QED BY <2>1, <2>2, <2>3
  <1>4. CASE Close
    <2>1. TypeOK'
      <3>1. running' \in BOOLEAN
        <4>1. taken - pos \in Int
          BY DEF TypeOK
        <4>2. ASSUME NEW n \in Int PROVE (n > 0) \in BOOLEAN
          BY SMT
        <4>3. running' = (taken - pos > 0)
          BY <1>4 DEF Close
        <4> QED BY <4>1, <4>2, <4>3
      <3> QED BY <3>1, <1>4 DEF Close, TypeOK
    <2>2. Tiled'
      BY <1>4 DEF Close, Tiled
    <2>3. NoneHeldBack'
      BY <1>4 DEF Close, NoneHeldBack
    <2> QED BY <2>1, <2>2, <2>3
  <1>5. CASE UNCHANGED vars
    BY <1>5 DEF vars, TypeOK, Tiled, NoneHeldBack
  <1> QED BY <1>1, <1>2, <1>3, <1>4, <1>5 DEF Next

\* Frames follow each other without gap or overlap and every consumed byte is
\* in one of them, for every frame length and every way to cut the bytes.
THEOREM FramesTile == Spec => []Tiled
  <1>1. FrameInv => Tiled
    BY DEF FrameInv
  <1> QED BY InitInv, NextInv, <1>1, PTL DEF Spec

\* decode never returns with a whole frame left in its buffer.
THEOREM NothingHeldBack == Spec => []NoneHeldBack
  <1>1. FrameInv => NoneHeldBack
    BY DEF FrameInv
  <1> QED BY InitInv, NextInv, <1>1, PTL DEF Spec

-----------------------------------------------------------------------------
(* How many frames there are.                                               *)

Counted == pos = Len(out) * frameLength

\* A quotient is determined by its bounds.
LEMMA Quotient ==
    ASSUME NEW n \in Nat, NEW f \in Nat \ {0}, NEW t \in Nat, n * f <= t, t < n * f + f
    PROVE  t \div f = n
OBVIOUS

LEMMA CountedStep == FrameInv /\ Counted /\ [Next]_vars => Counted'
  <1> SUFFICES ASSUME FrameInv, Counted, [Next]_vars PROVE Counted'
    OBVIOUS
  <1>1. CASE Decode
    <2>1. /\ pos' = pos + frameLength
          /\ out' = Append(out, [first |-> pos + 1, last |-> pos + frameLength])
      BY <1>1 DEF Decode
    <2>2. out \in Seq(Frame) /\ [first |-> pos + 1, last |-> pos + frameLength] \in Frame
      BY LengthAssumption DEF FrameInv, TypeOK, Frame
    <2>3. Len(out') = Len(out) + 1 /\ Len(out) \in Nat
      BY <2>1, <2>2, AppendProperties, LenProperties
    <2>4. (Len(out) + 1) * frameLength = Len(out) * frameLength + frameLength
      BY <2>3, LengthAssumption
    <2> QED BY <2>1, <2>3, <2>4 DEF Counted
  <1>2. CASE UNCHANGED <<pos, out>>
    BY <1>2 DEF Counted
  <1> QED BY <1>1, <1>2 DEF Next, Read, Return, Close, vars

\* Between reads the number of frames is that of the bytes that came, divided
\* by the frame length, however they came.
THEOREM FramesCounted == Spec => []CutIndependent
  <1>1. Init => FrameInv /\ Counted
    BY InitInv, LengthAssumption DEF Init, Counted
  <1>2. FrameInv /\ Counted => CutIndependent
    <2> SUFFICES ASSUME FrameInv, Counted, ~running
                 PROVE  Len(out) = taken \div frameLength
      BY DEF CutIndependent
    <2>1. /\ Len(out) \in Nat /\ taken \in Nat /\ pos \in Nat
          /\ pos <= taken /\ taken - pos < frameLength
      BY LenProperties DEF FrameInv, TypeOK, NoneHeldBack
    <2>2. Len(out) * frameLength <= taken /\ taken < Len(out) * frameLength + frameLength
      BY <2>1, LengthAssumption DEF Counted
    <2> QED BY <2>1, <2>2, LengthAssumption, Quotient
  <1> QED BY <1>1, <1>2, NextInv, CountedStep, PTL DEF Spec

-----------------------------------------------------------------------------
(* FrameChunkDecoder                                                       *)

ChunkTypes ==
    /\ reads \in Seq(Chunk!Frame) /\ chunks \in Seq(Chunk!Frame)
    /\ chunkPos \in Nat /\ thrown \in Nat

\* The reads follow each other, and the last one may still be in the buffer.
ReadsInv ==
    /\ Chunk!InOrder(reads)
    /\ \A i \in 1 .. Len(reads) : reads[i].first <= reads[i].last /\ reads[i].last <= Chunk!Taken
    /\ \A i \in 1 .. Len(reads) : i # Len(reads) => reads[i].last <= chunkPos
    /\ chunkPos # Chunk!Taken => reads # <<>> /\ reads[Len(reads)].first = chunkPos + 1

\* The frames are the reads that fit and have left the buffer.
ChunksInv ==
    /\ \A i \in 1 .. Len(chunks) :
          /\ chunks[i].last <= chunkPos /\ Chunk!Fits(chunks[i])
          /\ \E j \in 1 .. Len(reads) : reads[j] = chunks[i]
    /\ \A j \in 1 .. Len(reads) : Chunk!Fits(reads[j]) /\ reads[j].last <= chunkPos
                                 => \E i \in 1 .. Len(chunks) : chunks[i] = reads[j]
    /\ Chunk!InOrder(chunks)
    /\ chunkPos = Chunk!Taken => Len(reads) = thrown + Len(chunks)
    /\ chunkPos # Chunk!Taken => Len(reads) = thrown + Len(chunks) + 1

ChunkInv == ChunkTypes /\ ReadsInv /\ ChunksInv

LEMMA ChunkInit == Chunk!Init => ChunkInv
<1> SUFFICES ASSUME Chunk!Init PROVE ChunkInv
  OBVIOUS
<1>1. /\ reads = <<>> /\ chunks = <<>> /\ chunkPos = 0 /\ thrown = 0
      /\ Len(reads) = 0 /\ Len(chunks) = 0 /\ DOMAIN reads = {} /\ DOMAIN chunks = {}
      /\ reads \in Seq(Chunk!Frame) /\ chunks \in Seq(Chunk!Frame) /\ Chunk!Taken = 0
  BY DEF Chunk!Init, Chunk!Taken
<1>2. ChunkTypes /\ ReadsInv
  BY <1>1 DEF ChunkTypes, ReadsInv, Chunk!InOrder
<1>3. ChunksInv
  BY <1>1 DEF ChunksInv, Chunk!InOrder
<1> QED BY <1>2, <1>3 DEF ChunkInv

\* Numbers that proofs need again and again.
LEMMA ChunkNumbers ==
  ASSUME ChunkInv
  PROVE  /\ Len(reads) \in Nat /\ Len(chunks) \in Nat
         /\ DOMAIN reads = 1 .. Len(reads) /\ DOMAIN chunks = 1 .. Len(chunks)
         /\ reads = <<>> <=> Len(reads) = 0
         /\ Chunk!Taken \in Nat /\ chunkPos <= Chunk!Taken
         /\ reads # <<>> => /\ Len(reads) \in 1 .. Len(reads)
                            /\ Chunk!Taken = reads[Len(reads)].last
         /\ \A i \in 1 .. Len(reads) : reads[i] \in Chunk!Frame
         /\ \A i \in 1 .. Len(chunks) : chunks[i] \in Chunk!Frame
<1>1. /\ Len(reads) \in Nat /\ Len(chunks) \in Nat
      /\ DOMAIN reads = 1 .. Len(reads) /\ DOMAIN chunks = 1 .. Len(chunks)
      /\ reads = <<>> <=> Len(reads) = 0
      /\ \A i \in 1 .. Len(reads) : reads[i] \in Chunk!Frame
      /\ \A i \in 1 .. Len(chunks) : chunks[i] \in Chunk!Frame
  BY LenProperties, EmptySeq, ElementOfSeq DEF ChunkInv, ChunkTypes
<1>2. reads # <<>> => Len(reads) \in 1 .. Len(reads) /\ Chunk!Taken = reads[Len(reads)].last
  BY <1>1 DEF Chunk!Taken
<1>3. Chunk!Taken \in Nat
  BY <1>1, <1>2 DEF Chunk!Taken, Chunk!Frame
<1>4. chunkPos <= Chunk!Taken
  <2>1. CASE chunkPos = Chunk!Taken
    BY <1>3, <2>1
  <2>2. CASE chunkPos # Chunk!Taken
    <3>1. reads # <<>> /\ reads[Len(reads)].first = chunkPos + 1
      BY <2>2 DEF ChunkInv, ReadsInv
    <3>2. reads[Len(reads)].first <= reads[Len(reads)].last /\ chunkPos \in Nat
      BY <1>2, <3>1 DEF ChunkInv, ReadsInv, ChunkTypes
    <3> QED BY <1>2, <1>3, <3>1, <3>2
  <2> QED BY <2>1, <2>2
<1> QED BY <1>1, <1>2, <1>3, <1>4

\* A read comes when the buffer is empty.
LEMMA ChunkRead == ASSUME ChunkInv, Chunk!Read PROVE ChunkInv'
<1>0. ChunkTypes /\ ReadsInv /\ ChunksInv
  BY DEF ChunkInv
<1>1. /\ Len(reads) \in Nat /\ Len(chunks) \in Nat /\ chunkPos \in Nat
      /\ DOMAIN reads = 1 .. Len(reads) /\ DOMAIN chunks = 1 .. Len(chunks)
      /\ Chunk!Taken \in Nat /\ \A i \in 1 .. Len(reads) : reads[i] \in Chunk!Frame
  BY <1>0, ChunkNumbers DEF ChunkTypes
<1>2. chunkPos = Chunk!Taken /\ UNCHANGED <<chunkPos, chunks, thrown>>
  BY <1>1 DEF Chunk!Read, Chunk!ReadableBytes
<1>3. PICK last \in Chunk!Taken + 1 .. MaxChunkBytes :
         reads' = Append(reads, [first |-> Chunk!Taken + 1, last |-> last])
  BY DEF Chunk!Read
<1>4. PICK r \in Chunk!Frame : /\ r.first = chunkPos + 1 /\ r.last \in Nat /\ r.last > chunkPos
                               /\ reads' = Append(reads, r)
  <2>1. last \in Nat /\ last > chunkPos
    BY <1>1, <1>2, SizesAssumption
  <2> QED BY <1>1, <1>2, <1>3, <2>1 DEF Chunk!Frame
<1>5. /\ reads' \in Seq(Chunk!Frame) /\ Len(reads') = Len(reads) + 1 /\ reads' # <<>>
      /\ \A i \in 1 .. Len(reads) : reads'[i] = reads[i]
      /\ reads'[Len(reads) + 1] = r /\ DOMAIN reads' = 1 .. Len(reads) + 1
  BY <1>0, <1>4, AppendProperties, LenProperties DEF ChunkTypes
<1>6. Chunk!Taken' = r.last
  BY <1>5 DEF Chunk!Taken
<1>7. \A i \in 1 .. Len(reads') :
          \/ i \in 1 .. Len(reads) /\ reads'[i] = reads[i]
          \/ i = Len(reads) + 1 /\ reads'[i] = r
  BY <1>1, <1>5
<1>8. ChunkTypes'
  BY <1>0, <1>2, <1>5 DEF ChunkTypes
<1>9. \A i \in 1 .. Len(reads) : reads[i].last <= chunkPos /\ reads[i].last \in Nat
  BY <1>0, <1>1, <1>2 DEF ReadsInv, Chunk!Frame
<1>10. ReadsInv'
  <2>1. Chunk!InOrder(reads)'
    <3> SUFFICES ASSUME NEW i \in 1 .. Len(reads'), NEW j \in 1 .. Len(reads'), i < j
                 PROVE  reads'[i].last < reads'[j].first
      BY <1>5 DEF Chunk!InOrder
    <3>1. i \in 1 .. Len(reads) /\ reads'[i] = reads[i]
      BY <1>1, <1>5
    <3>2. CASE j \in 1 .. Len(reads)
      <4>1. reads[i].last < reads[j].first
        BY <1>0, <1>1, <3>1, <3>2 DEF ReadsInv, Chunk!InOrder
      <4>2. reads'[j] = reads[j]
        BY <1>5, <3>2
      <4> QED BY <3>1, <4>1, <4>2
    <3>3. CASE j = Len(reads) + 1
      BY <1>2, <1>4, <1>5, <1>9, <1>1, <3>1, <3>3
    <3> QED BY <1>7, <3>2, <3>3
  <2>2. \A i \in 1 .. Len(reads') :
            reads'[i].first <= reads'[i].last /\ reads'[i].last <= Chunk!Taken'
    <3> SUFFICES ASSUME NEW i \in 1 .. Len(reads')
                 PROVE  reads'[i].first <= reads'[i].last /\ reads'[i].last <= Chunk!Taken'
      OBVIOUS
    <3>1. CASE i \in 1 .. Len(reads) /\ reads'[i] = reads[i]
      <4>1. reads[i].first <= reads[i].last
        BY <1>0, <3>1 DEF ReadsInv
      <4>2. reads[i].last <= chunkPos /\ reads[i].last \in Nat
        BY <1>9, <3>1
      <4> QED BY <1>1, <1>4, <1>6, <3>1, <4>1, <4>2
    <3>2. CASE reads'[i] = r
      BY <1>1, <1>4, <1>6, <3>2
    <3> QED BY <1>7, <3>1, <3>2
  <2>3. \A i \in 1 .. Len(reads') : i # Len(reads') => reads'[i].last <= chunkPos'
    BY <1>2, <1>5, <1>7, <1>9
  <2> QED BY <1>2, <1>4, <1>5, <2>1, <2>2, <2>3 DEF ReadsInv
<1>11. ChunksInv'
  <2>1. ASSUME NEW i \in 1 .. Len(chunks)
        PROVE  \E j \in 1 .. Len(reads') : reads'[j] = chunks[i]
    <3>1. PICK j \in 1 .. Len(reads) : reads[j] = chunks[i]
      BY <1>0 DEF ChunksInv
    <3>2. j \in 1 .. Len(reads') /\ reads'[j] = chunks[i]
      BY <1>1, <1>5, <3>1
    <3> QED BY <3>2
  <2>2. \A j \in 1 .. Len(reads') : Chunk!Fits(reads'[j]) /\ reads'[j].last <= chunkPos
                                 => \E i \in 1 .. Len(chunks) : chunks[i] = reads'[j]
    BY <1>0, <1>1, <1>4, <1>7 DEF ChunksInv
  <2>3. chunkPos # Chunk!Taken' /\ Len(reads') = thrown + Len(chunks) + 1
    <3>1. Len(reads) = thrown + Len(chunks) /\ thrown \in Nat
      BY <1>0, <1>2 DEF ChunksInv, ChunkTypes
    <3> QED BY <1>1, <1>4, <1>5, <1>6, <3>1
  <2> QED BY <1>0, <1>2, <2>1, <2>2, <2>3 DEF ChunksInv, Chunk!Fits, Chunk!InOrder
<1> QED BY <1>8, <1>10, <1>11 DEF ChunkInv

\* The read in the buffer is the last one.
LEMMA InBuffer ==
  ASSUME ChunkInv, Chunk!ReadableBytes > 0
  PROVE  /\ chunkPos # Chunk!Taken /\ Len(reads) \in 1 .. Len(reads)
         /\ reads[Len(reads)].first = chunkPos + 1 /\ reads[Len(reads)].last = Chunk!Taken
         /\ Chunk!Fits(reads[Len(reads)]) <=> ~Chunk!TooLong
<1>1. /\ chunkPos \in Nat /\ Chunk!Taken \in Nat /\ chunkPos < Chunk!Taken
  BY ChunkNumbers DEF Chunk!ReadableBytes, ChunkInv, ChunkTypes
<1>2. reads # <<>> /\ reads[Len(reads)].first = chunkPos + 1
  BY <1>1 DEF ChunkInv, ReadsInv
<1>3. Len(reads) \in 1 .. Len(reads) /\ reads[Len(reads)].last = Chunk!Taken
  BY <1>2, ChunkNumbers
<1> QED BY <1>1, <1>2, <1>3, SizesAssumption DEF Chunk!Fits, Chunk!TooLong, Chunk!ReadableBytes

\* A read that is too long leaves alone.
LEMMA ChunkDiscard == ASSUME ChunkInv, Chunk!Discard PROVE ChunkInv'
<1>0. ChunkTypes /\ ReadsInv /\ ChunksInv
  BY DEF ChunkInv
<1>1. /\ Len(reads) \in Nat /\ Len(chunks) \in Nat /\ chunkPos \in Nat /\ thrown \in Nat
      /\ Chunk!Taken \in Nat /\ chunkPos < Chunk!Taken
      /\ \A i \in 1 .. Len(reads) : reads[i] \in Chunk!Frame
      /\ \A i \in 1 .. Len(chunks) : chunks[i] \in Chunk!Frame
  BY <1>0, ChunkNumbers DEF ChunkTypes, Chunk!ReadableBytes, Chunk!Discard
<1>2. /\ chunkPos' = Chunk!Taken /\ thrown' = thrown + 1 /\ UNCHANGED <<reads, chunks>>
      /\ Chunk!Taken' = Chunk!Taken
  BY DEF Chunk!Discard, Chunk!Taken
<1>3. /\ chunkPos # Chunk!Taken /\ ~Chunk!Fits(reads[Len(reads)])
  BY InBuffer DEF Chunk!Discard
<1>4. ChunkTypes'
  BY <1>0, <1>1, <1>2 DEF ChunkTypes
<1>5. ReadsInv'
  BY <1>0, <1>2 DEF ReadsInv, Chunk!InOrder
<1>6. \A i \in 1 .. Len(chunks) : chunks[i].last <= chunkPos'
  BY <1>0, <1>1, <1>2 DEF ChunksInv, Chunk!Frame
<1>7. \A j \in 1 .. Len(reads) : Chunk!Fits(reads[j])
                               => \E i \in 1 .. Len(chunks) : chunks[i] = reads[j]
  BY <1>0, <1>3 DEF ChunksInv, ReadsInv
<1>8. Len(reads) = thrown' + Len(chunks)
  BY <1>0, <1>1, <1>2, <1>3 DEF ChunksInv
<1>9. ChunksInv'
  <2>1. \A i \in 1 .. Len(chunks) :
            Chunk!Fits(chunks[i]) /\ \E j \in 1 .. Len(reads) : reads[j] = chunks[i]
    BY <1>0 DEF ChunksInv
  <2>2. Chunk!InOrder(chunks)
    BY <1>0 DEF ChunksInv
  <2> QED BY <1>2, <1>6, <1>7, <1>8, <2>1, <2>2 DEF ChunksInv, Chunk!Fits, Chunk!InOrder
<1> QED BY <1>4, <1>5, <1>9 DEF ChunkInv

\* A read that fits is the next frame.
LEMMA ChunkPass == ASSUME ChunkInv, Chunk!Pass PROVE ChunkInv'
<1>0. ChunkTypes /\ ReadsInv /\ ChunksInv
  BY DEF ChunkInv
<1>1. /\ Len(reads) \in Nat /\ Len(chunks) \in Nat /\ chunkPos \in Nat /\ thrown \in Nat
      /\ Chunk!Taken \in Nat /\ chunkPos < Chunk!Taken
      /\ DOMAIN reads = 1 .. Len(reads) /\ DOMAIN chunks = 1 .. Len(chunks)
      /\ \A i \in 1 .. Len(reads) : reads[i] \in Chunk!Frame
      /\ \A i \in 1 .. Len(chunks) : chunks[i] \in Chunk!Frame
  BY <1>0, ChunkNumbers DEF ChunkTypes, Chunk!ReadableBytes, Chunk!Pass
<1>2. /\ chunkPos' = Chunk!Taken /\ UNCHANGED <<reads, thrown>> /\ Chunk!Taken' = Chunk!Taken
      /\ chunks' = Append(chunks, [first |-> chunkPos + 1, last |-> Chunk!Taken])
  BY DEF Chunk!Pass, Chunk!Taken
<1>3. PICK r : r = reads[Len(reads)]
  OBVIOUS
<1>4. /\ Len(reads) \in 1 .. Len(reads) /\ Chunk!Fits(r) /\ r \in Chunk!Frame
      /\ r.first = chunkPos + 1 /\ r.last = Chunk!Taken /\ chunkPos # Chunk!Taken
  BY <1>1, <1>3, InBuffer DEF Chunk!Pass
<1>5. chunks' = Append(chunks, r)
  BY <1>2, <1>4 DEF Chunk!Frame
<1>6. /\ chunks' \in Seq(Chunk!Frame) /\ Len(chunks') = Len(chunks) + 1
      /\ \A i \in 1 .. Len(chunks) : chunks'[i] = chunks[i]
      /\ chunks'[Len(chunks) + 1] = r /\ DOMAIN chunks' = 1 .. Len(chunks) + 1
  BY <1>0, <1>4, <1>5, AppendProperties, LenProperties DEF ChunkTypes
<1>7. \A i \in 1 .. Len(chunks') :
          \/ i \in 1 .. Len(chunks) /\ chunks'[i] = chunks[i]
          \/ i = Len(chunks) + 1 /\ chunks'[i] = r
  BY <1>1, <1>6
<1>8. ChunkTypes'
  BY <1>0, <1>1, <1>2, <1>6 DEF ChunkTypes
<1>9. ReadsInv'
  BY <1>0, <1>2 DEF ReadsInv, Chunk!InOrder
<1>10. \A i \in 1 .. Len(chunks) : chunks[i].last <= chunkPos /\ chunks[i].last \in Nat
  BY <1>0, <1>1 DEF ChunksInv, Chunk!Frame
<1>11. \A i \in 1 .. Len(chunks') :
          /\ chunks'[i].last <= chunkPos' /\ Chunk!Fits(chunks'[i])
          /\ \E j \in 1 .. Len(reads) : reads[j] = chunks'[i]
  <2> SUFFICES ASSUME NEW i \in 1 .. Len(chunks')
               PROVE  /\ chunks'[i].last <= chunkPos' /\ Chunk!Fits(chunks'[i])
                      /\ \E j \in 1 .. Len(reads) : reads[j] = chunks'[i]
    OBVIOUS
  <2>1. CASE i \in 1 .. Len(chunks) /\ chunks'[i] = chunks[i]
    <3>1. Chunk!Fits(chunks[i]) /\ \E j \in 1 .. Len(reads) : reads[j] = chunks[i]
      BY <1>0, <2>1 DEF ChunksInv
    <3>2. chunks[i].last <= chunkPos'
      BY <1>1, <1>2, <1>10, <2>1
    <3> QED BY <2>1, <3>1, <3>2
  <2>2. CASE chunks'[i] = r
    BY <1>1, <1>2, <1>3, <1>4, <2>2
  <2> QED BY <1>7, <2>1, <2>2
<1>12. \A j \in 1 .. Len(reads) : Chunk!Fits(reads[j])
                                => \E i \in 1 .. Len(chunks') : chunks'[i] = reads[j]
  <2> SUFFICES ASSUME NEW j \in 1 .. Len(reads), Chunk!Fits(reads[j])
               PROVE  \E i \in 1 .. Len(chunks') : chunks'[i] = reads[j]
    OBVIOUS
  <2>1. CASE j = Len(reads)
    BY <1>1, <1>3, <1>6, <2>1
  <2>2. CASE j # Len(reads)
    <3>1. PICK i \in 1 .. Len(chunks) : chunks[i] = reads[j]
      BY <1>0, <2>2 DEF ChunksInv, ReadsInv
    <3>2. i \in 1 .. Len(chunks') /\ chunks'[i] = reads[j]
      BY <1>1, <1>6, <3>1
    <3> QED BY <3>2
  <2> QED BY <2>1, <2>2
<1>13. Chunk!InOrder(chunks)'
  <2> SUFFICES ASSUME NEW i \in 1 .. Len(chunks'), NEW j \in 1 .. Len(chunks'), i < j
               PROVE  chunks'[i].last < chunks'[j].first
    BY <1>6 DEF Chunk!InOrder
  <2>1. i \in 1 .. Len(chunks) /\ chunks'[i] = chunks[i]
    BY <1>1, <1>6
  <2>2. CASE j \in 1 .. Len(chunks)
    <3>1. chunks[i].last < chunks[j].first
      BY <1>0, <1>1, <2>1, <2>2 DEF ChunksInv, Chunk!InOrder
    <3>2. chunks'[j] = chunks[j]
      BY <1>6, <2>2
    <3> QED BY <2>1, <3>1, <3>2
  <2>3. CASE j = Len(chunks) + 1
    BY <1>1, <1>4, <1>6, <1>10, <2>1, <2>3
  <2> QED BY <1>7, <2>2, <2>3
<1>14. Len(reads) = thrown + Len(chunks')
  BY <1>0, <1>1, <1>4, <1>6 DEF ChunksInv
<1>15. ChunksInv'
  BY <1>2, <1>11, <1>12, <1>13, <1>14 DEF ChunksInv, Chunk!Fits
<1> QED BY <1>8, <1>9, <1>15 DEF ChunkInv

LEMMA ChunkNext == ChunkInv /\ [Chunk!Next]_Chunk!vars => ChunkInv'
<1> SUFFICES ASSUME ChunkInv, [Chunk!Next]_Chunk!vars PROVE ChunkInv'
  OBVIOUS
<1>1. CASE UNCHANGED Chunk!vars
  BY <1>1 DEF ChunkInv, ChunkTypes, ReadsInv, ChunksInv, Chunk!vars, Chunk!InOrder, Chunk!Taken,
              Chunk!Fits
<1>2. CASE Chunk!Read
  BY <1>2, ChunkRead
<1>3. CASE Chunk!Discard
  BY <1>3, ChunkDiscard
<1>4. CASE Chunk!Pass
  BY <1>4, ChunkPass
<1> QED BY <1>1, <1>2, <1>3, <1>4 DEF Chunk!Next

\* Whatever the sizes of the reads and of a frame, the frames are the reads that
\* fit, whole and in order, and every other read ended in an exception.
THEOREM ReadsAreFrames == Chunk!Spec => []FramesAreReads
<1>1. ChunkInv => FramesAreReads
  <2> SUFFICES ASSUME ChunkInv, Chunk!ReadableBytes = 0
               PROVE  /\ Chunk!Elements(chunks) = {r \in Chunk!Elements(reads) : Chunk!Fits(r)}
                      /\ Chunk!InOrder(chunks)
                      /\ thrown = Len(reads) - Len(chunks)
    BY DEF FramesAreReads, Chunk!FramesAreReads
  <2>1. /\ chunkPos = Chunk!Taken /\ chunkPos \in Nat /\ thrown \in Nat
        /\ Len(reads) \in Nat /\ Len(chunks) \in Nat
        /\ DOMAIN reads = 1 .. Len(reads) /\ DOMAIN chunks = 1 .. Len(chunks)
    BY ChunkNumbers DEF Chunk!ReadableBytes, ChunkInv, ChunkTypes
  <2>2. Chunk!InOrder(chunks) /\ thrown = Len(reads) - Len(chunks)
    BY <2>1 DEF ChunkInv, ChunksInv
  <2>3. \A j \in 1 .. Len(reads) : Chunk!Fits(reads[j])
                                 => \E i \in 1 .. Len(chunks) : chunks[i] = reads[j]
    BY <2>1 DEF ChunkInv, ChunksInv, ReadsInv
  <2>4. \A i \in 1 .. Len(chunks) :
            Chunk!Fits(chunks[i]) /\ \E j \in 1 .. Len(reads) : reads[j] = chunks[i]
    BY DEF ChunkInv, ChunksInv
  <2>5. Chunk!Elements(chunks) = {r \in Chunk!Elements(reads) : Chunk!Fits(r)}
    <3>1. ASSUME NEW r \in Chunk!Elements(chunks)
          PROVE  r \in Chunk!Elements(reads) /\ Chunk!Fits(r)
      BY <2>1, <2>4, <3>1 DEF Chunk!Elements
    <3>2. ASSUME NEW r \in Chunk!Elements(reads), Chunk!Fits(r) PROVE r \in Chunk!Elements(chunks)
      BY <2>1, <2>3, <3>2 DEF Chunk!Elements
    <3> QED BY <3>1, <3>2
  <2> QED BY <2>2, <2>5
<1> QED BY <1>1, ChunkInit, ChunkNext, PTL DEF Chunk!Spec

-----------------------------------------------------------------------------
(* AbsIntegerEncoder                                                        *)

\* The integers on their way: objects that left, then those of the buffer being
\* encoded, then integers not read yet.
AbsInv ==
    /\ offered \in Seq(Abs!IntValues) /\ in \in Seq(Abs!IntValues)
    /\ ints \in Seq(Int) /\ outbound \in Seq(Int) /\ tail \in 0 .. 3
    /\ Len(offered) = Len(outbound) + Len(ints) + Len(in)
    /\ \A i \in 1 .. Len(outbound) : outbound[i] = Abs!Abs(offered[i])
    /\ \A i \in 1 .. Len(ints) : ints[i] = Abs!Abs(offered[Len(outbound) + i])
    /\ \A i \in 1 .. Len(in) : in[i] = offered[Len(outbound) + Len(ints) + i]
    /\ ~busy => in = <<>> /\ ints = <<>>

\* Two's complement has every magnitude but that of its least integer.
LEMMA AbsValue ==
    ASSUME NEW v \in Abs!IntValues
    PROVE  /\ Abs!Abs(v) \in Int
           /\ Abs!Abs(v) = IF v = -Half THEN -Half ELSE Abs!Magnitude(v)
<1> USE HalfAssumption DEF Abs!IntValues, Abs!Abs, Abs!Wrap, Abs!Magnitude
<1>1. CASE v >= 0
  BY <1>1
<1>2. CASE v < 0 /\ v # -Half
  <2>1. ASSUME NEW x \in 0 .. 2 * Half - 1 PROVE x % (2 * Half) = x
    OBVIOUS
  <2>2. (-v + Half) % (2 * Half) = -v + Half
    BY <1>2, <2>1
  <2> QED BY <1>2, <2>2
<1>3. CASE v = -Half
  <2>1. (2 * Half) % (2 * Half) = 0
    OBVIOUS
  <2>2. (-v + Half) % (2 * Half) = 0
    BY <1>3, <2>1
  <2> QED BY <1>3, <2>2
<1> QED BY <1>1, <1>2, <1>3

LEMMA WriteAbs == ASSUME AbsInv, Abs!Write PROVE AbsInv'
<1>1. PICK k \in 0 .. MaxInts : \E b \in [1 .. k -> Abs!IntValues] :
          in' = b /\ offered' = offered \o b
  BY DEF Abs!Write
<1>2. PICK b \in [1 .. k -> Abs!IntValues] : in' = b /\ offered' = offered \o b
  BY <1>1
<1>3. b \in Seq(Abs!IntValues) /\ Len(b) = k /\ k \in Nat
  BY <1>1, <1>2
<1>4. /\ in = <<>> /\ ints = <<>> /\ UNCHANGED <<ints, outbound>> /\ busy' /\ tail' \in 0 .. 3
  BY DEF Abs!Write, AbsInv
<1>5. /\ offered \in Seq(Abs!IntValues) /\ outbound \in Seq(Int) /\ ints \in Seq(Int)
      /\ Len(outbound) \in Nat /\ Len(offered) \in Nat
      /\ Len(ints) = 0 /\ Len(in) = 0 /\ Len(offered) = Len(outbound)
  BY <1>4, EmptySeq, LenProperties DEF AbsInv
<1>6. /\ offered \o b \in Seq(Abs!IntValues)
      /\ Len(offered \o b) = Len(offered) + Len(b)
      /\ \A i \in 1 .. Len(offered) + Len(b) :
            (offered \o b)[i] = IF i <= Len(offered) THEN offered[i] ELSE b[i - Len(offered)]
  BY <1>3, <1>5, ConcatProperties
<1>7. /\ offered' \in Seq(Abs!IntValues) /\ Len(offered') = Len(offered) + k
      /\ \A i \in 1 .. Len(offered) : offered'[i] = offered[i]
  BY <1>2, <1>3, <1>5, <1>6
<1>8. \A i \in 1 .. k : offered'[Len(offered) + i] = b[i]
  <2> SUFFICES ASSUME NEW i \in 1 .. k PROVE offered'[Len(offered) + i] = b[i]
    OBVIOUS
  <2>1. Len(offered) + i \in 1 .. Len(offered) + Len(b) /\ ~(Len(offered) + i <= Len(offered))
    BY <1>3, <1>5
  <2>2. (Len(offered) + i) - Len(offered) = i
    BY <1>3, <1>5
  <2> QED BY <1>2, <1>6, <2>1, <2>2
<1> QED BY <1>2, <1>3, <1>4, <1>5, <1>7, <1>8 DEF AbsInv

LEMMA EncodeAbs == ASSUME AbsInv, Abs!Encode PROVE AbsInv'
<1>1. /\ ints' = Append(ints, Abs!Abs(Head(in))) /\ in' = Tail(in)
      /\ UNCHANGED <<offered, tail, busy, outbound>> /\ busy
      /\ 4 * Len(in) + tail >= 4
  BY DEF Abs!Encode, Abs!Enough, Abs!ReadableBytes
<1>2. /\ in \in Seq(Abs!IntValues) /\ ints \in Seq(Int) /\ tail \in 0 .. 3
      /\ Len(in) \in Nat /\ Len(ints) \in Nat /\ Len(outbound) \in Nat
      /\ Len(offered) = Len(outbound) + Len(ints) + Len(in)
  BY LenProperties DEF AbsInv
<1>3. Len(in) >= 1 /\ in # <<>>
  BY <1>1, <1>2, EmptySeq
<1>4. /\ Head(in) = in[1] /\ in[1] \in Abs!IntValues
      /\ Tail(in) \in Seq(Abs!IntValues) /\ Len(Tail(in)) = Len(in) - 1
      /\ \A i \in 1 .. Len(in) - 1 : Tail(in)[i] = in[i + 1]
  BY <1>2, <1>3, HeadTailProperties, ElementOfSeq
<1>5. Abs!Abs(in[1]) \in Int /\ in[1] = offered[Len(outbound) + Len(ints) + 1]
  BY <1>2, <1>3, <1>4, AbsValue DEF AbsInv
<1>6. /\ ints' \in Seq(Int) /\ Len(ints') = Len(ints) + 1
      /\ \A i \in 1 .. Len(ints) : ints'[i] = ints[i]
      /\ ints'[Len(ints) + 1] = Abs!Abs(in[1])
  BY <1>1, <1>2, <1>4, <1>5, AppendProperties
<1>7. Len(offered') = Len(outbound') + Len(ints') + Len(in')
  BY <1>1, <1>2, <1>4, <1>6
<1>8. \A i \in 1 .. Len(ints') : ints'[i] = Abs!Abs(offered'[Len(outbound') + i])
  <2> SUFFICES ASSUME NEW i \in 1 .. Len(ints) + 1
               PROVE  ints'[i] = Abs!Abs(offered[Len(outbound) + i])
    BY <1>1, <1>6
  <2>1. CASE i \in 1 .. Len(ints)
    BY <1>6, <2>1 DEF AbsInv
  <2>2. CASE i = Len(ints) + 1
    BY <1>2, <1>5, <1>6, <2>2
  <2> QED BY <1>2, <2>1, <2>2
<1>9. \A i \in 1 .. Len(in') : in'[i] = offered'[Len(outbound') + Len(ints') + i]
  <2> SUFFICES ASSUME NEW i \in 1 .. Len(in) - 1
               PROVE  Tail(in)[i] = offered[Len(outbound) + (Len(ints) + 1) + i]
    BY <1>1, <1>4, <1>6
  <2>1. i + 1 \in 1 .. Len(in)
    BY <1>2
  <2>2. in[i + 1] = offered[Len(outbound) + Len(ints) + (i + 1)]
    BY <2>1 DEF AbsInv
  <2> QED BY <1>2, <1>4, <2>2
<1> QED BY <1>1, <1>4, <1>6, <1>7, <1>8, <1>9 DEF AbsInv

LEMMA ReturnAbs == ASSUME AbsInv, Abs!Return PROVE AbsInv'
<1>1. /\ outbound' = outbound \o ints /\ in' = <<>> /\ tail' = 0 /\ ints' = <<>>
      /\ UNCHANGED offered /\ ~(4 * Len(in) + tail >= 4)
  BY DEF Abs!Return, Abs!Enough, Abs!ReadableBytes
<1>2. /\ outbound \in Seq(Int) /\ ints \in Seq(Int) /\ tail \in 0 .. 3
      /\ Len(in) \in Nat /\ Len(ints) \in Nat /\ Len(outbound) \in Nat
  BY LenProperties DEF AbsInv
<1>3. Len(in) = 0
  BY <1>1, <1>2
<1>4. /\ outbound' \in Seq(Int) /\ Len(outbound') = Len(outbound) + Len(ints)
      /\ \A i \in 1 .. Len(outbound) : outbound'[i] = outbound[i]
      /\ \A i \in 1 .. Len(ints) : outbound'[Len(outbound) + i] = ints[i]
  BY <1>1, <1>2, ConcatProperties
<1>5. \A i \in 1 .. Len(outbound) + Len(ints) : outbound'[i] = Abs!Abs(offered[i])
  <2> SUFFICES ASSUME NEW i \in 1 .. Len(outbound) + Len(ints)
               PROVE  outbound'[i] = Abs!Abs(offered[i])
    OBVIOUS
  <2>1. CASE i <= Len(outbound)
    BY <1>2, <1>4, <2>1 DEF AbsInv
  <2>2. CASE i > Len(outbound)
    <3>1. i - Len(outbound) \in 1 .. Len(ints) /\ Len(outbound) + (i - Len(outbound)) = i
      BY <1>2, <2>2
    <3>2. ints[i - Len(outbound)] = Abs!Abs(offered[Len(outbound) + (i - Len(outbound))])
      BY <3>1 DEF AbsInv
    <3> QED BY <1>4, <3>1, <3>2
  <2> QED BY <1>2, <2>1, <2>2
<1>6. Len(in') = 0 /\ Len(ints') = 0 /\ in' \in Seq(Abs!IntValues) /\ ints' \in Seq(Int)
  BY <1>1, EmptySeq
<1>7. offered' \in Seq(Abs!IntValues) /\ Len(offered') = Len(outbound') + Len(ints') + Len(in')
  BY <1>1, <1>2, <1>3, <1>4, <1>6 DEF AbsInv
<1>8. \A i \in 1 .. Len(outbound') : outbound'[i] = Abs!Abs(offered'[i])
  BY <1>1, <1>4, <1>5
<1>9. /\ \A i \in 1 .. Len(ints') : ints'[i] = Abs!Abs(offered'[Len(outbound') + i])
      /\ \A i \in 1 .. Len(in') : in'[i] = offered'[Len(outbound') + Len(ints') + i]
  BY <1>6
<1>10. tail' \in 0 .. 3
  BY <1>1
<1> QED BY <1>1, <1>4, <1>6, <1>7, <1>8, <1>9, <1>10 DEF AbsInv

\* Whatever the sizes of the buffers and however many bytes are left over,
\* each integer leaves once, in order, as its absolute value, but for the least
\* integer, which has none.
THEOREM EveryIntegerLeaves == Abs!Spec => []EveryMagnitude
<1>1. Abs!Init => AbsInv
  <2> SUFFICES ASSUME Abs!Init PROVE AbsInv
    OBVIOUS
  <2>1. offered = <<>> /\ in = <<>> /\ ints = <<>> /\ outbound = <<>> /\ tail = 0
    BY DEF Abs!Init
  <2> QED BY <2>1, EmptySeq DEF AbsInv
<1>2. AbsInv /\ [Abs!Next]_Abs!vars => AbsInv'
  <2> SUFFICES ASSUME AbsInv, [Abs!Next]_Abs!vars PROVE AbsInv'
    OBVIOUS
  <2>1. CASE UNCHANGED Abs!vars
    BY <2>1 DEF Abs!vars, AbsInv
  <2> QED BY <2>1, WriteAbs, EncodeAbs, ReturnAbs DEF Abs!Next
<1>3. AbsInv => EveryMagnitude
  <2> SUFFICES ASSUME AbsInv, ~busy
               PROVE  /\ Len(outbound) = Len(offered)
                      /\ \A i \in DOMAIN offered :
                            outbound[i] = IF offered[i] = -Half THEN -Half
                                          ELSE Abs!Magnitude(offered[i])
    BY DEF EveryMagnitude, Abs!EveryMagnitude
  <2>1. /\ Len(in) = 0 /\ Len(ints) = 0 /\ Len(outbound) \in Nat
        /\ offered \in Seq(Abs!IntValues)
    BY EmptySeq, LenProperties DEF AbsInv
  <2>2. Len(outbound) = Len(offered)
    BY <2>1 DEF AbsInv
  <2>3. DOMAIN offered = 1 .. Len(outbound)
    BY <2>1, <2>2, LenProperties
  <2>4. \A i \in DOMAIN offered : offered[i] \in Abs!IntValues
    BY <2>1, <2>2, <2>3, ElementOfSeq
  <2> QED BY <2>2, <2>3, <2>4, AbsValue DEF AbsInv
<1> QED BY <1>1, <1>2, <1>3, PTL DEF Abs!Spec

=============================================================================
