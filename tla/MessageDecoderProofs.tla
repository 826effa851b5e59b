------------------------ MODULE MessageDecoderProofs ------------------------
(***************************************************************************)
(* Theorems about MessageDecoder, for every size of the header, every set  *)
(* of body lengths and every way of cutting the stream into reads.         *)
(***************************************************************************)
EXTENDS MessageDecoder, SequenceTheorems, TLAPS

IInv == TypeOK /\ DecoderInv

-----------------------------------------------------------------------------
(* Facts about the layout of the stream. *)

\* The sizes are natural numbers.
LEMMA EndType ==
    ASSUME NEW m \in Message
    PROVE  End(m) \in Nat /\ End(m) >= m.at + HEAD_LENGHT
BY HeadAssumption DEF End, Message

\* The last message ends where all messages end.
LEMMA TotalType ==
    ASSUME NEW fs \in Seq(Message)
    PROVE  Total(fs) \in Nat
<1>1. CASE fs = <<>>
  BY <1>1 DEF Total
<1>2. CASE fs # <<>>
  <2>1. fs[Len(fs)] \in Message
    BY <1>2
  <2> QED BY <1>2, <2>1, EndType DEF Total
<1> QED BY <1>1, <1>2

\* A message begins where no other one does.
LEMMA BeginsOnce ==
    ASSUME TypeOK, Layout, NEW k \in DOMAIN frames, NEW j \in DOMAIN frames,
           frames[j].at = frames[k].at
    PROVE  j = k
<1>1. /\ frames[j] \in Message /\ frames[k] \in Message
      /\ j \in Nat /\ k \in Nat
  BY DEF TypeOK
<1>2. End(frames[j]) > frames[j].at /\ End(frames[k]) > frames[k].at
  BY <1>1, HeadAssumption DEF End, Message
<1>3. ~(j < k)
  <2> SUFFICES ASSUME j < k PROVE FALSE
    OBVIOUS
  <2>1. j \in 1 .. k - 1
    BY <1>1, Layout DEF TypeOK
  <2>2. End(frames[j]) <= frames[k].at
    BY <2>1 DEF Layout
  <2> QED BY <1>1, <1>2, <2>2, EndType DEF Message
<1>4. ~(k < j)
  <2> SUFFICES ASSUME k < j PROVE FALSE
    OBVIOUS
  <2>1. k \in 1 .. j - 1
    BY <1>1, Layout DEF TypeOK
  <2>2. End(frames[k]) <= frames[j].at
    BY <2>1 DEF Layout
  <2> QED BY <1>1, <1>2, <2>2, EndType DEF Message
<1> QED BY <1>1, <1>3, <1>4

\* So the header that begins there is that of the message.
LEMMA LengthThere ==
    ASSUME TypeOK, Layout, NEW k \in DOMAIN frames
    PROVE  LengthAt(frames[k].at) = frames[k].body /\ TagAt(frames[k].at)
<1> DEFINE j == CHOOSE i \in DOMAIN frames : frames[i].at = frames[k].at
<1>1. j \in DOMAIN frames /\ frames[j].at = frames[k].at
  OBVIOUS
<1>2. j = k
  BY <1>1, BeginsOnce
<1>3. LengthAt(frames[k].at) = frames[k].body
  BY <1>2 DEF LengthAt, Layout
<1>4. frames[k] \in Message
  BY DEF TypeOK
<1>5. TagAt(frames[k].at)
  BY <1>4, HeadAssumption DEF TagAt, Message
<1> QED BY <1>3, <1>5

\* No byte of a body is taken for a tag.
LEMMA NoTagInBody ==
    ASSUME TypeOK, Layout, NEW k \in DOMAIN frames, NEW p \in Nat,
           frames[k].at + HEAD_LENGHT <= p, p < End(frames[k])
    PROVE  ~TagAt(p)
<1> SUFFICES ASSUME NEW j \in DOMAIN frames, p - frames[j].at \in TagOffsets
             PROVE  FALSE
  BY DEF TagAt
<1>1. /\ frames[j] \in Message /\ frames[k] \in Message
      /\ j \in Nat \ {0} /\ k \in Nat \ {0}
  BY DEF TypeOK
<1>2. frames[j].at <= p /\ p < frames[j].at + HEAD_LENGHT
  BY <1>1, HeadAssumption DEF Message
<1>6. /\ End(frames[j]) \in Nat /\ End(frames[j]) >= frames[j].at + HEAD_LENGHT
      /\ End(frames[k]) \in Nat /\ frames[j].at \in Nat /\ frames[k].at \in Nat
  BY <1>1, EndType DEF Message
<1>3. CASE j = k
  BY <1>1, <1>2, <1>3, HeadAssumption DEF Message
<1>4. CASE j < k
  <2>1. End(frames[j]) <= frames[k].at
    BY <1>1, <1>4 DEF Layout
  <2> QED BY <1>2, <1>6, <2>1, HeadAssumption
<1>5. CASE k < j
  <2>1. End(frames[k]) <= frames[j].at
    BY <1>1, <1>5 DEF Layout
  <2> QED BY <1>2, <1>6, <2>1, HeadAssumption
<1> QED BY <1>1, <1>3, <1>4, <1>5

\* What the sender adds lies behind everything else.
LEMMA LayoutSend ==
    ASSUME TypeOK, Layout, NEW b \in Nat, Encode(b)
    PROVE  /\ frames' \in Seq(Message)
           /\ Layout'
           /\ Len(frames') = Len(frames) + 1
           /\ \A k \in DOMAIN frames : k \in DOMAIN frames' /\ frames'[k] = frames[k]
           /\ Total(frames) <= Total(frames')
<1> DEFINE m == [at |-> Total(frames), length |-> b, body |-> b]
<1>1. m \in Message /\ m.at = Total(frames) /\ m.length = b /\ m.body = b
  BY TotalType DEF TypeOK, Message
<1> HIDE DEF m
<1>2. frames' = Append(frames, m)
  BY DEF Encode, m
<1>3. /\ frames' \in Seq(Message)
      /\ Len(frames') = Len(frames) + 1
      /\ frames'[Len(frames) + 1] = m
      /\ \A k \in DOMAIN frames : k \in DOMAIN frames' /\ frames'[k] = frames[k]
      /\ \A k \in DOMAIN frames' : k \in DOMAIN frames \/ k = Len(frames) + 1
  BY <1>1, <1>2, AppendProperties DEF TypeOK
<1>4. Total(frames') = End(m)
  BY <1>3 DEF Total
<1>5. Total(frames) \in Nat /\ Total(frames) <= End(m)
  BY <1>1, TotalType, HeadAssumption DEF End, TypeOK
<1>6. ASSUME NEW k \in DOMAIN frames'
      PROVE  /\ frames'[k].length = frames'[k].body
             /\ frames'[k].at = IF k = 1 THEN 0 ELSE End(frames'[k - 1])
             /\ End(frames'[k]) <= Total(frames')
             /\ \A j \in 1 .. k - 1 : End(frames'[j]) <= frames'[k].at
  <2>1. CASE k \in DOMAIN frames
    <3>1. k \in Nat /\ k \in 1 .. Len(frames)
      BY <2>1 DEF TypeOK
    <3>2. \A j \in 1 .. k : j \in DOMAIN frames /\ frames'[j] = frames[j]
      BY <1>3, <3>1 DEF TypeOK
    <3>3. k # 1 => k - 1 \in 1 .. k
      BY <3>1
    <3>4. End(frames[k]) <= Total(frames) /\ End(frames[k]) \in Nat
      BY <2>1, EndType DEF Layout, TypeOK
    <3>5. End(m) \in Nat
      BY <1>1, EndType
    <3> QED BY <2>1, <3>1, <3>2, <3>3, <3>4, <3>5, <1>4, <1>5 DEF Layout
  <2>2. CASE k = Len(frames) + 1
    <3>1. frames'[k] = m /\ Len(frames) \in Nat
      BY <2>2, <1>3 DEF TypeOK
    <3>2. \A j \in 1 .. k - 1 : End(frames'[j]) <= m.at
      BY <2>2, <1>1, <1>3, <3>1 DEF Layout, TypeOK
    <3>3. m.at = IF k = 1 THEN 0 ELSE End(frames'[k - 1])
      <4>1. CASE Len(frames) = 0
        BY <4>1, <2>2, <1>1 DEF Total, TypeOK
      <4>2. CASE Len(frames) # 0
        <5>1. Len(frames) \in DOMAIN frames /\ frames # <<>>
          BY <4>2, <3>1 DEF TypeOK
        <5>2. k - 1 = Len(frames) /\ k # 1
          BY <2>2, <4>2, <3>1
        <5> QED BY <5>1, <5>2, <1>1, <1>3 DEF Total
      <4> QED BY <4>1, <4>2
    <3>4. End(m) <= End(m)
      BY <1>1, EndType DEF Message
    <3> QED BY <3>1, <3>2, <3>3, <3>4, <1>1, <1>4
  <2> QED BY <1>3, <2>1, <2>2
<1>7. Layout'
  BY <1>6 DEF Layout
<1> QED BY <1>3, <1>4, <1>5, <1>7

-----------------------------------------------------------------------------
(* What the decoder knows when it stands at the beginning of a message.      *)

\* While the channel is open and bytes are left, they belong to the message
\* after the last one passed on, and begin with it.
LEMMA NextMessage ==
    ASSUME IInv, channel = "open", pos < taken
    PROVE  /\ Len(got) + 1 \in DOMAIN frames
           /\ pos = frames[Len(got) + 1].at
           /\ frames[Len(got) + 1] \in Message
<1>1. /\ Len(got) \in Nat /\ Len(frames) \in Nat
      /\ Len(got) <= Len(frames)
      /\ pos = EndOfGot
      /\ \A k \in 1 .. Len(frames) : k \in DOMAIN frames
  BY DEF IInv, DecoderInv, Prefix, InSync, TypeOK
<1>2. Len(got) # Len(frames)
  <2> SUFFICES ASSUME Len(got) = Len(frames) PROVE FALSE
    OBVIOUS
  <2>1. EndOfGot = Total(frames)
    BY DEF EndOfGot, Total, IInv, TypeOK
  <2> QED BY <1>1, <2>1, TotalType DEF IInv, TypeOK
<1>3. Len(got) + 1 \in DOMAIN frames
  BY <1>1, <1>2
<1>4. frames[Len(got) + 1].at = IF Len(got) + 1 = 1 THEN 0 ELSE End(frames[Len(got) + 1 - 1])
  BY <1>3 DEF IInv, DecoderInv, Layout
<1>5. pos = frames[Len(got) + 1].at
  <2>1. CASE Len(got) = 0
    BY <2>1, <1>1, <1>4 DEF EndOfGot
  <2>2. CASE Len(got) # 0
    <3>1. Len(got) + 1 # 1 /\ Len(got) + 1 - 1 = Len(got)
      BY <2>2, <1>1
    <3> QED BY <2>2, <3>1, <1>1, <1>4 DEF EndOfGot
  <2> QED BY <2>1, <2>2
<1> QED BY <1>3, <1>5 DEF IInv, TypeOK

\* After a failure the bytes that are left are never a message.
LEMMA NoMessageInRest ==
    ASSUME IInv, channel = "failed"
    PROVE  ~HeaderRead
<1> SUFFICES ASSUME HeaderRead PROVE FALSE
  OBVIOUS
<1> DEFINE k == Len(got) + 1
<1>1. /\ k \in DOMAIN frames /\ frames[k] \in Message
      /\ taken < End(frames[k]) /\ pos < taken
      /\ pos \in Nat /\ taken \in Nat
      /\ \/ pos = frames[k].at /\ taken - pos < HEAD_LENGHT
         \/ pos = frames[k].at + HEAD_LENGHT
  BY DEF IInv, DecoderInv, CutInside, HeaderRead, Decoding, Readable, TypeOK
<1>2. taken - pos >= HEAD_LENGHT /\ TagAt(pos)
  BY DEF HeaderRead, Readable
<1>3. pos = frames[k].at + HEAD_LENGHT
  BY <1>1, <1>2, HeadAssumption DEF Message
<1>4. pos < End(frames[k])
  BY <1>1, EndType
<1> HIDE DEF k
<1> QED BY <1>1, <1>2, <1>3, <1>4, NoTagInBody, HeadAssumption DEF IInv, DecoderInv, Message

\* The one message an open channel can decode is the next one, whole.
LEMMA DecodesNext ==
    ASSUME IInv, Whole
    PROVE  /\ channel = "open"
           /\ Len(got) + 1 \in DOMAIN frames
           /\ got' = Append(got, frames[Len(got) + 1])
           /\ pos' = End(frames[Len(got) + 1])
           /\ pos' <= taken
<1> DEFINE k == Len(got) + 1
<1>1. channel = "open" /\ pos < taken
  BY NoMessageInRest DEF IInv, TypeOK, Whole, HeaderRead, Decoding, Readable
<1>2. k \in DOMAIN frames /\ pos = frames[k].at /\ frames[k] \in Message
  BY <1>1, NextMessage
<1>3. LengthAt(pos) = frames[k].body /\ frames[k].length = frames[k].body
  BY <1>2, LengthThere DEF IInv, DecoderInv, Layout
<1>4. frames[k] = [at |-> pos, length |-> LengthAt(pos), body |-> LengthAt(pos)]
  BY <1>2, <1>3 DEF Message
<1>5. got' = Append(got, frames[k])
  BY <1>4 DEF Whole, Passed
<1>6. pos' = End(frames[k])
  BY <1>2, <1>3, HeadAssumption DEF Whole, End, Message
<1>7. pos' <= taken
  BY SMTT(30), <1>2, <1>3, HeadAssumption DEF Whole, Readable, IInv, TypeOK, Message
<1> QED BY <1>1, <1>2, <1>5, <1>6, <1>7

-----------------------------------------------------------------------------
(* The invariant, action by action. *)

LEMMA InitInv == Init => IInv
<1> SUFFICES ASSUME Init PROVE IInv
  OBVIOUS
<1>1. TypeOK
  BY DEF Init, TypeOK, Total
<1>2. Layout /\ Prefix
  BY DEF Init, Layout, Prefix
<1>3. InSync /\ CutInside
  BY DEF Init, InSync, CutInside, EndOfGot
<1> QED BY <1>1, <1>2, <1>3 DEF IInv, DecoderInv

LEMMA SendInv ==
    ASSUME IInv, Send
    PROVE  IInv'
<1>1. PICK b \in Bodies : Encode(b)
  BY DEF Send
<1>2. b \in Nat /\ TypeOK /\ Layout /\ Prefix /\ InSync /\ CutInside
  BY BodyAssumption DEF IInv, DecoderInv
<1>3. /\ frames' \in Seq(Message)
      /\ Layout'
      /\ Len(frames') = Len(frames) + 1
      /\ \A k \in DOMAIN frames : k \in DOMAIN frames' /\ frames'[k] = frames[k]
      /\ Total(frames) <= Total(frames')
  BY <1>1, <1>2, LayoutSend
<1>4. taken' = taken /\ pos' = pos /\ got' = got /\ channel' = channel
  BY DEF Send
<1>5. TypeOK'
  <2>1. Total(frames) \in Nat /\ Total(frames') \in Nat
    BY <1>2, <1>3, TotalType DEF TypeOK
  <2>2. taken <= Total(frames')
    BY <1>2, <1>3, <2>1 DEF TypeOK
  <2> QED BY <1>2, <1>3, <1>4, <2>2 DEF TypeOK
<1>6. \A k \in DOMAIN got : k \in DOMAIN frames
  BY <1>2 DEF Prefix, TypeOK
<1>7. Prefix'
  BY <1>2, <1>3, <1>4, <1>6 DEF Prefix, TypeOK
<1>8. InSync'
  <2>1. Len(got) # 0 => Len(got) \in DOMAIN got
    BY <1>2 DEF TypeOK
  <2>2. EndOfGot' = EndOfGot
    BY <1>3, <1>4, <1>6, <2>1 DEF EndOfGot
  <2> QED BY <1>2, <1>4, <2>2 DEF InSync
<1>9. CutInside'
  BY <1>2, <1>3, <1>4 DEF CutInside
<1> QED BY <1>3, <1>5, <1>7, <1>8, <1>9 DEF IInv, DecoderInv

LEMMA ReadInv ==
    ASSUME IInv, Read
    PROVE  IInv'
<1>1. TypeOK /\ Total(frames) \in Nat
  BY TotalType DEF IInv, TypeOK
<1>2. TypeOK'
  BY <1>1 DEF Read, TypeOK
<1>3. Layout' /\ Prefix' /\ InSync' /\ CutInside'
  BY DEF IInv, DecoderInv, Read, Layout, Prefix, InSync, CutInside, EndOfGot
<1> QED BY <1>2, <1>3 DEF IInv, DecoderInv

\* A failure leaves the reader index where CutInside wants it.
LEMMA TooShortInv ==
    ASSUME IInv, TooShort
    PROVE  IInv'
<1>1. TypeOK'
  BY DEF TooShort, Throw, IInv, TypeOK
<1>2. Layout' /\ Prefix' /\ InSync'
  BY DEF IInv, DecoderInv, TypeOK, TooShort, Throw, Layout, Prefix, InSync, EndOfGot
<1>3. CutInside'
  <2> SUFFICES ASSUME channel' = "failed" PROVE CutInside'
    BY DEF CutInside
  <2>1. channel = "open" /\ pos < taken
    BY DEF TooShort, Throw, Decoding, Readable, IInv, TypeOK
  <2> DEFINE f == frames[Len(got) + 1]
  <2>2. Len(got) + 1 \in DOMAIN frames /\ pos = f.at /\ f \in Message
    BY <2>1, NextMessage
  <2>3. taken - pos < HEAD_LENGHT /\ taken \in Nat
    BY DEF TooShort, Readable, IInv, TypeOK
  <2>4. taken < End(f)
    BY <2>2, <2>3, HeadAssumption DEF End, Message
  <2>5. frames' = frames /\ taken' = taken /\ pos' = pos /\ got' = got
    BY DEF TooShort, Throw
  <2> QED BY <2>1, <2>2, <2>3, <2>4, <2>5 DEF CutInside
<1> QED BY <1>1, <1>2, <1>3 DEF IInv, DecoderInv

\* An open channel never finds a wrong tag.
LEMMA WrongTagInv ==
    ASSUME IInv, WrongTag
    PROVE  IInv' /\ channel # "open"
<1>1. channel # "open"
  <2> SUFFICES ASSUME channel = "open" PROVE FALSE
    OBVIOUS
  <2>1. pos < taken
    BY DEF WrongTag, Decoding, Readable, IInv, TypeOK
  <2>2. Len(got) + 1 \in DOMAIN frames /\ pos = frames[Len(got) + 1].at
    BY <2>1, NextMessage
  <2>3. TagAt(pos)
    BY <2>2, LengthThere DEF IInv, DecoderInv
  <2> QED BY <2>3 DEF WrongTag
<1>2. TypeOK'
  BY HeadAssumption DEF WrongTag, Decoding, Readable, Throw, IInv, TypeOK
<1>3. Layout' /\ Prefix' /\ InSync' /\ CutInside'
  BY <1>1 DEF IInv, DecoderInv, WrongTag, Throw, Layout, Prefix, InSync, CutInside
<1> QED BY <1>1, <1>2, <1>3 DEF IInv, DecoderInv

LEMMA ShortBodyInv ==
    ASSUME IInv, ShortBody
    PROVE  IInv'
<1>1. channel = "open" /\ pos < taken
  BY NoMessageInRest DEF IInv, TypeOK, ShortBody, HeaderRead, Decoding, Readable
<1> DEFINE f == frames[Len(got) + 1]
<1>2. Len(got) + 1 \in DOMAIN frames /\ pos = f.at /\ f \in Message
  BY <1>1, NextMessage
<1>3. LengthAt(pos) = f.body
  BY <1>2, LengthThere DEF IInv, DecoderInv
<1>4. /\ frames' = frames /\ taken' = taken /\ got' = got
      /\ channel' = "failed" /\ pos' = pos + HEAD_LENGHT
  BY <1>1 DEF ShortBody, Throw
<1>5. /\ taken \in Nat /\ pos \in Nat
      /\ taken - pos >= HEAD_LENGHT
      /\ taken - pos - HEAD_LENGHT < f.body
  BY <1>3 DEF ShortBody, HeaderRead, Readable, IInv, TypeOK
<1>6. pos' <= taken /\ pos' \in Nat
  BY <1>4, <1>5, HeadAssumption
<1>7. f.at < taken /\ taken < End(f)
  BY <1>2, <1>5, HeadAssumption DEF End, Message
<1> HIDE DEF f
<1>8. TypeOK'
  BY <1>4, <1>5, <1>6 DEF IInv, TypeOK
<1>9. Layout' /\ Prefix' /\ InSync'
  BY <1>4 DEF IInv, DecoderInv, Layout, Prefix, InSync
<1>10. CutInside'
  BY <1>2, <1>4, <1>7 DEF CutInside, f
<1> QED BY <1>8, <1>9, <1>10 DEF IInv, DecoderInv

LEMMA WholeInv ==
    ASSUME IInv, Whole
    PROVE  IInv'
<1> DEFINE k == Len(got) + 1
<1>1. /\ channel = "open" /\ k \in DOMAIN frames
      /\ got' = Append(got, frames[k])
      /\ pos' = End(frames[k]) /\ pos' <= taken
  BY DecodesNext
<1>2. frames' = frames /\ taken' = taken /\ channel' = channel
  BY DEF Whole
<1>3. frames[k] \in Message /\ Len(got) \in Nat /\ Len(frames) \in Nat /\ k \in 1 .. Len(frames)
  BY <1>1 DEF IInv, TypeOK
<1>4. /\ got' \in Seq(Message)
      /\ Len(got') = k
      /\ got'[k] = frames[k]
      /\ \A i \in DOMAIN got : got'[i] = got[i]
      /\ \A i \in DOMAIN got' : i \in DOMAIN got \/ i = k
  BY <1>1, <1>3, AppendProperties DEF IInv, TypeOK
<1> HIDE DEF k
<1>5. TypeOK'
  BY <1>1, <1>2, <1>3, <1>4, EndType DEF IInv, TypeOK
<1>6. Layout' /\ CutInside'
  BY <1>1, <1>2 DEF IInv, DecoderInv, Layout, CutInside
<1>7. Prefix'
  BY <1>2, <1>3, <1>4 DEF IInv, DecoderInv, Prefix
<1>8. InSync'
  BY <1>1, <1>2, <1>3, <1>4 DEF InSync, EndOfGot
<1> QED BY <1>5, <1>6, <1>7, <1>8 DEF IInv, DecoderInv

LEMMA CloseInv ==
    ASSUME IInv, Inactive \/ Hangup
    PROVE  IInv'
<1>1. /\ frames' = frames /\ taken' = taken /\ pos' = pos /\ got' = got
      /\ channel' = "closed"
  BY DEF Inactive, Hangup
<1> QED BY <1>1 DEF IInv, DecoderInv, TypeOK, Layout, Prefix, InSync, CutInside

LEMMA NextInv ==
    ASSUME IInv, [Next]_vars
    PROVE  IInv'
<1>1. CASE Send BY <1>1, SendInv
<1>2. CASE Read BY <1>2, ReadInv
<1>3. CASE TooShort BY <1>3, TooShortInv
<1>4. CASE WrongTag BY <1>4, WrongTagInv
<1>5. CASE ShortBody BY <1>5, ShortBodyInv
<1>6. CASE Whole BY <1>6, WholeInv
<1>7. CASE Inactive \/ Hangup BY <1>7, CloseInv
<1>8. CASE UNCHANGED vars
  BY <1>8 DEF vars, IInv, DecoderInv, TypeOK, Layout, Prefix, InSync, CutInside, EndOfGot
<1> QED BY <1>1, <1>2, <1>3, <1>4, <1>5, <1>6, <1>7, <1>8 DEF Next, Decode

-----------------------------------------------------------------------------
(* The theorems. *)

\* The decoder never loses its place in the stream, whatever the reads are.
THEOREM DecoderInvariance == Spec => []DecoderInv
<1>1. IInv => DecoderInv
  BY DEF IInv
<1> QED BY <1>1, InitInv, NextInv, PTL DEF Spec

THEOREM DecoderTypes == Spec => []TypeOK
<1>1. IInv => TypeOK
  BY DEF IInv
<1> QED BY <1>1, InitInv, NextInv, PTL DEF Spec

\* No read that ends between two messages makes the decoder fail.
THEOREM FailsOnSplit == Spec => []FailsOnlyOnSplit
<1>1. IInv => FailsOnlyOnSplit
  <2> SUFFICES ASSUME IInv, channel = "failed", taken \in Boundaries
               PROVE  FALSE
    BY DEF FailsOnlyOnSplit
  <2> DEFINE k == Len(got) + 1
  <2>1. /\ k \in DOMAIN frames /\ frames[k] \in Message
        /\ frames[k].at < taken /\ taken < End(frames[k])
        /\ taken \in Nat
    BY DEF IInv, DecoderInv, CutInside, TypeOK
  <2>2. taken # 0
    BY <2>1 DEF Message
  <2>3. PICK j \in DOMAIN frames : taken = End(frames[j])
    BY <2>2 DEF Boundaries
  <2>4. frames[j] \in Message /\ j \in Nat \ {0} /\ k \in Nat \ {0}
    BY <2>1 DEF IInv, TypeOK
  <2> HIDE DEF k
  <2>5. CASE j = k
    BY <2>1, <2>3, <2>5
  <2>6. CASE j < k
    <3>1. End(frames[j]) <= frames[k].at
      BY <2>1, <2>4, <2>6 DEF IInv, DecoderInv, Layout
    <3> QED BY <2>1, <2>3, <3>1 DEF Message
  <2>7. CASE k < j
    <3>1. End(frames[k]) <= frames[j].at
      BY <2>1, <2>4, <2>7 DEF IInv, DecoderInv, Layout
    <3>2. frames[j].at <= End(frames[j]) /\ frames[j].at \in Nat /\ End(frames[k]) \in Nat
      BY <2>1, <2>4, EndType, HeadAssumption DEF Message
    <3> QED BY <2>1, <2>3, <3>1, <3>2
  <2> QED BY <2>4, <2>5, <2>6, <2>7
<1> QED BY <1>1, InitInv, NextInv, PTL DEF Spec

-----------------------------------------------------------------------------
(* MessageDecoder implements MessageStream. *)

LEMMA StreamStep ==
    ASSUME IInv, [Next]_vars
    PROVE  [Stream!Next]_<<frames, got, channel # "open">>
<1>1. CASE Send
  <2>1. PICK b \in Bodies : Encode(b)
    BY <1>1 DEF Send
  <2>2. /\ frames' \in Seq(Message) /\ Len(frames') = Len(frames) + 1
        /\ \A k \in DOMAIN frames : frames'[k] = frames[k]
    BY <2>1, LayoutSend, BodyAssumption DEF IInv, DecoderInv
  <2>3. \A k \in 1 .. Len(frames) : k \in DOMAIN frames
    BY DEF IInv, TypeOK
  <2>4. got' = got /\ channel' = channel
    BY <1>1 DEF Send
  <2> QED BY <2>2, <2>3, <2>4 DEF Stream!Next, Stream!Send
<1>2. CASE Whole
  <2>1. /\ channel = "open" /\ Len(got) + 1 \in DOMAIN frames
        /\ got' = Append(got, frames[Len(got) + 1])
    BY <1>2, DecodesNext
  <2>2. Len(got) < Len(frames)
    BY <2>1 DEF IInv, TypeOK
  <2>3. frames' = frames /\ channel' = channel
    BY <1>2 DEF Whole
  <2> QED BY <2>1, <2>2, <2>3 DEF Stream!Next, Stream!Arrive
<1>3. CASE Read \/ TooShort \/ WrongTag \/ ShortBody \/ Inactive \/ Hangup
  <2>1. frames' = frames /\ got' = got
    BY <1>3 DEF Read, TooShort, WrongTag, ShortBody, Throw, Inactive, Hangup
  <2>2. channel # "open" => channel' # "open"
    BY <1>3 DEF Read, TooShort, WrongTag, ShortBody, Throw, Inactive, Hangup
  <2> QED BY <2>1, <2>2 DEF Stream!Next, Stream!Break
<1>4. CASE UNCHANGED vars
  BY <1>4 DEF vars
<1> QED BY <1>1, <1>2, <1>3, <1>4 DEF Next, Decode

\* Whatever the reads are, messages arrive whole, in order and once, until
\* the channel is given up; then none arrives.
THEOREM StreamImplemented == Spec => ImplementsStream
<1>1. Init => Stream!Init
  BY DEF Init, Stream!Init
<1>2. Spec => []IInv
  BY InitInv, NextInv, PTL DEF Spec
<1> QED BY <1>1, <1>2, StreamStep, PTL DEF Spec, ImplementsStream, Stream!Spec
=============================================================================
