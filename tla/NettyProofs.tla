----------------------------- MODULE NettyProofs -----------------------------
(***************************************************************************)
(* Theorems about three of the programs of MCNetty: the exchange of        *)
(* echo-client2 and echo-server2, the subscription service and the http    *)
(* servers, for every value of their constants.                            *)
(***************************************************************************)
EXTENDS MCNetty, SequenceTheorems, FiniteSetTheorems, TLAPS

-----------------------------------------------------------------------------
(* EchoMessage: each of its directions is a MessageDecoder, with one message *)
(* at most, and the lemmas about that module hold of both.                   *)

UpP == INSTANCE MessageDecoderProofs WITH
           frames <- upFrames, taken <- upTaken, pos <- upPos, got <- upGot,
           channel <- server, Bodies <- {Request}, MaxMessages <- 1

DownP == INSTANCE MessageDecoderProofs WITH
             frames <- downFrames, taken <- downTaken, pos <- downPos,
             got <- downGot, channel <- client, Bodies <- {Reply}, MaxMessages <- 1

\* Both directions keep the invariant of MessageDecoder, and nothing is on its
\* way to the client before the request is in the server's hands.
ExchangeInv ==
    /\ UpP!IInv /\ DownP!IInv
    /\ Len(upFrames) <= 1 /\ Len(downFrames) <= 1
    /\ downFrames # <<>> => Len(upGot) = 1

LEMMA TextTypes == Request \in Nat /\ Reply \in Nat
BY ProgramsAssumption DEF Echo!TextAssumption

LEMMA UpInit == UpP!Init => UpP!IInv
BY TextTypes, UpP!InitInv, UpP!BodyAssumption, UpP!HeadAssumption, HeadAssumption

LEMMA DownInit == DownP!Init => DownP!IInv
BY TextTypes, DownP!InitInv, DownP!BodyAssumption, DownP!HeadAssumption, HeadAssumption

LEMMA UpNext ==
    ASSUME UpP!IInv, [UpP!Next]_(UpP!vars)
    PROVE  UpP!IInv'
BY TextTypes, UpP!NextInv, UpP!BodyAssumption, UpP!HeadAssumption, HeadAssumption

LEMMA DownNext ==
    ASSUME DownP!IInv, [DownP!Next]_(DownP!vars)
    PROVE  DownP!IInv'
BY TextTypes, DownP!NextInv, DownP!BodyAssumption, DownP!HeadAssumption, HeadAssumption

\* Decoding a message passes on one more.
LEMMA UpWhole ==
    ASSUME UpP!IInv, UpP!Whole
    PROVE  upFrames' = upFrames /\ Len(upGot') = Len(upGot) + 1
<1>1. upGot \in Seq(UpP!Message)
  BY DEF UpP!IInv, UpP!TypeOK
<1>2. upFrames' = upFrames /\ \E m : upGot' = Append(upGot, m)
  BY DEF UpP!Whole, UpP!Passed
<1> QED BY <1>1, <1>2

\* The actions of EchoMessage in one direction are those of that decoder.
LEMMA UpIsDecoder ==
    /\ Echo!Up!Init <=> UpP!Init
    /\ Echo!Up!Send <=> UpP!Send
    /\ Echo!Up!Read <=> UpP!Read
    /\ Echo!Up!TooShort <=> UpP!TooShort
    /\ Echo!Up!WrongTag <=> UpP!WrongTag
    /\ Echo!Up!ShortBody <=> UpP!ShortBody
    /\ Echo!Up!Whole <=> UpP!Whole
    /\ Echo!Up!Inactive <=> UpP!Inactive
    /\ Echo!Up!Hangup <=> UpP!Hangup
<1>1. Echo!Up!Init <=> UpP!Init
  BY DEF Echo!Up!Init, UpP!Init
<1>2. Echo!Up!Send <=> UpP!Send
  BY DEF Echo!Up!Send, Echo!Up!Encode, Echo!Up!Total, Echo!Up!End, UpP!Send, UpP!Encode,
      UpP!Total, UpP!End
<1>3. Echo!Up!Read <=> UpP!Read
  BY DEF Echo!Up!Read, Echo!Up!Total, Echo!Up!End, UpP!Read, UpP!Total, UpP!End
<1>4. Echo!Up!TooShort <=> UpP!TooShort
  BY DEF Echo!Up!TooShort, Echo!Up!Decoding, Echo!Up!Readable, Echo!Up!Throw,
      UpP!TooShort, UpP!Decoding, UpP!Readable, UpP!Throw
<1>5. Echo!Up!WrongTag <=> UpP!WrongTag
  BY DEF Echo!Up!WrongTag, Echo!Up!Decoding, Echo!Up!Readable, Echo!Up!TagAt,
      Echo!Up!Throw, UpP!WrongTag, UpP!Decoding, UpP!Readable, UpP!TagAt, UpP!Throw
<1>6. Echo!Up!ShortBody <=> UpP!ShortBody
  BY DEF Echo!Up!ShortBody, Echo!Up!HeaderRead, Echo!Up!Decoding, Echo!Up!Readable,
      Echo!Up!TagAt, Echo!Up!LengthAt, Echo!Up!Throw, UpP!ShortBody, UpP!HeaderRead,
      UpP!Decoding, UpP!Readable, UpP!TagAt, UpP!LengthAt, UpP!Throw
<1>7. Echo!Up!Whole <=> UpP!Whole
  BY DEF Echo!Up!Whole, Echo!Up!HeaderRead, Echo!Up!Decoding, Echo!Up!Readable,
      Echo!Up!TagAt, Echo!Up!LengthAt, Echo!Up!Passed, UpP!Whole, UpP!HeaderRead,
      UpP!Decoding, UpP!Readable, UpP!TagAt, UpP!LengthAt, UpP!Passed
<1>8. Echo!Up!Inactive <=> UpP!Inactive
  BY DEF Echo!Up!Inactive, Echo!Up!Readable, UpP!Inactive, UpP!Readable
<1>9. Echo!Up!Hangup <=> UpP!Hangup
  BY DEF Echo!Up!Hangup, UpP!Hangup
<1> QED BY <1>1, <1>2, <1>3, <1>4, <1>5, <1>6, <1>7, <1>8, <1>9

LEMMA DownIsDecoder ==
    /\ Echo!Down!Init <=> DownP!Init
    /\ Echo!Down!Send <=> DownP!Send
    /\ Echo!Down!Read <=> DownP!Read
    /\ Echo!Down!TooShort <=> DownP!TooShort
    /\ Echo!Down!WrongTag <=> DownP!WrongTag
    /\ Echo!Down!ShortBody <=> DownP!ShortBody
    /\ Echo!Down!Whole <=> DownP!Whole
    /\ Echo!Down!Inactive <=> DownP!Inactive
    /\ Echo!Down!Hangup <=> DownP!Hangup
<1>1. Echo!Down!Init <=> DownP!Init
  BY DEF Echo!Down!Init, DownP!Init
<1>2. Echo!Down!Send <=> DownP!Send
  BY DEF Echo!Down!Send, Echo!Down!Encode, Echo!Down!Total, Echo!Down!End, DownP!Send,
      DownP!Encode, DownP!Total, DownP!End
<1>3. Echo!Down!Read <=> DownP!Read
  BY DEF Echo!Down!Read, Echo!Down!Total, Echo!Down!End, DownP!Read, DownP!Total,
      DownP!End
<1>4. Echo!Down!TooShort <=> DownP!TooShort
  BY DEF Echo!Down!TooShort, Echo!Down!Decoding, Echo!Down!Readable, Echo!Down!Throw,
      DownP!TooShort, DownP!Decoding, DownP!Readable, DownP!Throw
<1>5. Echo!Down!WrongTag <=> DownP!WrongTag
  BY DEF Echo!Down!WrongTag, Echo!Down!Decoding, Echo!Down!Readable, Echo!Down!TagAt,
      Echo!Down!Throw, DownP!WrongTag, DownP!Decoding, DownP!Readable, DownP!TagAt,
      DownP!Throw
<1>6. Echo!Down!ShortBody <=> DownP!ShortBody
  BY DEF Echo!Down!ShortBody, Echo!Down!HeaderRead, Echo!Down!Decoding,
      Echo!Down!Readable, Echo!Down!TagAt, Echo!Down!LengthAt, Echo!Down!Throw,
      DownP!ShortBody, DownP!HeaderRead, DownP!Decoding, DownP!Readable, DownP!TagAt,
      DownP!LengthAt, DownP!Throw
<1>7. Echo!Down!Whole <=> DownP!Whole
  BY DEF Echo!Down!Whole, Echo!Down!HeaderRead, Echo!Down!Decoding, Echo!Down!Readable,
      Echo!Down!TagAt, Echo!Down!LengthAt, Echo!Down!Passed, DownP!Whole,
      DownP!HeaderRead, DownP!Decoding, DownP!Readable, DownP!TagAt, DownP!LengthAt,
      DownP!Passed
<1>8. Echo!Down!Inactive <=> DownP!Inactive
  BY DEF Echo!Down!Inactive, Echo!Down!Readable, DownP!Inactive, DownP!Readable
<1>9. Echo!Down!Hangup <=> DownP!Hangup
  BY DEF Echo!Down!Hangup, DownP!Hangup
<1> QED BY <1>1, <1>2, <1>3, <1>4, <1>5, <1>6, <1>7, <1>8, <1>9

\* A step of EchoMessage is one of each direction, or none.
LEMMA Directions ==
    ASSUME Echo!Next
    PROVE  [UpP!Next]_(UpP!vars) /\ [DownP!Next]_(DownP!vars)
<1> USE UpIsDecoder, DownIsDecoder DEF Echo!up, Echo!down, UpP!vars, DownP!vars,
    UpP!Next, UpP!Decode, DownP!Next, DownP!Decode
<1>1. CASE Echo!ChannelActive BY <1>1 DEF Echo!ChannelActive
<1>2. CASE Echo!ClientRead BY <1>2 DEF Echo!ClientRead
<1>3. CASE Echo!ClientReceives BY <1>3 DEF Echo!ClientReceives
<1>4. CASE Echo!ClientFails BY <1>4 DEF Echo!ClientFails
<1>5. CASE Echo!ClientInactive BY <1>5 DEF Echo!ClientInactive
<1>6. CASE Echo!ClientHangup BY <1>6 DEF Echo!ClientHangup
<1>7. CASE Echo!ServerRead BY <1>7 DEF Echo!ServerRead
<1>8. CASE Echo!ServerReceives BY <1>8 DEF Echo!ServerReceives
<1>9. CASE Echo!ServerFails BY <1>9 DEF Echo!ServerFails
<1>10. CASE Echo!ServerInactive BY <1>10 DEF Echo!ServerInactive
<1>11. CASE Echo!ServerHangup BY <1>11 DEF Echo!ServerHangup
<1> QED BY <1>1, <1>2, <1>3, <1>4, <1>5, <1>6, <1>7, <1>8, <1>9, <1>10, <1>11
    DEF Echo!Next, Echo!ClientStep, Echo!ServerStep

LEMMA ExchangeInit == Echo!Init => ExchangeInv
<1> SUFFICES ASSUME Echo!Init PROVE ExchangeInv
  OBVIOUS
<1>1. UpP!Init /\ DownP!Init
  BY UpIsDecoder, DownIsDecoder DEF Echo!Init
<1>2. upFrames = <<>> /\ downFrames = <<>>
  BY <1>1 DEF UpP!Init, DownP!Init
<1> QED BY <1>1, <1>2, UpInit, DownInit DEF ExchangeInv

\* Only ChannelActive sends up, and only ServerReceives down.
LEMMA FramesKept ==
    ASSUME Echo!Next
    PROVE  /\ upFrames' = upFrames \/ (UpP!Send /\ UNCHANGED Echo!down)
           /\ downFrames' = downFrames \/ (DownP!Send /\ UpP!Whole)
<1> USE UpIsDecoder, DownIsDecoder DEF Echo!up, Echo!down
<1>1. CASE Echo!ChannelActive BY <1>1 DEF Echo!ChannelActive
<1>2. CASE Echo!ClientRead BY <1>2 DEF Echo!ClientRead, DownP!Read
<1>3. CASE Echo!ClientReceives BY <1>3 DEF Echo!ClientReceives, DownP!Whole
<1>4. CASE Echo!ClientFails
  BY <1>4 DEF Echo!ClientFails, DownP!TooShort, DownP!WrongTag, DownP!ShortBody, DownP!Throw
<1>5. CASE Echo!ClientInactive BY <1>5 DEF Echo!ClientInactive, DownP!Inactive
<1>6. CASE Echo!ClientHangup BY <1>6 DEF Echo!ClientHangup, DownP!Hangup
<1>7. CASE Echo!ServerRead BY <1>7 DEF Echo!ServerRead, UpP!Read
<1>8. CASE Echo!ServerReceives BY <1>8 DEF Echo!ServerReceives, UpP!Whole
<1>9. CASE Echo!ServerFails
  BY <1>9 DEF Echo!ServerFails, UpP!TooShort, UpP!WrongTag, UpP!ShortBody, UpP!Throw
<1>10. CASE Echo!ServerInactive BY <1>10 DEF Echo!ServerInactive, UpP!Inactive
<1>11. CASE Echo!ServerHangup BY <1>11 DEF Echo!ServerHangup, UpP!Hangup
<1> QED BY <1>1, <1>2, <1>3, <1>4, <1>5, <1>6, <1>7, <1>8, <1>9, <1>10, <1>11
    DEF Echo!Next, Echo!ClientStep, Echo!ServerStep

\* Neither direction forgets what it has passed on.
LEMMA GotGrows ==
    ASSUME UpP!IInv, [UpP!Next]_(UpP!vars)
    PROVE  Len(upGot) <= Len(upGot')
<1>1. upGot \in Seq(UpP!Message)
  BY DEF UpP!IInv, UpP!TypeOK
<1>2. CASE UpP!Whole
  BY <1>1, <1>2, UpWhole
<1>3. CASE upGot' = upGot
  BY <1>1, <1>3
<1> QED BY <1>2, <1>3 DEF UpP!Next, UpP!Decode, UpP!vars, UpP!Send, UpP!Read, UpP!TooShort,
    UpP!WrongTag, UpP!ShortBody, UpP!Throw, UpP!Inactive, UpP!Hangup

LEMMA ExchangeNext ==
    ASSUME ExchangeInv, [Echo!Next]_(Echo!vars)
    PROVE  ExchangeInv'
<1>1. CASE UNCHANGED Echo!vars
  <2>1. [UpP!Next]_(UpP!vars) /\ [DownP!Next]_(DownP!vars)
    BY <1>1 DEF Echo!vars, Echo!up, Echo!down, UpP!vars, DownP!vars
  <2>2. upFrames' = upFrames /\ downFrames' = downFrames /\ upGot' = upGot
    BY <1>1 DEF Echo!vars, Echo!up, Echo!down
  <2> QED BY <2>1, <2>2, UpNext, DownNext DEF ExchangeInv
<1>2. CASE Echo!Next
  <2>1. UpP!IInv' /\ DownP!IInv'
    BY <1>2, Directions, UpNext, DownNext DEF ExchangeInv
  <2>2. /\ upFrames \in Seq(UpP!Message) /\ downFrames \in Seq(DownP!Message)
        /\ upFrames' \in Seq(UpP!Message) /\ downFrames' \in Seq(DownP!Message)
        /\ upGot \in Seq(UpP!Message) /\ upGot' \in Seq(UpP!Message)
        /\ Len(upGot') <= Len(upFrames')
    BY <2>1 DEF ExchangeInv, UpP!IInv, DownP!IInv, UpP!TypeOK, DownP!TypeOK,
        UpP!DecoderInv, UpP!Prefix
  <2>3. Len(upFrames') <= 1
    <3>1. CASE UpP!Send
      <4>1. Len(upFrames) < 1 /\ \E m : upFrames' = Append(upFrames, m)
        BY <3>1 DEF UpP!Send, UpP!Encode
      <4> QED BY <2>2, <4>1
    <3> QED BY <1>2, <3>1, FramesKept DEF ExchangeInv
  <2>4. Len(downFrames') <= 1
    <3>1. CASE DownP!Send
      <4>1. Len(downFrames) < 1 /\ \E m : downFrames' = Append(downFrames, m)
        BY <3>1 DEF DownP!Send, DownP!Encode
      <4> QED BY <2>2, <4>1
    <3> QED BY <1>2, <3>1, FramesKept DEF ExchangeInv
  <2>5. Len(upGot) <= Len(upGot')
    BY <1>2, Directions, GotGrows DEF ExchangeInv
  <2>6. downFrames' # <<>> => Len(upGot') = 1
    <3>1. CASE downFrames' = downFrames
      BY <2>2, <2>3, <2>5, <3>1 DEF ExchangeInv
    <3>2. CASE UpP!Whole
      BY <2>2, <2>3, <3>2, UpWhole DEF ExchangeInv
    <3> QED BY <1>2, <3>1, <3>2, FramesKept
  <2> QED BY <2>1, <2>3, <2>4, <2>6 DEF ExchangeInv
<1> QED BY <1>1, <1>2

\* A reply that the client has decoded is the whole reply, and the server had
\* decoded the whole request before it wrote that: however both were cut.
THEOREM ReplyIsServed == Echo!Spec => []ReplyMeansServed
<1>1. ExchangeInv => ReplyMeansServed
  <2> SUFFICES ASSUME ExchangeInv, downGot # <<>>
               PROVE  upGot = upFrames /\ Len(upGot) = 1 /\ downGot = downFrames
    BY DEF ReplyMeansServed, Echo!ReplyMeansServed
  <2>1. /\ upFrames \in Seq(UpP!Message) /\ downFrames \in Seq(DownP!Message)
        /\ upGot \in Seq(UpP!Message) /\ downGot \in Seq(DownP!Message)
        /\ Len(upGot) <= Len(upFrames) /\ Len(downGot) <= Len(downFrames)
        /\ \A k \in DOMAIN upGot : upGot[k] = upFrames[k]
        /\ \A k \in DOMAIN downGot : downGot[k] = downFrames[k]
        /\ Len(upFrames) <= 1 /\ Len(downFrames) <= 1
    BY DEF ExchangeInv, UpP!IInv, DownP!IInv, UpP!TypeOK, DownP!TypeOK,
        UpP!DecoderInv, DownP!DecoderInv, UpP!Prefix, DownP!Prefix
  <2>2. Len(downGot) = 1 /\ Len(downFrames) = 1
    <3>1. Len(downGot) # 0
      BY <2>1, EmptySeq
    <3>2. Len(downGot) \in Nat /\ Len(downFrames) \in Nat
      BY <2>1
    <3>3. Len(downGot) <= Len(downFrames) /\ Len(downFrames) <= 1
      BY <2>1
    <3> DEFINE a == Len(downGot)  b == Len(downFrames)
    <3>4. a \in Nat /\ b \in Nat /\ a # 0 /\ a <= b /\ b <= 1
      BY <3>1, <3>2, <3>3
    <3> HIDE DEF a, b
    <3>5. a = 1 /\ b = 1
      BY <3>4
    <3> QED BY <3>5 DEF a, b
  <2>3. Len(upGot) = 1 /\ Len(upFrames) = 1
    BY <2>1, <2>2 DEF ExchangeInv
  <2>4. downGot = downFrames
    BY <2>1, <2>2
  <2>5. upGot = upFrames
    BY <2>1, <2>3
  <2> QED BY <2>3, <2>4, <2>5
<1> QED BY <1>1, ExchangeInit, ExchangeNext, PTL DEF Echo!Spec

-----------------------------------------------------------------------------
(* Facts about sequences: a message that moves from the head of one queue to *)
(* the end of the one before it leaves what they hold together as it was.    *)

LEMMA AppendConcat ==
    ASSUME NEW S, NEW a \in Seq(S), NEW b \in Seq(S), NEW x \in S
    PROVE  a \o Append(b, x) = Append(a \o b, x)
<1> DEFINE s == a \o Append(b, x)  t == Append(a \o b, x)
<1>1. /\ Append(b, x) \in Seq(S) /\ Len(Append(b, x)) = Len(b) + 1
      /\ \A i \in 1 .. Len(b) : Append(b, x)[i] = b[i]
      /\ Append(b, x)[Len(b) + 1] = x
  BY AppendProperties
<1>2. /\ a \o b \in Seq(S) /\ Len(a \o b) = Len(a) + Len(b)
      /\ \A i \in 1 .. Len(a) + Len(b) :
             (a \o b)[i] = IF i <= Len(a) THEN a[i] ELSE b[i - Len(a)]
  BY ConcatProperties
<1>3. /\ s \in Seq(S) /\ Len(s) = Len(a) + Len(b) + 1
      /\ \A i \in 1 .. Len(a) + Len(b) + 1 :
             s[i] = IF i <= Len(a) THEN a[i] ELSE Append(b, x)[i - Len(a)]
  BY <1>1, ConcatProperties
<1>4. /\ t \in Seq(S) /\ Len(t) = Len(a) + Len(b) + 1
      /\ \A i \in 1 .. Len(a) + Len(b) : t[i] = (a \o b)[i]
      /\ t[Len(a) + Len(b) + 1] = x
  BY <1>2, AppendProperties
<1>5. ASSUME NEW i \in 1 .. Len(s)
      PROVE  s[i] = t[i]
  <2>1. /\ Len(a) \in Nat /\ Len(b) \in Nat
        /\ i \in Nat /\ i >= 1 /\ i <= Len(a) + Len(b) + 1
    BY <1>3
  <2> HIDE DEF s, t
  <2>2. CASE i <= Len(a)
    <3>1. s[i] = a[i]
      BY <1>3, <2>1, <2>2
    <3>2. t[i] = (a \o b)[i] /\ (a \o b)[i] = a[i]
      BY <1>2, <1>4, <2>1, <2>2
    <3> QED BY <3>1, <3>2
  <2>3. CASE Len(a) < i /\ i <= Len(a) + Len(b)
    BY <1>1, <1>2, <1>3, <1>4, <2>1, <2>3
  <2>4. CASE i = Len(a) + Len(b) + 1
    BY <1>1, <1>3, <1>4, <2>1, <2>4
  <2> QED BY <2>1, <2>2, <2>3, <2>4
<1> HIDE DEF s, t
<1>6. s = t
  BY <1>3, <1>4, <1>5, SeqEqual
<1> QED BY <1>6 DEF s, t

LEMMA HeadMoves ==
    ASSUME NEW S, NEW a \in Seq(S), NEW b \in Seq(S), b # <<>>
    PROVE  Append(a, Head(b)) \o Tail(b) = a \o b
<1> DEFINE s == Append(a, Head(b)) \o Tail(b)  t == a \o b
<1>1. /\ Head(b) \in S /\ Head(b) = b[1] /\ Tail(b) \in Seq(S)
      /\ Len(b) \in Nat \ {0} /\ Len(Tail(b)) = Len(b) - 1
      /\ \A i \in 1 .. Len(Tail(b)) : Tail(b)[i] = b[i + 1]
  BY HeadTailProperties, EmptySeq
<1>2. /\ Append(a, Head(b)) \in Seq(S) /\ Len(Append(a, Head(b))) = Len(a) + 1
      /\ \A i \in 1 .. Len(a) : Append(a, Head(b))[i] = a[i]
      /\ Append(a, Head(b))[Len(a) + 1] = b[1]
  BY <1>1, AppendProperties
<1>3. /\ s \in Seq(S) /\ Len(s) = Len(a) + Len(b)
      /\ \A i \in 1 .. Len(a) + Len(b) :
             s[i] = IF i <= Len(a) + 1 THEN Append(a, Head(b))[i]
                                       ELSE Tail(b)[i - (Len(a) + 1)]
  BY <1>1, <1>2, ConcatProperties
<1>4. /\ t \in Seq(S) /\ Len(t) = Len(a) + Len(b)
      /\ \A i \in 1 .. Len(a) + Len(b) : t[i] = IF i <= Len(a) THEN a[i] ELSE b[i - Len(a)]
  BY ConcatProperties
<1>5. ASSUME NEW i \in 1 .. Len(s)
      PROVE  s[i] = t[i]
  <2>1. Len(a) \in Nat /\ i \in Nat /\ i >= 1 /\ i <= Len(a) + Len(b)
    BY <1>3
  <2> HIDE DEF s, t
  <2>2. CASE i <= Len(a)
    BY <1>1, <1>2, <1>3, <1>4, <2>1, <2>2
  <2>3. CASE i = Len(a) + 1
    BY SMTT(30), <1>1, <1>2, <1>3, <1>4, <2>1, <2>3
  <2>4. CASE i > Len(a) + 1
    <3>1. i - (Len(a) + 1) \in 1 .. Len(Tail(b)) /\ i - (Len(a) + 1) + 1 = i - Len(a)
      BY <1>1, <2>1, <2>4
    <3>2. s[i] = Tail(b)[i - (Len(a) + 1)] /\ t[i] = b[i - Len(a)]
      BY <1>1, <1>3, <1>4, <2>1, <2>4
    <3> QED BY <1>1, <3>1, <3>2
  <2> QED BY <2>1, <2>2, <2>3, <2>4
<1> HIDE DEF s, t
<1>6. s = t
  BY <1>3, <1>4, <1>5, SeqEqual
<1> QED BY <1>6 DEF s, t

LEMMA TailConcat ==
    ASSUME NEW S, NEW a \in Seq(S), NEW b \in Seq(S), a # <<>>
    PROVE  a \o b # <<>> /\ Head(a \o b) = Head(a) /\ Tail(a \o b) = Tail(a) \o b
<1> DEFINE t == a \o b
<1>1. /\ Head(a) = a[1] /\ Tail(a) \in Seq(S)
      /\ Len(a) \in Nat \ {0} /\ Len(Tail(a)) = Len(a) - 1
      /\ \A i \in 1 .. Len(Tail(a)) : Tail(a)[i] = a[i + 1]
  BY HeadTailProperties, EmptySeq
<1>2. /\ t \in Seq(S) /\ Len(t) = Len(a) + Len(b) /\ Len(b) \in Nat
      /\ \A i \in 1 .. Len(a) + Len(b) : t[i] = IF i <= Len(a) THEN a[i] ELSE b[i - Len(a)]
  BY ConcatProperties
<1> HIDE DEF t
<1>3. t # <<>> /\ t[1] = a[1]
  BY <1>1, <1>2
<1>4. Head(t) = t[1] /\ Tail(t) \in Seq(S) /\ Len(Tail(t)) = Len(t) - 1
      /\ \A i \in 1 .. Len(Tail(t)) : Tail(t)[i] = t[i + 1]
  BY <1>2, <1>3, HeadTailProperties
<1> DEFINE s == Tail(a) \o b
<1>5. /\ s \in Seq(S) /\ Len(s) = Len(a) - 1 + Len(b)
      /\ \A i \in 1 .. Len(a) - 1 + Len(b) :
             s[i] = IF i <= Len(a) - 1 THEN Tail(a)[i] ELSE b[i - (Len(a) - 1)]
  BY <1>1, ConcatProperties
<1> HIDE DEF s
<1>6. ASSUME NEW i \in 1 .. Len(s)
      PROVE  s[i] = Tail(t)[i]
  <2>1. i \in Nat /\ i >= 1 /\ i <= Len(a) - 1 + Len(b)
    BY <1>1, <1>2, <1>5
  <2>2. Tail(t)[i] = t[i + 1] /\ i + 1 \in 1 .. Len(a) + Len(b)
    BY <1>1, <1>2, <1>4, <2>1
  <2>3. CASE i <= Len(a) - 1
    BY <1>1, <1>2, <1>5, <2>1, <2>2, <2>3
  <2>4. CASE i > Len(a) - 1
    <3>1. i - (Len(a) - 1) = i + 1 - Len(a) /\ ~(i + 1 <= Len(a))
      BY <1>1, <2>1, <2>4
    <3> QED BY SMTT(30), <1>1, <1>2, <1>5, <2>1, <2>2, <2>4, <3>1
  <2>5. Len(a) \in Nat
    BY <1>1
  <2>6. i <= Len(a) - 1 \/ i > Len(a) - 1
    BY <2>1, <2>5
  <2> QED BY <2>3, <2>4, <2>6
<1>7. s = Tail(t)
  BY <1>1, <1>2, <1>4, <1>5, <1>6, SeqEqual
<1> QED BY <1>1, <1>3, <1>4, <1>7 DEF s, t

-----------------------------------------------------------------------------
(* Subscribe. *)

LEMMA OrderTypes == Orders \in Nat /\ Beat \notin 0 .. Orders - 1
BY ProgramsAssumption DEF Sub!SubscribeAssumption, Sub!Ids

\* The messages of either direction.
AnyIds == 0 .. Orders - 1 \cup {Beat}

\* The orders lie in their order before the first of them is written.
LEMMA AllInTurn ==
    Sub!InTurn(<<>>, Sub!AllOrders) /\ Sub!AllOrders \in Seq(AnyIds)
<1>1. /\ Sub!AllOrders = [i \in 1 .. Orders |-> i - 1]
      /\ Orders \in Nat /\ Beat \notin 0 .. Orders - 1
  BY OrderTypes DEF Sub!AllOrders
<1> DEFINE o == Sub!AllOrders
<1>2. /\ DOMAIN o = 1 .. Orders /\ \A i \in 1 .. Orders : o[i] = i - 1
      /\ o \in Seq(AnyIds)
  BY <1>1 DEF AnyIds
<1> HIDE DEF o
<1>3. {o[i] : i \in DOMAIN o} = 0 .. Orders - 1
  <2>1. ASSUME NEW n \in 0 .. Orders - 1
        PROVE  n \in {o[i] : i \in DOMAIN o}
    <3>1. n + 1 \in 1 .. Orders /\ n + 1 - 1 = n
      BY <1>1
    <3>2. n + 1 \in DOMAIN o /\ o[n + 1] = n
      BY <1>2, <3>1
    <3> QED BY <3>2
  <2>2. ASSUME NEW i \in DOMAIN o
        PROVE  o[i] \in 0 .. Orders - 1
    BY <1>1, <1>2
  <2> QED BY <2>1, <2>2
<1>4. {o[i] : i \in DOMAIN o} \ {Beat} = 0 .. Orders - 1
  BY <1>1, <1>3
<1>5. \A i, j \in DOMAIN o : i < j => o[i] < o[j]
  BY <1>1, <1>2
<1>6. Len(<<>>) = 0 /\ DOMAIN <<>> = {}
  OBVIOUS
<1>7. Sub!InTurn(<<>>, o)
  BY <1>1, <1>4, <1>5, <1>6 DEF Sub!InTurn
<1> QED BY <1>2, <1>7 DEF o

\* A heartbeat changes nothing about the orders.
LEMMA BeatInTurn ==
    ASSUME NEW done, NEW coming \in Seq(AnyIds), Sub!InTurn(done, coming)
    PROVE  Sub!InTurn(done, Append(coming, Beat))
<1> DEFINE t == Append(coming, Beat)
<1>1. /\ t \in Seq(AnyIds) /\ Len(t) = Len(coming) + 1 /\ Len(coming) \in Nat
      /\ \A i \in 1 .. Len(coming) : t[i] = coming[i]
      /\ t[Len(coming) + 1] = Beat
  BY AppendProperties DEF AnyIds
<1> HIDE DEF t
<1>2. /\ DOMAIN t = 1 .. Len(coming) + 1 /\ DOMAIN coming = 1 .. Len(coming)
      /\ \A i \in DOMAIN t : i \in DOMAIN coming \/ t[i] = Beat
      /\ \A i \in DOMAIN coming : i \in DOMAIN t /\ t[i] = coming[i]
  BY <1>1
<1>3. {t[i] : i \in DOMAIN t} \ {Beat} = {coming[i] : i \in DOMAIN coming} \ {Beat}
  BY <1>2
<1>4. ASSUME NEW i \in DOMAIN t, NEW j \in DOMAIN t, i < j, t[i] # Beat, t[j] # Beat
      PROVE  t[i] < t[j]
  <2>1. i \in DOMAIN coming /\ j \in DOMAIN coming
    BY <1>2, <1>4
  <2> QED BY <1>2, <1>4, <2>1 DEF Sub!InTurn, Sub!IsOrder
<1>5. Sub!InTurn(done, t)
  BY <1>3, <1>4 DEF Sub!InTurn, Sub!IsOrder
<1> QED BY <1>5 DEF t

\* The next message is a heartbeat or the order whose turn it is.
LEMMA NextInTurn ==
    ASSUME NEW done \in Seq(0 .. Orders - 1), NEW coming \in Seq(AnyIds), coming # <<>>,
           Sub!InTurn(done, coming)
    PROVE  IF Head(coming) = Beat THEN Sub!InTurn(done, Tail(coming))
           ELSE /\ Sub!InTurn(Append(done, Head(coming)), Tail(coming))
                /\ Append(done, Head(coming)) \in Seq(0 .. Orders - 1)
<1> DEFINE h == Head(coming)  t == Tail(coming)  r == Len(done)
<1>1. /\ h = coming[1] /\ t \in Seq(AnyIds) /\ Len(t) = Len(coming) - 1
      /\ Len(coming) \in Nat \ {0}
      /\ \A i \in 1 .. Len(t) : t[i] = coming[i + 1]
  BY HeadTailProperties, EmptySeq
<1>2. /\ r \in Nat /\ r <= Orders /\ \A i \in DOMAIN done : done[i] = i - 1
      /\ DOMAIN done = 1 .. r
      /\ {coming[i] : i \in DOMAIN coming} \ {Beat} = r .. Orders - 1
      /\ \A i, j \in DOMAIN coming :
             i < j /\ coming[i] # Beat /\ coming[j] # Beat => coming[i] < coming[j]
  BY DEF Sub!InTurn, Sub!IsOrder
<1>3. Orders \in Nat /\ Beat \notin 0 .. Orders - 1
  BY OrderTypes
<1>4. DOMAIN coming = 1 .. Len(coming) /\ DOMAIN t = 1 .. Len(t)
  BY <1>1
<1> HIDE DEF h, t, r
<1>5. \A i \in DOMAIN t : i \in Nat /\ i + 1 \in DOMAIN coming /\ t[i] = coming[i + 1]
  BY <1>1, <1>4
<1>6. \A i \in DOMAIN coming : i = 1 \/ (i - 1 \in DOMAIN t /\ coming[i] = t[i - 1])
  <2> TAKE i \in DOMAIN coming
  <2> SUFFICES ASSUME i # 1 PROVE i - 1 \in DOMAIN t /\ coming[i] = t[i - 1]
    OBVIOUS
  <2>1. i - 1 \in 1 .. Len(t) /\ i - 1 + 1 = i
    BY <1>1, <1>4
  <2> QED BY <1>1, <1>4, <2>1
<1>7. 1 \in DOMAIN coming
  BY <1>1, <1>4
<1>8. \A i, j \in DOMAIN t : i < j /\ t[i] # Beat /\ t[j] # Beat => t[i] < t[j]
  <2> TAKE i, j \in DOMAIN t
  <2> SUFFICES ASSUME i < j, t[i] # Beat, t[j] # Beat PROVE t[i] < t[j]
    OBVIOUS
  <2>1. /\ i + 1 \in DOMAIN coming /\ j + 1 \in DOMAIN coming /\ i + 1 < j + 1
        /\ t[i] = coming[i + 1] /\ t[j] = coming[j + 1]
    BY <1>5
  <2> QED BY <1>2, <2>1
<1>9. CASE h = Beat
  <2>1. {t[i] : i \in DOMAIN t} \ {Beat} = {coming[i] : i \in DOMAIN coming} \ {Beat}
    <3>1. \A i \in DOMAIN t : t[i] \in {coming[k] : k \in DOMAIN coming}
      BY <1>5
    <3>2. ASSUME NEW k \in DOMAIN coming, coming[k] # Beat
          PROVE  coming[k] \in {t[i] : i \in DOMAIN t}
      <4>1. k # 1
        BY <1>1, <1>9, <3>2
      <4>2. k - 1 \in DOMAIN t /\ coming[k] = t[k - 1]
        BY <1>6, <4>1
      <4> QED BY <4>2
    <3> QED BY <3>1, <3>2
  <2>2. Sub!InTurn(done, t)
    BY <1>2, <1>8, <2>1 DEF Sub!InTurn, Sub!IsOrder, r
  <2> QED BY <1>9, <2>2 DEF h, t
<1>10. CASE h # Beat
  <2>1. h \in r .. Orders - 1
    BY <1>1, <1>2, <1>7, <1>10
  <2>2. h = r
    <3>1. r \in r .. Orders - 1
      BY <1>2, <1>3, <2>1
    <3>2. PICK j \in DOMAIN coming : coming[j] = r
      BY <1>2, <3>1
    <3>3. r # Beat
      BY <1>2, <1>3, <3>1
    <3>4. CASE j = 1
      BY <1>1, <3>2, <3>4
    <3>5. CASE j # 1
      <4>1. 1 < j
        BY <1>4, <3>5
      <4>2. coming[1] < coming[j]
        BY <1>1, <1>2, <1>7, <1>10, <3>2, <3>3, <4>1
      <4>3. h < r
        BY <1>1, <3>2, <4>2
      <4> QED BY <1>2, <1>3, <2>1, <4>3
    <3> QED BY <3>4, <3>5
  <2> DEFINE d == Append(done, h)
  <2>3. /\ d \in Seq(0 .. Orders - 1) /\ Len(d) = r + 1
        /\ \A i \in 1 .. r : d[i] = done[i]
        /\ d[r + 1] = r
    <3>1. h \in 0 .. Orders - 1
      BY <1>2, <1>3, <2>1
    <3> QED BY <2>2, <3>1, AppendProperties DEF r
  <2> HIDE DEF d
  <2>4. \A i \in DOMAIN d : d[i] = i - 1
    <3> TAKE i \in DOMAIN d
    <3>1. i \in 1 .. r + 1
      BY <2>3
    <3>2. CASE i \in 1 .. r
      BY <1>2, <2>3, <3>2
    <3>3. CASE i = r + 1
      BY <1>2, <2>3, <3>3
    <3> QED BY <1>2, <3>1, <3>2, <3>3
  <2>5. \A i \in DOMAIN t : t[i] # Beat => t[i] \in r + 1 .. Orders - 1
    <3> TAKE i \in DOMAIN t
    <3> SUFFICES ASSUME t[i] # Beat PROVE t[i] \in r + 1 .. Orders - 1
      OBVIOUS
    <3>1. i + 1 \in DOMAIN coming /\ t[i] = coming[i + 1] /\ 1 < i + 1
      BY <1>4, <1>5
    <3>2. t[i] \in r .. Orders - 1
      BY <1>2, <3>1
    <3>3. coming[1] < coming[i + 1]
      BY <1>1, <1>2, <1>7, <1>10, <3>1
    <3>4. r < t[i]
      BY <1>1, <2>2, <3>1, <3>3
    <3> QED BY <1>2, <1>3, <3>2, <3>4
  <2>6. ASSUME NEW n \in r + 1 .. Orders - 1
        PROVE  n \in {t[i] : i \in DOMAIN t} \ {Beat}
    <3>1. n \in r .. Orders - 1 /\ n # r /\ n # Beat
      BY <1>2, <1>3
    <3>2. PICK j \in DOMAIN coming : coming[j] = n
      BY <1>2, <3>1
    <3>3. j # 1
      BY <1>1, <2>2, <3>1, <3>2
    <3>4. j - 1 \in DOMAIN t /\ t[j - 1] = n
      BY <1>6, <3>2, <3>3
    <3> QED BY <3>1, <3>4
  <2>7. {t[i] : i \in DOMAIN t} \ {Beat} = r + 1 .. Orders - 1
    BY <2>5, <2>6
  <2>8. r + 1 <= Orders
    BY <1>2, <1>3, <2>1
  <2>9. Sub!InTurn(d, t)
    BY <1>8, <2>3, <2>4, <2>7, <2>8 DEF Sub!InTurn, Sub!IsOrder
  <2> QED BY <1>10, <2>3, <2>9 DEF d, h, t
<1> QED BY <1>9, <1>10

\* The queues hold orders and heartbeats, what was logged are orders, nothing
\* is sent before the channel is active, and the orders are in their order.
SubscribeInv ==
    /\ subClient = "new" => /\ subOut = <<>> /\ subWire = <<>> /\ replies = <<>>
                            /\ subBack = <<>> /\ received = <<>>
    /\ subOut \in Seq(AnyIds) /\ subWire \in Seq(AnyIds)
    /\ replies \in Seq(AnyIds) /\ subBack \in Seq(AnyIds)
    /\ received \in Seq(0 .. Orders - 1)
    /\ Sub!Conversation

LEMMA SubscribeNext ==
    ASSUME SubscribeInv, [Sub!Next]_(Sub!vars)
    PROVE  SubscribeInv'
<1> DEFINE front == subBack \o replies \o subWire
           travelling == front \o subOut
<1>1. /\ subOut \in Seq(AnyIds) /\ subWire \in Seq(AnyIds)
      /\ replies \in Seq(AnyIds) /\ subBack \in Seq(AnyIds)
      /\ received \in Seq(0 .. Orders - 1)
  BY DEF SubscribeInv
<1>2. /\ subBack \o replies \in Seq(AnyIds) /\ front \in Seq(AnyIds)
      /\ travelling \in Seq(AnyIds)
  BY <1>1, ConcatProperties
<1>3. subClient # "new" => Sub!InTurn(received, travelling)
  BY DEF SubscribeInv, Sub!Conversation
<1>4. CASE Sub!ChannelActive
  <2>1. /\ subOut' = Sub!AllOrders /\ subWire' = <<>> /\ replies' = <<>>
        /\ subBack' = <<>> /\ received' = <<>> /\ subClient' = "open"
    BY <1>4 DEF Sub!ChannelActive, SubscribeInv
  <2>2. <<>> \o <<>> = <<>> /\ <<>> \o Sub!AllOrders = Sub!AllOrders
    BY AllInTurn, ConcatEmptySeq, EmptySeq
  <2>3. Sub!InTurn(received', subBack' \o replies' \o subWire' \o subOut')
    BY <2>1, <2>2, AllInTurn
  <2>4. Sub!Conversation'
    BY <2>3 DEF Sub!Conversation, Sub!InTurn, Sub!IsOrder
  <2> QED BY <1>1, <2>1, <2>4, AllInTurn, EmptySeq DEF SubscribeInv
<1>5. CASE Sub!ClientWrites
  <2>1. /\ subOut # <<>> /\ subWire' = Append(subWire, Head(subOut)) /\ subOut' = Tail(subOut)
        /\ replies' = replies /\ subBack' = subBack /\ received' = received
        /\ subClient = "open" /\ subClient' = "open"
    BY <1>5 DEF Sub!ClientWrites, Sub!serverVars
  <2>2. Head(subOut) \in AnyIds /\ Tail(subOut) \in Seq(AnyIds)
    BY <1>1, <2>1, HeadTailProperties
  <2>3. subBack \o replies \o Append(subWire, Head(subOut)) = Append(front, Head(subOut))
    BY SMTT(30), <1>1, <1>2, <2>2, AppendConcat
  <2>4. Append(front, Head(subOut)) \o Tail(subOut) = travelling
    BY <1>1, <1>2, <2>1, HeadMoves
  <2>5. Sub!InTurn(received', subBack' \o replies' \o subWire' \o subOut')
    BY <1>3, <2>1, <2>3, <2>4
  <2>6. Sub!Conversation'
    BY <2>5 DEF Sub!Conversation, Sub!InTurn, Sub!IsOrder
  <2>7. subWire' \in Seq(AnyIds)
    BY <1>1, <2>1, <2>2, AppendProperties
  <2> QED BY <1>1, <2>1, <2>2, <2>6, <2>7 DEF SubscribeInv
<1>6. CASE Sub!ClientReads
  <2>1. /\ subBack # <<>> /\ subBack' = Tail(subBack)
        /\ received' = Sub!Logged(Head(subBack))
        /\ subOut' = subOut /\ subWire' = subWire /\ replies' = replies
        /\ subClient = "open" /\ subClient' = "open"
    BY <1>6 DEF Sub!ClientReads, Sub!serverVars
  <2>2. Tail(subBack) \in Seq(AnyIds)
    BY <1>1, <2>1, HeadTailProperties
  <2>3. /\ subBack \o replies # <<>> /\ Head(subBack \o replies) = Head(subBack)
        /\ Tail(subBack \o replies) = Tail(subBack) \o replies
    BY <1>1, <2>1, TailConcat
  <2>4. /\ front # <<>> /\ Head(front) = Head(subBack \o replies)
        /\ Tail(front) = Tail(subBack \o replies) \o subWire
    BY <1>1, <1>2, <2>3, TailConcat
  <2>5. /\ travelling # <<>> /\ Head(travelling) = Head(front)
        /\ Tail(travelling) = Tail(front) \o subOut
    BY <1>1, <1>2, <2>4, TailConcat
  <2>6. /\ Head(travelling) = Head(subBack)
        /\ Tail(travelling) = subBack' \o replies' \o subWire' \o subOut'
    BY <2>1, <2>3, <2>4, <2>5
  <2>7. Sub!InTurn(received, travelling)
    BY <1>3, <2>1
  <2> HIDE DEF travelling
  <2>8. IF Head(travelling) = Beat THEN Sub!InTurn(received, Tail(travelling))
        ELSE /\ Sub!InTurn(Append(received, Head(travelling)), Tail(travelling))
             /\ Append(received, Head(travelling)) \in Seq(0 .. Orders - 1)
    BY <1>1, <1>2, <2>5, <2>7, NextInTurn
  <2>9. /\ Sub!InTurn(received', Tail(travelling))
        /\ received' \in Seq(0 .. Orders - 1)
    BY <1>1, <2>1, <2>6, <2>8 DEF Sub!Logged
  <2>10. Sub!InTurn(received', subBack' \o replies' \o subWire' \o subOut')
    BY <2>6, <2>9
  <2>11. Sub!Conversation'
    BY <2>10 DEF Sub!Conversation, Sub!InTurn, Sub!IsOrder
  <2> QED BY <1>1, <2>1, <2>2, <2>9, <2>11 DEF SubscribeInv
<1>7. CASE Sub!Heartbeat
  <2>1. /\ subOut' = Append(subOut, Beat)
        /\ subWire' = subWire /\ replies' = replies /\ subBack' = subBack
        /\ received' = received /\ subClient = "open" /\ subClient' = "open"
    BY <1>7 DEF Sub!Heartbeat, Sub!serverVars
  <2>2. Beat \in AnyIds
    BY DEF AnyIds
  <2>3. front \o Append(subOut, Beat) = Append(travelling, Beat)
    BY SMTT(30), <1>1, <1>2, <2>2, AppendConcat
  <2>4. Sub!InTurn(received, Append(travelling, Beat))
    BY <1>2, <1>3, <2>1, BeatInTurn
  <2>5. Sub!InTurn(received', subBack' \o replies' \o subWire' \o subOut')
    BY <2>1, <2>3, <2>4
  <2>6. Sub!Conversation'
    BY <2>5 DEF Sub!Conversation, Sub!InTurn, Sub!IsOrder
  <2>7. subOut' \in Seq(AnyIds)
    BY <1>1, <2>1, <2>2, AppendProperties
  <2> QED BY <1>1, <2>1, <2>6, <2>7 DEF SubscribeInv
<1>8. CASE Sub!ServerReads
  <2>1. /\ subWire # <<>> /\ subWire' = Tail(subWire)
        /\ replies' = Append(replies, Head(subWire))
        /\ subOut' = subOut /\ subBack' = subBack /\ received' = received
        /\ subClient' = subClient /\ subClient # "new"
    BY <1>8 DEF Sub!ServerReads, SubscribeInv
  <2>2. Head(subWire) \in AnyIds /\ Tail(subWire) \in Seq(AnyIds)
    BY <1>1, <2>1, HeadTailProperties
  <2>3. subBack \o Append(replies, Head(subWire)) = Append(subBack \o replies, Head(subWire))
    BY <1>1, <2>2, AppendConcat
  <2>4. Append(subBack \o replies, Head(subWire)) \o Tail(subWire) = front
    BY <1>1, <1>2, <2>1, HeadMoves
  <2>5. Sub!InTurn(received', subBack' \o replies' \o subWire' \o subOut')
    BY <1>3, <2>1, <2>3, <2>4
  <2>6. Sub!Conversation'
    BY <2>5 DEF Sub!Conversation, Sub!InTurn, Sub!IsOrder
  <2>7. replies' \in Seq(AnyIds)
    BY <1>1, <2>1, <2>2, AppendProperties
  <2> QED BY <1>1, <2>1, <2>2, <2>6, <2>7 DEF SubscribeInv
<1>9. CASE Sub!ServerWrites
  <2>1. /\ replies # <<>> /\ replies' = Tail(replies)
        /\ subBack' = Append(subBack, Head(replies))
        /\ subOut' = subOut /\ subWire' = subWire /\ received' = received
        /\ subClient' = subClient /\ subClient # "new"
    BY <1>9 DEF Sub!ServerWrites, SubscribeInv
  <2>2. Head(replies) \in AnyIds /\ Tail(replies) \in Seq(AnyIds)
    BY <1>1, <2>1, HeadTailProperties
  <2>3. Append(subBack, Head(replies)) \o Tail(replies) = subBack \o replies
    BY <1>1, <2>1, HeadMoves
  <2>4. Sub!InTurn(received', subBack' \o replies' \o subWire' \o subOut')
    BY <1>3, <2>1, <2>3
  <2>5. Sub!Conversation'
    BY <2>4 DEF Sub!Conversation, Sub!InTurn, Sub!IsOrder
  <2>6. subBack' \in Seq(AnyIds)
    BY <1>1, <2>1, <2>2, AppendProperties
  <2> QED BY <1>1, <2>1, <2>2, <2>5, <2>6 DEF SubscribeInv
<1>10. CASE Sub!Tick \/ Sub!ClientCloses \/ Sub!ServerCloses \/ Sub!ServerLost \/ UNCHANGED Sub!vars
  <2>1. /\ subOut' = subOut /\ subWire' = subWire /\ replies' = replies
        /\ subBack' = subBack /\ received' = received
        /\ subClient' = subClient \/ (subClient = "open" /\ subClient' = "closed")
    BY <1>10 DEF Sub!Tick, Sub!ClientCloses, Sub!ServerCloses, Sub!ServerLost, Sub!vars,
        Sub!serverVars
  <2>2. Sub!Conversation'
    BY <1>3, <2>1 DEF Sub!Conversation, Sub!InTurn, Sub!IsOrder
  <2> QED BY <2>1, <2>2 DEF SubscribeInv
<1> QED BY <1>4, <1>5, <1>6, <1>7, <1>8, <1>9, <1>10 DEF Sub!Next

\* The client of the subscription service gets a response to each order once
\* and in the order it sent them, wherever the heartbeats fall among them.
THEOREM OrdersAnsweredInTurn == Sub!Spec => []Conversation
<1>1. Sub!Init => SubscribeInv
  BY EmptySeq DEF Sub!Init, SubscribeInv, Sub!Conversation
<1>2. SubscribeInv => Conversation
  BY DEF SubscribeInv, Conversation
<1> QED BY <1>1, <1>2, SubscribeNext, PTL DEF Sub!Spec

-----------------------------------------------------------------------------
(* HttpServer.                                                               *)

Begun    == Http!HandledOf("head")
Complete == Http!HandledOf("last")

\* The stream is one request after the other: a head, its contents, its last.
StreamInv ==
    /\ stream = <<>> => asked = 0
    /\ stream # <<>> => stream[Len(stream)].kind = "last" /\ stream[Len(stream)].of = asked
    /\ \A i \in DOMAIN stream :
           /\ stream[i].of >= 1
           /\ i = 1 => stream[i].kind = "head" /\ stream[i].of = 1
           /\ i > 1 /\ stream[i - 1].kind = "last" =>
                  stream[i].kind = "head" /\ stream[i].of = stream[i - 1].of + 1
           /\ i > 1 /\ stream[i - 1].kind # "last" =>
                  stream[i].kind # "head" /\ stream[i].of = stream[i - 1].of

\* Where in the stream the pipeline is, the counts of the parts tell as well.
PlaceInv ==
    /\ Begun = IF handled = 0 THEN 0 ELSE stream[handled].of
    /\ Complete = IF handled = 0 THEN 0
                  ELSE IF stream[handled].kind = "last" THEN stream[handled].of
                  ELSE stream[handled].of - 1

Types ==
    /\ httpServer \in {"server", "server2"} /\ httpChannel \in {"open", "closed"}
    /\ asked \in Nat /\ stream \in Seq(Http!Part)
    /\ httpTaken \in 0 .. Len(stream) /\ handled \in 0 .. httpTaken
    /\ httpOut \in Seq(Nat) /\ httpWritten \in 0 .. Len(httpOut)

\* What was written answers the requests in turn, as far as they were handled.
ResponsesInv ==
    /\ Len(httpOut) = IF httpServer = "server" THEN Begun + Complete ELSE Complete
    /\ \A i \in 1 .. Len(httpOut) :
           httpOut[i] = IF httpServer = "server" THEN (i + 1) \div 2 ELSE i

HttpInv == Types /\ StreamInv /\ PlaceInv /\ ResponsesInv

\* How many of the first h parts of st are of that kind.
CountOf(kind, h, st) == Cardinality({i \in 1 .. h : st[i].kind = kind})

LEMMA CountIs == \A kind : Http!HandledOf(kind) = CountOf(kind, handled, stream)
BY DEF Http!HandledOf, CountOf, Http!Cardinality, Cardinality

LEMMA CountIsAfter ==
    \A kind : Http!HandledOf(kind)' = CountOf(kind, handled', stream')
BY DEF Http!HandledOf, CountOf, Http!Cardinality, Cardinality

LEMMA CountMore ==
    ASSUME NEW st, NEW kind, NEW h \in Nat
    PROVE  /\ CountOf(kind, h, st) \in Nat
           /\ st[h + 1].kind = kind => CountOf(kind, h + 1, st) = CountOf(kind, h, st) + 1
           /\ st[h + 1].kind # kind => CountOf(kind, h + 1, st) = CountOf(kind, h, st)
<1> DEFINE A == {i \in 1 .. h : st[i].kind = kind}
           B == {i \in 1 .. h + 1 : st[i].kind = kind}
<1>1. IsFiniteSet(A)
  <2>1. IsFiniteSet(1 .. h) /\ A \subseteq 1 .. h
    BY FS_Interval
  <2> QED BY <2>1, FS_Subset
<1>2. Cardinality(A) \in Nat
  BY <1>1, FS_CardinalityType
<1>3. CASE st[h + 1].kind = kind
  <2>1. B = A \cup {h + 1} /\ h + 1 \notin A
    BY <1>3
  <2>2. Cardinality(B) = Cardinality(A) + 1
    BY <1>1, <2>1, FS_AddElement
  <2> QED BY <1>2, <1>3, <2>2 DEF CountOf
<1>4. CASE st[h + 1].kind # kind
  <2>1. B = A
    BY <1>4
  <2> QED BY <1>2, <1>4, <2>1 DEF CountOf
<1> QED BY <1>3, <1>4

LEMMA CountSame ==
    ASSUME NEW s, NEW t, NEW h \in Nat, NEW kind, \A i \in 1 .. h : s[i] = t[i]
    PROVE  CountOf(kind, h, s) = CountOf(kind, h, t)
<1>1. {i \in 1 .. h : s[i].kind = kind} = {i \in 1 .. h : t[i].kind = kind}
  OBVIOUS
<1> QED BY <1>1 DEF CountOf

LEMMA CountNone == \A st, kind : CountOf(kind, 0, st) = 0
<1> TAKE st, kind
<1>1. {i \in 1 .. 0 : st[i].kind = kind} = {}
  OBVIOUS
<1> QED BY <1>1, FS_EmptySet DEF CountOf

\* What the next part is, and what handling it counts.
LEMMA NextPartIs ==
    ASSUME Types, StreamInv, PlaceInv, handled < httpTaken
    PROVE  /\ handled \in Nat /\ handled + 1 \in DOMAIN stream
           /\ Begun \in Nat /\ Complete \in Nat
           /\ Http!NextPart = stream[handled + 1]
           /\ stream[handled + 1].kind \in {"head", "content", "last"}
           /\ stream[handled + 1].of \in Nat
           /\ stream[handled + 1].kind = "head" =>
                  Begun = Complete /\ stream[handled + 1].of = Begun + 1
           /\ stream[handled + 1].kind # "head" =>
                  Begun = Complete + 1 /\ stream[handled + 1].of = Begun
<1> DEFINE p == stream[handled + 1]  q == stream[handled]
<1>1. /\ handled \in Nat /\ handled + 1 \in DOMAIN stream /\ p \in Http!Part
      /\ handled # 0 => handled \in DOMAIN stream /\ q \in Http!Part
  BY DEF Types
<1>2. p.kind \in {"head", "content", "last"} /\ p.of \in Nat
  BY <1>1 DEF Http!Part
<1>3. Begun \in Nat /\ Complete \in Nat
  BY <1>1, CountIs, CountMore DEF Begun, Complete
<1>4. CASE handled = 0
  <2>1. p.kind = "head" /\ p.of = 1
    BY <1>1, <1>4 DEF StreamInv
  <2>2. Begun = 0 /\ Complete = 0
    BY <1>4 DEF PlaceInv
  <2> QED BY <1>1, <1>2, <2>1, <2>2 DEF Http!NextPart
<1>5. CASE handled # 0
  <2>1. /\ q.of \in Nat /\ handled + 1 > 1 /\ handled + 1 - 1 = handled
    BY <1>1, <1>5 DEF Http!Part
  <2>2. /\ q.kind = "last" => p.kind = "head" /\ p.of = q.of + 1
        /\ q.kind # "last" => p.kind # "head" /\ p.of = q.of
    BY <1>1, <2>1 DEF StreamInv
  <2>3. Begun = q.of /\ Complete = IF q.kind = "last" THEN q.of ELSE q.of - 1
    BY <1>5 DEF PlaceInv
  <2> HIDE DEF p, q
  <2>4. CASE q.kind = "last"
    BY <1>1, <1>2, <1>3, <2>2, <2>3, <2>4 DEF Http!NextPart, p
  <2>5. CASE q.kind # "last"
    BY <1>1, <1>2, <1>3, <2>1, <2>2, <2>3, <2>5 DEF Http!NextPart, p
  <2> QED BY <2>4, <2>5
<1> QED BY <1>4, <1>5

\* After the next part the pipeline is there.
LEMMA PlaceAfter ==
    ASSUME Types, StreamInv, PlaceInv, handled < httpTaken,
           handled' = handled + 1, stream' = stream
    PROVE  /\ Begun' \in Nat /\ Complete' \in Nat
           /\ Begun' = IF Http!NextPart.kind = "head" THEN Begun + 1 ELSE Begun
           /\ Complete' = IF Http!NextPart.kind = "last" THEN Complete + 1 ELSE Complete
           /\ PlaceInv'
<1> DEFINE p == stream[handled + 1]
<1>1. /\ handled \in Nat /\ Begun \in Nat /\ Complete \in Nat
      /\ Http!NextPart = p /\ p.kind \in {"head", "content", "last"} /\ p.of \in Nat
      /\ p.kind = "head" => Begun = Complete /\ p.of = Begun + 1
      /\ p.kind # "head" => Begun = Complete + 1 /\ p.of = Begun
  BY NextPartIs
<1>2. Begun = CountOf("head", handled, stream) /\ Complete = CountOf("last", handled, stream)
  BY CountIs DEF Begun, Complete
<1>3. /\ Begun' = CountOf("head", handled + 1, stream)
      /\ Complete' = CountOf("last", handled + 1, stream)
  BY CountIsAfter DEF Begun, Complete
<1>4. Begun' = IF p.kind = "head" THEN Begun + 1 ELSE Begun
  BY <1>1, <1>2, <1>3, CountMore
<1>5. Complete' = IF p.kind = "last" THEN Complete + 1 ELSE Complete
  BY <1>1, <1>2, <1>3, CountMore
<1>6. stream'[handled'] = p /\ handled' # 0
  BY <1>1
<1> HIDE DEF p
<1>7. Begun' = p.of /\ Complete' = IF p.kind = "last" THEN p.of ELSE p.of - 1
  BY <1>1, <1>4, <1>5
<1>8. PlaceInv'
  BY <1>6, <1>7 DEF PlaceInv
<1> QED BY <1>1, <1>4, <1>5, <1>8

\* A step that leaves the parts handled so far alone leaves the counts alone.
LEMMA PlaceSame ==
    ASSUME Types, PlaceInv, handled' = handled,
           \A i \in 1 .. handled : stream'[i] = stream[i]
    PROVE  Begun' = Begun /\ Complete' = Complete /\ PlaceInv'
<1>1. handled \in Nat /\ (handled # 0 => stream'[handled] = stream[handled])
  BY DEF Types
<1>2. Begun' = CountOf("head", handled, stream') /\ Complete' = CountOf("last", handled, stream')
  BY CountIsAfter DEF Begun, Complete
<1>3. Begun = CountOf("head", handled, stream) /\ Complete = CountOf("last", handled, stream)
  BY CountIs DEF Begun, Complete
<1>4. Begun' = Begun /\ Complete' = Complete
  BY <1>1, <1>2, <1>3, CountSame
<1> QED BY <1>1, <1>4 DEF PlaceInv

\* Another request at the end of the stream.
LEMMA StreamAsk ==
    ASSUME Types, StreamInv, NEW k \in Nat,
           asked' = asked + 1, stream' = stream \o Http!PartsOf(asked', k)
    PROVE  /\ asked' \in Nat /\ stream' \in Seq(Http!Part) /\ Len(stream) <= Len(stream')
           /\ \A i \in DOMAIN stream : stream'[i] = stream[i]
           /\ StreamInv'
<1> DEFINE n == asked + 1  ps == Http!PartsOf(n, k)  l == Len(stream)  m == k + 2
<1>1. n \in Nat /\ n >= 1 /\ l \in Nat /\ stream \in Seq(Http!Part) /\ m \in Nat /\ m >= 2
  BY DEF Types
<1>2. /\ ps \in Seq(Http!Part) /\ Len(ps) = m
      /\ \A i \in 1 .. m :
             /\ ps[i].of = n
             /\ ps[i].kind = IF i = 1 THEN "head" ELSE IF i = m THEN "last" ELSE "content"
  <2> DEFINE e(i) == [of |-> n, kind |-> IF i = 1 THEN "head"
                                         ELSE IF i = m THEN "last"
                                         ELSE "content"]
  <2>1. ps = [i \in 1 .. m |-> e(i)]
    BY DEF Http!PartsOf
  <2> HIDE DEF ps, n, m
  <2>2. \A i \in 1 .. m :
            /\ e(i).of = n /\ e(i) \in Http!Part
            /\ e(i).kind = IF i = 1 THEN "head" ELSE IF i = m THEN "last" ELSE "content"
    BY <1>1 DEF Http!Part
  <2> HIDE DEF e
  <2>3. ps \in [1 .. m -> Http!Part] /\ \A i \in 1 .. m : ps[i] = e(i)
    BY <2>1, <2>2
  <2>4. ps \in Seq(Http!Part) /\ Len(ps) = m
    BY <1>1, <2>3
  <2> QED BY <2>2, <2>3, <2>4
<1>3. /\ stream' = stream \o ps /\ stream' \in Seq(Http!Part) /\ Len(stream') = l + m
      /\ \A i \in 1 .. l + m : stream'[i] = IF i <= l THEN stream[i] ELSE ps[i - l]
  <2>1. stream' = stream \o ps
    OBVIOUS
  <2> HIDE DEF ps, n, m
  <2>2. /\ stream \o ps \in Seq(Http!Part) /\ Len(stream \o ps) = Len(stream) + Len(ps)
        /\ \A i \in 1 .. Len(stream) + Len(ps) :
               (stream \o ps)[i] = IF i <= Len(stream) THEN stream[i] ELSE ps[i - Len(stream)]
    BY <1>1, <1>2, ConcatProperties
  <2>3. Len(ps) = m
    BY <1>2
  <2> QED BY <2>1, <2>2, <2>3
<1> HIDE DEF l, n, m, ps
<1>4. DOMAIN stream = 1 .. l /\ DOMAIN stream' = 1 .. l + m /\ asked' = n
  BY <1>1, <1>3 DEF l, n
<1>5. \A i \in 1 .. l : i \in DOMAIN stream' /\ stream'[i] = stream[i]
  BY <1>1, <1>3, <1>4
<1>6. \A i \in 1 .. m : l + i \in DOMAIN stream' /\ stream'[l + i] = ps[i]
  <2> TAKE i \in 1 .. m
  <2> DEFINE j == l + i
  <2>1. j \in 1 .. l + m /\ ~(j <= l) /\ j - l = i
    BY <1>1
  <2> HIDE DEF j
  <2>2. stream'[j] = ps[j - l]
    BY <1>3, <2>1
  <2>3. j \in DOMAIN stream' /\ stream'[j] = ps[i]
    BY <1>4, <2>1, <2>2
  <2> QED BY <2>3 DEF j
<1>7. stream' # <<>> /\ stream'[Len(stream')].kind = "last" /\ stream'[Len(stream')].of = asked'
  <2>1. m \in 1 .. m /\ m # 1
    BY <1>1
  <2>2. stream'[Len(stream')] = ps[m]
    BY <1>3, <1>6, <2>1
  <2>3. Len(stream') # 0
    BY <1>1, <1>3
  <2> QED BY <1>2, <1>3, <1>4, <2>1, <2>2, <2>3
<1>8. ASSUME NEW i \in DOMAIN stream'
      PROVE  /\ stream'[i].of >= 1
             /\ i = 1 => stream'[i].kind = "head" /\ stream'[i].of = 1
             /\ i > 1 /\ stream'[i - 1].kind = "last" =>
                    stream'[i].kind = "head" /\ stream'[i].of = stream'[i - 1].of + 1
             /\ i > 1 /\ stream'[i - 1].kind # "last" =>
                    stream'[i].kind # "head" /\ stream'[i].of = stream'[i - 1].of
  <2>1. CASE i \in 1 .. l
    <3>1. i \in DOMAIN stream /\ stream'[i] = stream[i]
      BY <1>4, <1>5, <2>1
    <3>2. i > 1 => i - 1 \in 1 .. l /\ stream'[i - 1] = stream[i - 1]
      BY <1>1, <1>5, <2>1
    <3> QED BY <3>1, <3>2 DEF StreamInv
  <2>2. CASE i = l + 1
    <3>1. stream'[i] = ps[1] /\ ps[1].of = n /\ ps[1].kind = "head"
      <4>1. 1 \in 1 .. m
        BY <1>1
      <4> QED BY <1>2, <1>6, <2>2, <4>1
    <3>2. CASE l = 0
      <4>1. asked = 0 /\ i = 1
        BY <1>1, <2>2, <3>2 DEF l, StreamInv
      <4>2. n = 1
        BY <4>1 DEF n
      <4> QED BY <3>1, <4>1, <4>2
    <3>3. CASE l # 0
      <4>1. i > 1 /\ i - 1 = l /\ l \in 1 .. l /\ stream # <<>>
        BY <1>1, <2>2, <3>3 DEF l
      <4>2. stream'[i - 1] = stream[l]
        BY <1>5, <4>1
      <4>3. stream[l].kind = "last" /\ stream[l].of = asked
        BY <4>1 DEF StreamInv, l
      <4>4. n = asked + 1
        BY DEF n
      <4> QED BY SMTT(30), <1>1, <3>1, <4>1, <4>2, <4>3, <4>4
    <3> QED BY <3>2, <3>3
  <2>3. CASE i > l + 1
    <3>1. PICK j \in 2 .. m : i = l + j
      <4>1. i - l \in 2 .. m /\ i = l + (i - l)
        BY <1>1, <1>4, <2>3
      <4> QED BY <4>1
    <3>2. j \in 1 .. m /\ j - 1 \in 1 .. m /\ j # 1 /\ j - 1 # m /\ i - 1 = l + (j - 1)
      BY <1>1, <3>1
    <3>3. stream'[i] = ps[j] /\ stream'[i - 1] = ps[j - 1]
      BY <1>6, <3>1, <3>2
    <3>4. /\ ps[j].of = n /\ ps[j].kind # "head"
          /\ ps[j - 1].of = n /\ ps[j - 1].kind # "last"
      BY <1>2, <3>2
    <3>5. stream'[i].of = n /\ stream'[i].kind # "head"
      BY <3>3, <3>4
    <3>6. stream'[i - 1].of = n /\ stream'[i - 1].kind # "last"
      BY <3>3, <3>4
    <3>7. i # 1
      BY <1>1, <2>3
    <3> QED BY <1>1, <3>5, <3>6, <3>7
  <2>4. i \in 1 .. l \/ i = l + 1 \/ i > l + 1
    BY <1>1, <1>4
  <2> QED BY <2>1, <2>2, <2>3, <2>4
<1>9. StreamInv'
  BY <1>7, <1>8 DEF StreamInv
<1>10. l <= Len(stream') /\ asked' \in Nat
  BY <1>1, <1>3, <1>4
<1> QED BY <1>3, <1>4, <1>5, <1>9, <1>10 DEF l

LEMMA Halves == \A n \in Nat : (n + n + 2) \div 2 = n + 1 /\ (n + n + 1) \div 2 = n
OBVIOUS

\* What is written for the next part is the answer that is due.
LEMMA RespondInv ==
    ASSUME HttpInv, handled < httpTaken, handled' = handled + 1,
           httpServer' = httpServer, asked' = asked, stream' = stream, httpTaken' = httpTaken,
           Http!NextPart.kind \in (IF httpServer = "server" THEN {"head", "last"} ELSE {"last"}),
           Http!Respond
    PROVE  HttpInv'
<1> DEFINE p == Http!NextPart  l == Len(httpOut)
<1>1. Types /\ StreamInv /\ PlaceInv /\ ResponsesInv
  BY DEF HttpInv
<1>2. /\ Begun \in Nat /\ Complete \in Nat /\ p.of \in Nat
      /\ p.kind = "head" => Begun = Complete /\ p.of = Begun + 1
      /\ p.kind # "head" => Begun = Complete + 1 /\ p.of = Begun
  BY <1>1, NextPartIs
<1>3. /\ Begun' = IF p.kind = "head" THEN Begun + 1 ELSE Begun
      /\ Complete' = IF p.kind = "last" THEN Complete + 1 ELSE Complete
      /\ PlaceInv'
  BY <1>1, PlaceAfter
<1>4. /\ httpOut' = Append(httpOut, p.of) /\ httpWritten' \in httpWritten .. Len(httpOut')
      /\ httpChannel' = httpChannel
  BY DEF Http!Respond
<1>5. l \in Nat /\ httpOut \in Seq(Nat)
  BY <1>1 DEF Types
<1>6. /\ httpOut' \in Seq(Nat) /\ Len(httpOut') = l + 1
      /\ \A i \in 1 .. l : httpOut'[i] = httpOut[i]
      /\ httpOut'[l + 1] = p.of
  BY <1>2, <1>4, <1>5, AppendProperties
<1>7. Types'
  <2>1. /\ httpTaken' \in 0 .. Len(stream') /\ handled' \in 0 .. httpTaken'
        /\ httpWritten' \in 0 .. Len(httpOut')
    BY <1>1, <1>4, <1>5, <1>6 DEF Types
  <2> QED BY <1>1, <1>4, <1>6, <2>1 DEF Types
<1>8. StreamInv'
  BY <1>1 DEF StreamInv
<1>9. l = (IF httpServer = "server" THEN Begun + Complete ELSE Complete)
  BY <1>1 DEF ResponsesInv
<1>10. \A i \in 1 .. l : httpOut[i] = IF httpServer = "server" THEN (i + 1) \div 2 ELSE i
  BY <1>1 DEF ResponsesInv
<1>11. p.kind \in (IF httpServer = "server" THEN {"head", "last"} ELSE {"last"})
  OBVIOUS
<1> HIDE DEF p, l
<1>12. CASE httpServer = "server" /\ p.kind = "head"
  <2>1. l + 1 = Begun' + Complete' /\ l + 1 + 1 = Begun + Begun + 2 /\ p.of = Begun + 1
    BY <1>2, <1>3, <1>9, <1>12
  <2>2. (l + 1 + 1) \div 2 = p.of
    BY <1>2, <2>1, Halves
  <2>3. \A i \in 1 .. l + 1 : httpOut'[i] = (i + 1) \div 2
    <3> TAKE i \in 1 .. l + 1
    <3>1. CASE i \in 1 .. l
      BY <1>6, <1>10, <1>12, <3>1
    <3>2. CASE i = l + 1
      BY <1>6, <2>2, <3>2
    <3> QED BY <1>5, <3>1, <3>2 DEF l
  <2>4. ResponsesInv'
    BY <1>6, <1>12, <2>1, <2>3 DEF ResponsesInv
  <2> QED BY <1>3, <1>7, <1>8, <2>4 DEF HttpInv
<1>13. CASE httpServer = "server" /\ p.kind = "last"
  <2>1. l + 1 = Begun' + Complete' /\ l + 1 + 1 = Begun + Begun + 1 /\ p.of = Begun
    BY <1>2, <1>3, <1>9, <1>13
  <2>2. (l + 1 + 1) \div 2 = p.of
    BY <1>2, <2>1, Halves
  <2>3. \A i \in 1 .. l + 1 : httpOut'[i] = (i + 1) \div 2
    <3> TAKE i \in 1 .. l + 1
    <3>1. CASE i \in 1 .. l
      BY <1>6, <1>10, <1>13, <3>1
    <3>2. CASE i = l + 1
      BY <1>6, <2>2, <3>2
    <3> QED BY <1>5, <3>1, <3>2 DEF l
  <2>4. ResponsesInv'
    BY <1>6, <1>13, <2>1, <2>3 DEF ResponsesInv
  <2> QED BY <1>3, <1>7, <1>8, <2>4 DEF HttpInv
<1>14. CASE httpServer # "server" /\ p.kind = "last"
  <2>1. l + 1 = Complete' /\ l + 1 = p.of
    BY <1>2, <1>3, <1>9, <1>14
  <2>2. \A i \in 1 .. l + 1 : httpOut'[i] = i
    <3> TAKE i \in 1 .. l + 1
    <3>1. CASE i \in 1 .. l
      BY <1>6, <1>10, <1>14, <3>1
    <3>2. CASE i = l + 1
      BY <1>6, <2>1, <3>2
    <3> QED BY <1>5, <3>1, <3>2 DEF l
  <2>3. ResponsesInv'
    BY <1>6, <1>14, <2>1, <2>2 DEF ResponsesInv
  <2> QED BY <1>3, <1>7, <1>8, <2>3 DEF HttpInv
<1> QED BY <1>11, <1>12, <1>13, <1>14

\* A part that is not answered is none that an answer is due to.
LEMMA SilentInv ==
    ASSUME HttpInv, handled < httpTaken, handled' = handled + 1,
           httpServer' = httpServer, asked' = asked, stream' = stream, httpTaken' = httpTaken,
           Http!NextPart.kind \in (IF httpServer = "server" THEN {"content"}
                                                           ELSE {"head", "content"}),
           httpOut' = httpOut, httpWritten' = httpWritten, httpChannel' \in {"open", "closed"}
    PROVE  HttpInv'
<1>1. Types /\ StreamInv /\ PlaceInv /\ ResponsesInv
  BY DEF HttpInv
<1>2. /\ Begun' = IF Http!NextPart.kind = "head" THEN Begun + 1 ELSE Begun
      /\ Complete' = IF Http!NextPart.kind = "last" THEN Complete + 1 ELSE Complete
      /\ PlaceInv'
  BY <1>1, PlaceAfter
<1>3. Types'
  <2>1. handled' \in 0 .. httpTaken'
    BY <1>1 DEF Types
  <2> QED BY <1>1, <2>1 DEF Types
<1>4. StreamInv'
  BY <1>1 DEF StreamInv
<1>5. ResponsesInv'
  <2>1. Complete' = Complete /\ (httpServer = "server" => Begun' = Begun)
    BY <1>2
  <2> QED BY <1>1, <2>1 DEF ResponsesInv
<1> QED BY <1>2, <1>3, <1>4, <1>5 DEF HttpInv

LEMMA HttpInit == Http!Init => HttpInv
<1> SUFFICES ASSUME Http!Init PROVE HttpInv
  OBVIOUS
<1>1. /\ httpServer \in {"server", "server2"} /\ asked = 0 /\ stream = <<>>
      /\ httpTaken = 0 /\ handled = 0 /\ httpOut = <<>> /\ httpWritten = 0
      /\ httpChannel = "open"
  BY DEF Http!Init
<1>2. Types /\ StreamInv
  BY <1>1 DEF Types, StreamInv
<1>3. Begun = 0 /\ Complete = 0
  BY <1>1, CountIs, CountNone DEF Begun, Complete
<1>4. PlaceInv /\ ResponsesInv
  BY <1>1, <1>3 DEF PlaceInv, ResponsesInv
<1> QED BY <1>2, <1>4 DEF HttpInv

LEMMA HttpNext ==
    ASSUME HttpInv, [Http!Next]_(Http!vars)
    PROVE  HttpInv'
<1>1. Types /\ StreamInv /\ PlaceInv /\ ResponsesInv
  BY DEF HttpInv
<1>2. CASE Http!Ask
  <2>1. PICK k \in Contents : stream' = stream \o Http!PartsOf(asked', k)
    BY <1>2 DEF Http!Ask
  <2>2. k \in Nat
    BY ProgramsAssumption DEF Http!HttpAssumption
  <2>3. /\ asked' = asked + 1 /\ httpServer' = httpServer /\ httpTaken' = httpTaken
        /\ handled' = handled /\ httpOut' = httpOut /\ httpWritten' = httpWritten
        /\ httpChannel' = httpChannel
    BY <1>2 DEF Http!Ask
  <2>4. /\ asked' \in Nat /\ stream' \in Seq(Http!Part) /\ Len(stream) <= Len(stream')
        /\ \A i \in DOMAIN stream : stream'[i] = stream[i]
        /\ StreamInv'
    BY <1>1, <2>1, <2>2, <2>3, StreamAsk
  <2>5. Types'
    <3>1. httpTaken' \in 0 .. Len(stream')
      BY <1>1, <2>3, <2>4 DEF Types
    <3> QED BY <1>1, <2>3, <2>4, <3>1 DEF Types
  <2>6. \A i \in 1 .. handled : stream'[i] = stream[i]
    BY <1>1, <2>4 DEF Types
  <2>7. Begun' = Begun /\ Complete' = Complete /\ PlaceInv'
    BY <1>1, <2>3, <2>6, PlaceSame
  <2>8. ResponsesInv'
    BY <1>1, <2>3, <2>7 DEF ResponsesInv
  <2> QED BY <2>4, <2>5, <2>7, <2>8 DEF HttpInv
<1>3. CASE Http!Read \/ Http!Drain \/ Http!Gone \/ UNCHANGED Http!vars
  <2>1. /\ httpServer' = httpServer /\ asked' = asked /\ stream' = stream
        /\ handled' = handled /\ httpOut' = httpOut
    BY <1>3 DEF Http!Read, Http!Drain, Http!Gone, Http!vars
  <2>2. /\ httpTaken' = httpTaken \/ httpTaken' \in httpTaken + 1 .. Len(stream)
        /\ httpWritten' = httpWritten \/ httpWritten' \in httpWritten + 1 .. Len(httpOut)
        /\ httpChannel' = httpChannel \/ httpChannel' = "closed"
    BY <1>3 DEF Http!Read, Http!Drain, Http!Gone, Http!vars
  <2>3. /\ httpTaken' \in 0 .. Len(stream) /\ handled \in 0 .. httpTaken'
        /\ httpWritten' \in 0 .. Len(httpOut)
    BY <1>1, <2>2 DEF Types
  <2>4. Types'
    BY <1>1, <2>1, <2>2, <2>3 DEF Types
  <2>5. Begun' = Begun /\ Complete' = Complete /\ PlaceInv'
    BY <1>1, <2>1, PlaceSame
  <2>6. StreamInv' /\ ResponsesInv'
    BY <1>1, <2>1, <2>5 DEF StreamInv, ResponsesInv
  <2> QED BY <2>4, <2>5, <2>6 DEF HttpInv
<1>4. CASE Http!Handle
  <2>1. /\ handled < httpTaken /\ handled' = handled + 1
        /\ httpServer' = httpServer /\ asked' = asked /\ stream' = stream
        /\ httpTaken' = httpTaken /\ httpChannel = "open"
    BY <1>1, <1>4 DEF Http!Handle, Http!Serve, Http!CastFails, Http!Join, Http!ServeFull,
        Http!Handles, Http!Idle, Types
  <2>2. CASE Http!Serve
    <3>1. httpServer = "server" /\ Http!NextPart.kind \in {"head", "last"} /\ Http!Respond
      BY <2>2 DEF Http!Serve, Http!Handles
    <3> QED BY <2>1, <3>1, RespondInv
  <2>3. CASE Http!ServeFull
    <3>1. httpServer = "server2" /\ Http!NextPart.kind \in {"last"} /\ Http!Respond
      BY <2>3 DEF Http!ServeFull, Http!Handles
    <3> QED BY <2>1, <3>1, RespondInv
  <2>4. CASE Http!CastFails
    <3>1. /\ httpServer = "server" /\ Http!NextPart.kind \in {"content"}
          /\ httpOut' = httpOut /\ httpWritten' = httpWritten /\ httpChannel' = "closed"
      BY <2>4 DEF Http!CastFails, Http!Handles
    <3> QED BY <2>1, <3>1, SilentInv
  <2>5. CASE Http!Join
    <3>1. /\ httpServer = "server2" /\ Http!NextPart.kind \in {"head", "content"}
          /\ httpOut' = httpOut /\ httpWritten' = httpWritten /\ httpChannel' = "open"
      BY <2>1, <2>5 DEF Http!Join, Http!Handles
    <3> QED BY <2>1, <3>1, SilentInv
  <2> QED BY <1>4, <2>2, <2>3, <2>4, <2>5 DEF Http!Handle
<1> QED BY <1>2, <1>3, <1>4 DEF Http!Next

-----------------------------------------------------------------------------
(* HttpServer implements HttpExchange.                                       *)

\* What the client has got, if the first w responses have left.
LEMMA AnswersAre ==
    ASSUME NEW o \in Seq(Nat), NEW w \in 0 .. Len(o),
           httpServer \in {"server", "server2"},
           \A i \in 1 .. Len(o) : o[i] = IF httpServer = "server" THEN (i + 1) \div 2 ELSE i
    PROVE  /\ SubSeq(o, 1, w) = [i \in 1 .. w |-> Http!Exchange!Answered(i)]
           /\ Len(SubSeq(o, 1, w)) = w
<1>1. w \in Nat /\ w <= Len(o) /\ Len(o) \in Nat
  OBVIOUS
<1>2. /\ SubSeq(o, 1, w) \in Seq(Nat) /\ Len(SubSeq(o, 1, w)) = w
      /\ \A i \in 1 .. w : SubSeq(o, 1, w)[i] = o[i]
  <2>1. \A i \in 1 .. w : o[i] \in Nat /\ i \in 1 .. Len(o)
    BY <1>1
  <2>2. /\ SubSeq(o, 1, w) \in Seq(Nat)
        /\ Len(SubSeq(o, 1, w)) = (IF 1 <= w THEN w - 1 + 1 ELSE 0)
        /\ \A i \in 1 .. w - 1 + 1 : SubSeq(o, 1, w)[i] = o[1 + i - 1]
    BY <1>1, <2>1, SubSeqProperties
  <2> QED BY <1>1, <2>2
<1>3. ASSUME NEW i \in 1 .. w
      PROVE  o[i] = Http!Exchange!Answered(i)
  <2>1. i \in 1 .. Len(o) /\ i \in Nat
    BY <1>1
  <2>2. CASE httpServer = "server"
    <3>1. o[i] = (i + 1) \div 2
      BY <2>1, <2>2
    <3>2. i + 2 - 1 = i + 1
      BY <2>1
    <3> QED BY <2>2, <3>1, <3>2 DEF Http!Exchange!Answered, Http!PerRequest
  <2>3. CASE httpServer # "server"
    <3>1. o[i] = i
      BY <2>1, <2>3
    <3>2. (i + 1 - 1) \div 1 = i
      BY <2>1
    <3> QED BY <2>3, <3>1, <3>2 DEF Http!Exchange!Answered, Http!PerRequest
  <2> QED BY <2>2, <2>3
<1>4. \A i \in 1 .. w : SubSeq(o, 1, w)[i] = Http!Exchange!Answered(i)
  BY <1>2, <1>3
<1> DEFINE s == SubSeq(o, 1, w)
<1>5. s \in [1 .. w -> Nat]
  <2>1. s \in Seq(Nat) /\ Len(s) = w
    BY <1>2
  <2> HIDE DEF s
  <2>2. s \in [1 .. Len(s) -> Nat]
    BY <2>1, LenProperties
  <2> QED BY <2>1, <2>2
<1> HIDE DEF s
<1>6. s = [i \in 1 .. w |-> s[i]]
  BY <1>5
<1>7. [i \in 1 .. w |-> s[i]] = [i \in 1 .. w |-> Http!Exchange!Answered(i)]
  BY <1>4 DEF s
<1> QED BY <1>2, <1>6, <1>7 DEF s

\* Some responses more, and one part more or none, of a connection that stays:
\* a step of the exchange.
LEMMA Proceeds ==
    ASSUME HttpInv, HttpInv', httpChannel = "open", httpChannel' = "open",
           httpServer' = httpServer, httpWritten <= httpWritten',
           \/ Begun' = Begun /\ Complete' = Complete
           \/ Begun = Complete /\ Begun' = Begun + 1 /\ Complete' = Complete
           \/ Begun > Complete /\ Begun' = Begun /\ Complete' = Complete + 1
    PROVE  Http!Exchange!Next
<1>1. /\ httpServer \in {"server", "server2"}
      /\ httpOut \in Seq(Nat) /\ httpWritten \in 0 .. Len(httpOut)
      /\ \A i \in 1 .. Len(httpOut) :
             httpOut[i] = IF httpServer = "server" THEN (i + 1) \div 2 ELSE i
  BY DEF HttpInv, Types, ResponsesInv
<1>2. /\ httpOut' \in Seq(Nat) /\ httpWritten' \in 0 .. Len(httpOut')
      /\ \A i \in 1 .. Len(httpOut') :
             httpOut'[i] = IF httpServer = "server" THEN (i + 1) \div 2 ELSE i
      /\ Len(httpOut') = IF httpServer = "server" THEN Begun' + Complete' ELSE Complete'
  BY DEF HttpInv, Types, ResponsesInv
<1>3. Len(SubSeq(httpOut, 1, httpWritten)) = httpWritten
  BY <1>1, AnswersAre
<1>4. SubSeq(httpOut', 1, httpWritten') = [i \in 1 .. httpWritten' |-> Http!Exchange!Answered(i)]
  BY <1>1, <1>2, AnswersAre
<1>5. Http!Exchange!Due' = Len(httpOut')
  BY <1>1, <1>2 DEF Http!Exchange!Due, Http!PerRequest, Begun, Complete
<1>6. httpWritten' \in Len(SubSeq(httpOut, 1, httpWritten)) .. Http!Exchange!Due'
  BY <1>1, <1>2, <1>3, <1>5
<1>7. \E k \in Len(SubSeq(httpOut, 1, httpWritten)) .. Http!Exchange!Due' :
          SubSeq(httpOut', 1, httpWritten') = [i \in 1 .. k |-> Http!Exchange!Answered(i)]
  BY <1>4, <1>6
<1>8. \/ Http!Exchange!Begin \/ Http!Exchange!Complete
      \/ Begun' = Begun /\ Complete' = Complete
  BY DEF Http!Exchange!Begin, Http!Exchange!Complete, Begun, Complete
<1>9. Http!Exchange!Proceed
  BY <1>7, <1>8 DEF Http!Exchange!Proceed, Http!PerRequest, Begun, Complete
<1> QED BY <1>9 DEF Http!Exchange!Next

\* The connection ends, whatever is left unanswered.
LEMMA Breaks ==
    ASSUME httpChannel' = "closed", httpServer' = httpServer, Begun' = Begun,
           Complete' = Complete, httpOut' = httpOut, httpWritten' = httpWritten
    PROVE  Http!Exchange!Next
BY DEF Http!Exchange!Next, Http!Exchange!Break, Http!PerRequest, Begun, Complete

LEMMA HttpStep ==
    ASSUME HttpInv, HttpInv', [Http!Next]_(Http!vars)
    PROVE  [Http!Exchange!Next]_(Http!Exchange!vars)
<1>1. Types /\ StreamInv /\ PlaceInv
  BY DEF HttpInv
<1>2. CASE Http!Ask \/ Http!Read \/ UNCHANGED Http!vars
  <2>1. /\ httpServer' = httpServer /\ handled' = handled /\ httpOut' = httpOut
        /\ httpWritten' = httpWritten /\ httpChannel' = httpChannel
    BY <1>2 DEF Http!Ask, Http!Read, Http!vars
  <2>2. \A i \in 1 .. handled : stream'[i] = stream[i]
    <3>1. CASE Http!Ask
      <4>1. PICK k \in Contents : stream' = stream \o Http!PartsOf(asked', k)
        BY <3>1 DEF Http!Ask
      <4>2. k \in Nat /\ asked' = asked + 1
        BY <3>1, ProgramsAssumption DEF Http!HttpAssumption, Http!Ask
      <4>3. \A i \in DOMAIN stream : stream'[i] = stream[i]
        BY <1>1, <4>1, <4>2, StreamAsk
      <4> QED BY <1>1, <4>3 DEF Types
    <3>2. CASE Http!Read \/ UNCHANGED Http!vars
      BY <3>2 DEF Http!Read, Http!vars
    <3> QED BY <1>2, <3>1, <3>2
  <2>3. Begun' = Begun /\ Complete' = Complete
    BY <1>1, <2>1, <2>2, PlaceSame
  <2> QED BY <2>1, <2>3 DEF Http!Exchange!vars, Http!PerRequest, Begun, Complete
<1>3. CASE Http!Drain \/ Http!Gone
  <2>1. /\ httpServer' = httpServer /\ handled' = handled /\ httpOut' = httpOut
        /\ stream' = stream
    BY <1>3 DEF Http!Drain, Http!Gone
  <2>2. Begun' = Begun /\ Complete' = Complete
    BY <1>1, <2>1, PlaceSame
  <2>3. CASE Http!Drain
    <3>1. httpWritten \in Nat /\ httpWritten' \in httpWritten + 1 .. Len(httpOut)
      BY <1>1, <2>3 DEF Http!Drain, Types
    <3>2. httpWritten <= httpWritten'
      BY <3>1
    <3>3. httpChannel = "open" /\ httpChannel' = "open"
      BY <2>3 DEF Http!Drain
    <3> QED BY <2>1, <2>2, <3>2, <3>3, Proceeds
  <2>4. CASE Http!Gone
    <3>1. httpChannel' = "closed" /\ httpWritten' = httpWritten
      BY <2>4 DEF Http!Gone
    <3> QED BY <2>1, <2>2, <3>1, Breaks
  <2> QED BY <1>3, <2>3, <2>4
<1>4. CASE Http!Handle
  <2> DEFINE p == Http!NextPart
  <2>1. /\ handled < httpTaken /\ handled' = handled + 1
        /\ httpServer' = httpServer /\ stream' = stream /\ httpChannel = "open"
    BY <1>1, <1>4 DEF Http!Handle, Http!Serve, Http!CastFails, Http!Join, Http!ServeFull,
        Http!Handles, Http!Idle, Types
  <2>2. /\ Begun' = IF p.kind = "head" THEN Begun + 1 ELSE Begun
        /\ Complete' = IF p.kind = "last" THEN Complete + 1 ELSE Complete
    BY <1>1, <2>1, PlaceAfter
  <2>3. /\ Begun \in Nat /\ Complete \in Nat
        /\ p.kind = "head" => Begun = Complete
        /\ p.kind # "head" => Begun = Complete + 1
    BY <1>1, <2>1, NextPartIs
  <2> HIDE DEF p
  <2>4. \/ Begun' = Begun /\ Complete' = Complete
        \/ Begun = Complete /\ Begun' = Begun + 1 /\ Complete' = Complete
        \/ Begun > Complete /\ Begun' = Begun /\ Complete' = Complete + 1
    BY <2>2, <2>3
  <2>5. CASE Http!CastFails
    <3>1. /\ httpChannel' = "closed" /\ httpOut' = httpOut /\ httpWritten' = httpWritten
          /\ p.kind = "content"
      BY <2>5 DEF Http!CastFails, Http!Handles, p
    <3> QED BY <2>1, <2>2, <3>1, Breaks
  <2>6. CASE Http!Serve \/ Http!ServeFull \/ Http!Join
    <3>1. httpChannel' = "open"
      BY <2>1, <2>6 DEF Http!Serve, Http!ServeFull, Http!Join, Http!Respond
    <3>2. httpWritten \in Nat /\ Len(httpOut) \in Nat
      BY <1>1 DEF Types
    <3>3. httpWritten <= httpWritten'
      BY <2>6, <3>2 DEF Http!Serve, Http!ServeFull, Http!Join, Http!Respond
    <3> QED BY <2>1, <2>4, <3>1, <3>3, Proceeds
  <2> QED BY <1>4, <2>5, <2>6 DEF Http!Handle
<1> QED BY <1>2, <1>3, <1>4 DEF Http!Next

\* Each server answers the requests in their order: one response per request
\* when it is complete, or one on its head and one on its end.
THEOREM ExchangeImplemented == Http!Spec => ImplementsExchange
<1>1. ASSUME Http!Init
      PROVE  Http!Exchange!Init
  <2>1. /\ httpServer \in {"server", "server2"} /\ handled = 0
        /\ httpOut = <<>> /\ httpWritten = 0 /\ httpChannel = "open"
    BY <1>1 DEF Http!Init
  <2>2. Begun = 0 /\ Complete = 0
    BY <2>1, CountIs, CountNone DEF Begun, Complete
  <2>3. SubSeq(httpOut, 1, httpWritten) = <<>>
    BY <2>1, SubSeqEmpty
  <2> QED BY <2>1, <2>2, <2>3 DEF Http!Exchange!Init, Http!PerRequest, Begun, Complete
<1>2. Http!Spec => []HttpInv
  BY HttpInit, HttpNext, PTL DEF Http!Spec
<1> QED BY <1>1, <1>2, HttpStep, PTL
    DEF Http!Spec, ImplementsExchange, Http!ImplementsExchange, Http!Exchange!Spec
==============================================================================
