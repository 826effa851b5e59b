--------------------------- MODULE MessageDecoder ---------------------------
(***************************************************************************)
(* One direction of an echo connection: MessageEncoder at the sending end, *)
(* the socket, which may cut the bytes into reads anywhere, and            *)
(* MessageDecoder with the ByteToMessageDecoder it extends at the other.   *)
(*                                                                         *)
(* Bytes are numbered 1, 2, 3, ... as they are sent.  A message is named   *)
(* by the number of bytes before it (at), the length its header announces  *)
(* and the length of its body.                                             *)
(***************************************************************************)
EXTENDS Integers, Sequences

CONSTANTS
    HEAD_LENGHT,  \* bytes of a header: the tag first, the command last
    TagOffsets,   \* the header bytes that hold the value of PACKAGE_TAG
    Bodies,       \* lengths of the bodies the sender sends
    MaxMessages   \* bound: messages sent

ASSUME HeadAssumption ==
    /\ HEAD_LENGHT \in Nat \ {0}
    /\ TagOffsets \subseteq 0 .. HEAD_LENGHT - 1
    /\ 0 \in TagOffsets
ASSUME BodyAssumption == Bodies \subseteq Nat /\ MaxMessages \in Nat

VARIABLES
    frames,    \* the messages encoded so far
    taken,     \* bytes read from the socket: the writer index of the buffer
    pos,       \* bytes consumed by the decoder: its reader index
    got,       \* the messages passed on to the next handler
    channel    \* the receiving end: open, failed (being closed), closed

vars == <<frames, taken, pos, got, channel>>

Message == [at : Nat, length : Nat, body : Nat]

End(m) == m.at + HEAD_LENGHT + m.body

\* How many bytes the messages of fs take.
Total(fs) == IF fs = <<>> THEN 0 ELSE End(fs[Len(fs)])

\* Whether the byte after the first p is a PACKAGE_TAG.  Only header bytes
\* are: every body the programs send is printable text.
TagAt(p) == \E k \in DOMAIN frames : p - frames[k].at \in TagOffsets

\* The length field of the header that begins there.
LengthAt(p) == frames[CHOOSE k \in DOMAIN frames : frames[k].at = p].length

-----------------------------------------------------------------------------
Init ==
    /\ frames = <<>>
    /\ taken = 0
    /\ pos = 0
    /\ got = <<>>
    /\ channel = "open"

\* Faulty: the length is counted without the last byte.
EncodeShort(b) ==
    frames' = Append(frames, [at |-> Total(frames), length |-> b - 1, body |-> b])

\* MessageEncoder: a header with the length its message was given, which is
\* that of the body, and the body.
Encode(b) ==
    frames' = Append(frames, [at |-> Total(frames), length |-> b, body |-> b])

Send ==
    /\ Len(frames) < MaxMessages
    /\ \E b \in Bodies : Encode(b)
    /\ UNCHANGED <<taken, pos, got, channel>>

\* The loop of callDecode runs until the buffer is empty or decode throws, so
\* an open channel reads again only when everything was decoded.
Read ==
    /\ channel = "open"
    /\ pos = taken
    /\ taken' \in taken + 1 .. Total(frames)
    /\ UNCHANGED <<frames, pos, got, channel>>

-----------------------------------------------------------------------------
(* decode, called while the buffer holds a byte: by a read, and once more    *)
(* for what is left when the channel closes.                                 *)

Readable == taken - pos
Decoding == channel # "closed" /\ Readable > 0

\* decode throws: exceptionCaught of the next handler closes the channel; the
\* call made by the closing is the last.
Throw ==
    /\ channel' = IF channel = "open" THEN "failed" ELSE "closed"
    /\ UNCHANGED <<frames, taken, got>>

\* Fewer bytes than a header has: nothing is consumed.
TooShort ==
    /\ Decoding
    /\ Readable < HEAD_LENGHT
    /\ Throw
    /\ UNCHANGED pos

\* The first byte is consumed, and is not the tag.
WrongTag ==
    /\ Decoding
    /\ Readable >= HEAD_LENGHT
    /\ ~TagAt(pos)
    /\ Throw
    /\ pos' = pos + 1

HeaderRead == Decoding /\ Readable >= HEAD_LENGHT /\ TagAt(pos)

\* Faulty: the body is whatever has come.
ShortBodyTruncates ==
    /\ HeaderRead
    /\ Readable - HEAD_LENGHT < LengthAt(pos)
    /\ got' = Append(got, [at |-> pos, length |-> LengthAt(pos),
                           body |-> Readable - HEAD_LENGHT])
    /\ pos' = taken
    /\ UNCHANGED <<frames, taken, channel>>

\* The header is consumed, then reading the body throws.
ShortBody ==
    /\ HeaderRead
    /\ Readable - HEAD_LENGHT < LengthAt(pos)
    /\ Throw
    /\ pos' = pos + HEAD_LENGHT

\* The message, whose body has the length read from the header.
Passed == got' = Append(got, [at |-> pos, length |-> LengthAt(pos),
                              body |-> LengthAt(pos)])

Whole ==
    /\ HeaderRead
    /\ Readable - HEAD_LENGHT >= LengthAt(pos)
    /\ Passed
    /\ pos' = pos + HEAD_LENGHT + LengthAt(pos)
    /\ UNCHANGED <<frames, taken, channel>>

Decode == TooShort \/ WrongTag \/ ShortBody \/ Whole

\* channelInactive with nothing left in the buffer.
Inactive ==
    /\ channel = "failed"
    /\ Readable = 0
    /\ channel' = "closed"
    /\ UNCHANGED <<frames, taken, pos, got>>

\* The sending end closes the connection, or it breaks: bytes that were not
\* read may be lost.
Hangup ==
    /\ channel = "open"
    /\ pos = taken
    /\ channel' = "closed"
    /\ UNCHANGED <<frames, taken, pos, got>>

Next == Send \/ Read \/ Decode \/ Inactive \/ Hangup

Spec == Init /\ [][Next]_vars

\* The event loop reads what has come and goes on with what it began.
FairSpec == Spec /\ WF_vars(Read) /\ WF_vars(Decode) /\ WF_vars(Inactive)

-----------------------------------------------------------------------------
(* Properties *)

\* Every variable keeps its type, and the decoder reads what has come, of what
\* was sent.
TypeOK ==
    /\ frames \in Seq(Message)
    /\ taken \in Nat
    /\ pos \in Nat
    /\ pos <= taken /\ taken <= Total(frames)
    /\ got \in Seq(Message)
    /\ channel \in {"open", "failed", "closed"}

\* The bytes at which no message is cut.
Boundaries == {0} \cup {End(frames[k]) : k \in DOMAIN frames}

\* Bytes of the peer make the decoder fail only if a read ended inside a
\* message: never because of what an earlier message contained.
FailsOnlyOnSplit == channel = "failed" => taken \notin Boundaries

\* Messages arrive whole and in order, and nothing that is decoded from the
\* bytes left when the channel closes ever passes for a message.
Stream == INSTANCE MessageStream WITH
              Messages <- Message, sent <- frames, arrived <- got,
              broken <- (channel # "open")
ImplementsStream == Stream!Spec

\* What the comments promise: bytes are turned into objects although a
\* message may come in several reads; so every message sent does arrive, if
\* the connection does not break.
EveryMessageArrives ==
    \A k \in 1 .. MaxMessages :
        Len(frames) >= k ~> Len(got) >= k \/ (channel = "closed" /\ taken \in Boundaries)

(* The inductive invariant behind these properties. *)

\* The messages lie one behind the other; a header announces its own body.
Layout ==
    \A k \in DOMAIN frames :
        /\ frames[k].length = frames[k].body
        /\ frames[k].at = IF k = 1 THEN 0 ELSE End(frames[k - 1])
        /\ End(frames[k]) <= Total(frames)
        /\ \A j \in 1 .. k - 1 : End(frames[j]) <= frames[k].at

\* What was passed on is the beginning of what was sent.
Prefix ==
    /\ Len(got) <= Len(frames)
    /\ \A k \in DOMAIN got : got[k] = frames[k]

\* The end of the last message passed on.
EndOfGot == IF Len(got) = 0 THEN 0 ELSE End(frames[Len(got)])

\* While the channel is open the decoder stands where a message begins.
InSync == channel = "open" => pos = EndOfGot

\* When it has failed, the reads so far end inside the next message, and what
\* is left in the buffer is the beginning of its header or a part of its body.
CutInside ==
    channel = "failed" =>
        /\ Len(got) + 1 \in DOMAIN frames
        /\ LET f == frames[Len(got) + 1]
           IN  /\ f.at < taken /\ taken < End(f)
               /\ \/ pos = f.at /\ taken - pos < HEAD_LENGHT
                  \/ pos = f.at + HEAD_LENGHT

\* The decoder never loses its place: it is at the beginning of a message, or
\* it has failed in a message that a read has cut.
DecoderInv == Layout /\ Prefix /\ InSync /\ CutInside
=============================================================================
