-------------------------- MODULE MCMessageDecoder --------------------------
(* The sizes of the programs: a header is 45 bytes, a request of echo-client2 *)
(* has 53 bytes of text, a reply of echo-server2 34; see EchoMessage.         *)
EXTENDS MessageDecoder

\* The tag, encode, encrypt and extend1 are 1, and so is the last byte of the
\* command; the session id is printable and the lengths are not 1.
MCTagOffsets == {0, 1, 2, 3, 44}
MCBodies     == {53, 34}
=============================================================================
