----------------------------- MODULE HttpServer -----------------------------
(***************************************************************************)
(* The two http servers of netty-api-practice: one connection, on which a  *)
(* client may send requests without waiting for responses.  The decoder    *)
(* makes parts of a request: its head, contents, and a last content.  The  *)
(* handler of server gets each of them; in server2 an aggregator stands    *)
(* before the handler and joins them.                                      *)
(***************************************************************************)
EXTENDS Naturals, Sequences, FiniteSets

CONSTANTS
    Contents,     \* how many contents a request may have before the last one
    MaxRequests   \* bound: requests the client sends

HttpAssumption == Contents \subseteq Nat /\ MaxRequests \in Nat

VARIABLES
    server,    \* which of the two servers: server, server2
    asked,     \* requests the client has sent
    stream,    \* the parts the decoder makes of them
    taken,     \* parts that have been read
    handled,   \* parts that have gone through the pipeline
    out,       \* per response written and flushed: the request it answers
    written,   \* responses in the socket
    channel    \* open, closed

vars == <<server, asked, stream, taken, handled, out, written, channel>>

Part == [of : Nat, kind : {"head", "content", "last"}]

\* The parts of the n-th request, with k contents before the last.
PartsOf(n, k) ==
    [i \in 1 .. k + 2 |-> [of |-> n, kind |-> IF i = 1 THEN "head"
                                              ELSE IF i = k + 2 THEN "last"
                                              ELSE "content"]]

Init ==
    /\ server \in {"server", "server2"}
    /\ asked = 0 /\ stream = <<>>
    /\ taken = 0 /\ handled = 0
    /\ out = <<>> /\ written = 0
    /\ channel = "open"

-----------------------------------------------------------------------------
(* The client and the socket. *)

Ask ==
    /\ asked < MaxRequests
    /\ asked' = asked + 1
    /\ \E k \in Contents : stream' = stream \o PartsOf(asked', k)
    /\ UNCHANGED <<server, taken, handled, out, written, channel>>

Idle == handled = taken

Read ==
    /\ channel = "open" /\ Idle
    /\ taken' \in taken + 1 .. Len(stream)
    /\ UNCHANGED <<server, asked, stream, handled, out, written, channel>>

\* The socket is writable again and takes more of what was flushed.
Drain ==
    /\ channel = "open" /\ Idle
    /\ written' \in written + 1 .. Len(out)
    /\ UNCHANGED <<server, asked, stream, taken, handled, out, channel>>

\* The client disconnects, or the connection breaks.
Gone ==
    /\ channel = "open" /\ Idle
    /\ channel' = "closed"
    /\ UNCHANGED <<server, asked, stream, taken, handled, out, written>>

-----------------------------------------------------------------------------
(* The pipelines, for the next part of a read. *)

NextPart == stream[handled + 1]

Handles(s, kinds) ==
    /\ channel = "open" /\ ~Idle
    /\ server = s
    /\ NextPart.kind \in kinds
    /\ handled' = handled + 1
    /\ UNCHANGED <<server, asked, stream, taken>>

\* The response is written and flushed; the socket takes some of what waits.
Respond ==
    /\ out' = Append(out, NextPart.of)
    /\ written' \in written .. Len(out')
    /\ UNCHANGED channel

\* Faulty: every content is answered, the last or not.
ServeContents == Handles("server", {"head", "content", "last"}) /\ Respond

\* Faulty: only what is no content is answered.
ServeHeads ==
    \/ Handles("server", {"head"}) /\ Respond
    \/ Handles("server", {"last"}) /\ UNCHANGED <<out, written, channel>>

\* The handler of server answers the head and the last content.
Serve == Handles("server", {"head", "last"}) /\ Respond

\* The cast of any other content fails, and exceptionCaught closes: what else
\* the read brought can no longer be answered.
CastFails ==
    /\ Handles("server", {"content"})
    /\ channel' = "closed"
    /\ UNCHANGED <<out, written>>

\* The aggregator of server2 keeps the parts of an unfinished request.
Join == Handles("server2", {"head", "content"}) /\ UNCHANGED <<out, written, channel>>

\* With the last part it passes the whole request to the handler.
ServeFull == Handles("server2", {"last"}) /\ Respond

Handle == Serve \/ CastFails \/ Join \/ ServeFull

Next == Ask \/ Read \/ Drain \/ Gone \/ Handle

Spec == Init /\ [][Next]_vars

\* The event loop finishes a read and returns to the socket; the client takes
\* its responses.  Nobody need send anything.
FairSpec == Spec /\ WF_vars(Handle) /\ WF_vars(Read) /\ SF_vars(Drain)

-----------------------------------------------------------------------------
(* Properties *)

PerRequest == IF server = "server" THEN 2 ELSE 1

\* How many parts of that kind have gone through the pipeline.
HandledOf(kind) == Cardinality({i \in 1 .. handled : stream[i].kind = kind})

\* server2 gives each request one response in its turn, and not before the
\* request is complete; server gives each of them two, the first on its head.
\* Neither depends on how requests are pipelined or cut into parts.
Exchange == INSTANCE HttpExchange WITH
                perRequest <- PerRequest,
                begun <- HandledOf("head"), complete <- HandledOf("last"),
                answers <- SubSeq(out, 1, written), broken <- (channel = "closed")
ImplementsExchange == Exchange!Spec

\* All responses to a request that was read to its end reach the client,
\* unless the connection ends.
EveryRequestServed ==
    \A k \in 1 .. MaxRequests :
        HandledOf("last") >= k ~> written >= PerRequest * k \/ channel = "closed"
=============================================================================
