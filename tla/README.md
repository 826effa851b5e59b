# netty-study: TLA+ models, TLC runs and TLAPS proofs

netty-study is a set of small Netty 4 programs and the web page of one of them.
Each program has its own concurrency or framing problem: a chat server whose event
loops share a channel group, a hand-written message codec over a byte stream, echo
programs with heartbeats, a subscription service over two serialisation codecs, two
http servers, three exercise handlers. The page is the chat client. It is 40 lines
of script on top of jQuery 3.4.1, which the repository carries and serves with the
page: nearly all the JavaScript that runs in the client is jQuery's, and all that is
asynchronous about it (callback lists, promises, events, queues, requests) is there.
This directory models these programs and the parts of jQuery that keep state, checks
the models with TLC on small instances and proves the central results for every
instance with TLAPS.

Netty, the browser and the JavaScript engine are not in the repository. What they do
for the code (when `decode` is called, when a flush reaches the socket, how a channel
group iterates, that a script runs to completion) is modelled from how the code uses
it, and marked external in `PROJECT.json`.

## Inventory

| Component | State | Operations | Interacts with |
|---|---|---|---|
| **chat server** (`webscoket-study`) | `NettyConfig.group`, one handler and handshaker per channel, per-channel outbound buffer, per-loop task queue | `channelActive`, `channelRead0` (`handleHttpRequest`, `handleWebSocketFrame`), `channelReadComplete`, `exceptionCaught`, `group.writeAndFlush` | browser clients; the loops meet in the group and in each other's task queues |
| **message codec** (`echo-common`) | `ByteToMessageDecoder`'s cumulation | `MessageEncoder.encode`, `MessageDecoder.decode` | both ends of echo-client2/echo-server2 |
| **echo-client2 / echo-server2** | one channel at each end | request when active, reply per request, `exceptionCaught` | each other, over the codec |
| **echo-client / echo-server** | idle timer, written and flushed echoes | greeting, heartbeat, echo, flush at `channelReadComplete` | each other, over plain bytes |
| **subscription service** (`seria-jboss-*`, `seria-protobuf-*`) | idle timer, requests and responses under way | ten orders when active, a response to each, heartbeats | each other, over a library codec |
| **junit-channel handlers** | cumulation | `decode`, `encode` | the tests' `EmbeddedChannel` |
| **http servers** (`netty-api-practice`) | the aggregator's unfinished request, responses under way | a response to every object the decoder or the aggregator passes on | http clients that may pipeline |
| **chat page** (`pages/index.html`) | the WebSocket, the text area | the ready function, `onopen`, `onmessage`, `onclose`, a click that sends | the chat server; jQuery |
| **jQuery.Callbacks** | list, memory, queue of executions, `firingIndex` | add, remove, empty, disable, lock, fire | its own callbacks, which call its methods |
| **jQuery.Deferred, then, when** | six callback lists, state, `maxDepth` | resolve, reject, notify, done, fail, then | user handlers and foreign thenables, by timers |
| **readiness** | `readyWait`, `isReady`, the list of functions | `jQuery( fn )`, `holdReady`, `ready` | the document's two events |
| **events** | handlers of an element, `delegateCount`, the saved event of a leveraged click | on, one, off, trigger, dispatch | native events of the browser |
| **queues and effects** | the `fx` queue and its hooks, `jQuery.timers`, timeouts | animate, delay, stop, finish, clearQueue, promise | animation frames; callbacks of the animations |
| **ajax** | `jQuery.active`, the timer and transport of each request, jsonp callback names, converters | request, answer, abort, timeout, conversion | the network; callbacks of the requests |
| **manipulation** | nodes, their data and listeners, `globalEval` marks | insert, replace, detach, remove, empty, clone | scripts that are evaluated by it |
| **selector matching** | `dirruns`, results kept on elements | match an element | a page that changes between two calls |
| `WebsocketConvertHandler` | none (reference counts of payloads) | `encode`, `decode` | unused in the repository |
| bootstraps | event loop groups, server channel | bind, accept, wait, shutdown | |
| the rest | generated code, library factories, empty handlers, assets | | not modelled, see the end |

What is hard about them, and the properties that make them correct:

* **Two event loops, one group.** A text read on one loop is written directly
  to the channels of that loop and through a task queue to the others, while
  channels join and leave under the iteration. Correct: no listener hears a
  speaker's texts out of order or twice, none in between is skipped, and every
  listener that stays hears the text at last.
* **Partial writes.** The socket takes a part of what was flushed and the
  channel closes only when the last response is out. Correct: nothing is
  accepted after the frame that ends the connection; nothing accepted in a read
  cycle is left unflushed.
* **Byte streams.** A read may end at any byte. Correct: what is decoded is a
  prefix of what was sent, whole; a fixed-length decoder's frames do not depend
  on the cuts. `MessageDecoder` does depend on them, see below.
* **Failure at one end.** Correct: a reply means a served request, and an
  exchange that fails ends at both ends.
* **Timers.** Correct: a peer that died without a word is noticed through a
  heartbeat; heartbeats do not disturb the orders they travel among.
* **Callbacks that alter what calls them** (jQuery). JavaScript has one thread, but
  every callback may call back: add to the list that fires, remove handlers from the
  event being dispatched, stop the queue from inside a stop, abort a request from its
  own error handler, move nodes from a script that is being inserted. Correct: nobody
  is skipped, called twice or called out of turn.
* **Settling once** (jQuery). An answer, an abort and a timeout race; a thenable calls
  what it was given as often as it likes. Correct: one outcome, told once to everyone
  who waits, whether they began to wait before it or after.
* **What is kept and may be stale** (jQuery). Results of matchers, names of jsonp
  callbacks, the flag that an element's click is leveraged, the handle that a clone
  copies. Correct: what was kept of an earlier state is never taken for this one.

## Modules

| Module | Models | Kind |
|---|---|---|
| `ChatServer` | `MyWebSocketHandler`, `NettyConfig`, the work group's loops | specification |
| `SenderFifo` | what the broadcast promises: each listener hears increasing texts of each speaker | abstract |
| `MCChatServer` | instances of `ChatServer` | TLC |
| `ChatServerProofs` | types, order invariant, `SenderOrder`; complete deliveries, `NoneSkipped`, refinement of `SenderFifo`; `NothingStranded`, `NothingAfterClose` | proofs |
| `MessageDecoder` | `MessageEncoder`, the byte stream, `MessageDecoder` | specification |
| `MessageStream` | messages arrive whole and in order, or the stream breaks | abstract |
| `MCMessageDecoder` | the programs' real sizes | TLC |
| `MessageDecoderProofs` | inductive invariant, failure only on a cut, refinement of `MessageStream` | proofs |
| `EchoMessage` | echo-client2 and echo-server2: two instances of `MessageDecoder` that share each end's channel | composition |
| `EchoHeartbeat` | echo-client and echo-server | specification |
| `Subscribe` | the four `seria-*` programs | specification |
| `HttpServer` | the servers of `netty-api-practice`: `server` and `server2` | specification |
| `HttpExchange` | responses in the order of the requests, one or two to each | abstract |
| `MCNetty` | instances of the codec and of the four programs above | TLC |
| `NettyProofs` | `ReplyMeansServed`, `Conversation`, refinement of `HttpExchange` | proofs |
| `FixLengthFrameDecoder`, `FrameChunkDecoder`, `AbsIntegerEncoder` | the classes of these names | specification |
| `MCJunitChannel` | an `EmbeddedChannel` with one of the three | TLC |
| `JunitChannelProofs` | tiling, frames counted, reads are frames, every integer leaves | proofs |
| `Callbacks` | the closure of `jQuery.Callbacks`, as operators on a record | operators |
| `CallbackList` | one such list and the code that uses it | specification |
| `Subscribers` | who hears an execution, without indexes | abstract |
| `Deferred` | `jQuery.Deferred`: six lists of `Callbacks` | composition |
| `Settlement` | one outcome, told once and in order | abstract |
| `Then` | `promise.then()` and `jQuery.when` over several deferreds | specification |
| `PromisesAPlus` | a promise follows what it was first resolved to | abstract |
| `MCPromises` | instances of these three | TLC |
| `PromisesProofs` | refinements of `PromisesAPlus` and `Subscribers` | proofs |
| `EventHandlers` | `jQuery.event` and the leveraged click of a checkbox | specification |
| `EventHandlersProofs` | `StateFirst`, `HeardOnce` and their invariant | proofs |
| `Manipulation` | `domManip`, clone with events, `cleanData`, script evaluation | specification |
| `Conversion` | `ajaxHandleResponses` and `ajaxConvert` | specification |
| `DocumentParts` | the three before it, side by side | composition |
| `Matching` | Sizzle's compiled matchers and their caches | specification |
| `MCDocument` | instances of `DocumentParts` and `Matching` | TLC |
| `DocumentProofs` | `ListenersAsGiven`, `GivesWhatWasAsked` and their invariants | proofs |
| `Effects` | the `fx` queue, delays, timers and frames | specification |
| `Ajax` | requests by XMLHttpRequest and by jsonp | specification |
| `Page` | readiness, and the chat page's own script | specification |
| `MCActivity` | instances of these three | TLC |
| `ActivityProofs` | `ReadyOnce` and the counter behind it; `OneAtATime`; `ToldOnce`, `ActiveCounts`, `OwnAnswer` | proofs |

`MCNetty`, `MCPromises`, `MCDocument` and `MCActivity` check several systems that do
not interact in one run: a variable says which of them takes steps, and the variables
of the others keep an initial state. Each property is the module's own; fairness is
stated of the actions of the system that runs. In `MCNetty` actions of different
programs share a fairness formula, which is the same as one formula for each, because
only one of the programs ever takes a step.

Operators whose comment begins with "Faulty:" are variants of the operator that
follows them, each with a mistake a programmer might make. No specification uses
them; the list of mutants in `PROJECT.json` pairs each property with one that
breaks it.

### ChatServer

A channel is the sequence of everything its pipeline accepted (`out`) with two
cursors, how much is flushed and how much the socket took. `LoopOf` binds it to
an event loop for life, as netty does. A loop is idle or in the read cycle of
one channel (`reading`): it handles the decoded messages of the read (`batch`)
one by one, then `ReadComplete` flushes. Accepting, reading, draining a writable
socket and running a task of the queue happen only between read cycles.

| Action | Code in `MyWebSocketHandler` |
|---|---|
| `Accept` | `channelActive`: `group.add`. The channel has not upgraded yet |
| `BadRequest`, `OldVersion`, `Handshake` | `handleHttpRequest` and `sendHttpResponse`: 400 and close, 426, 101 |
| `CloseFrame`, `Ping`, `Binary` | the three tests of `handleWebSocketFrame`; the first has no `return` |
| `ExceptionCaught` | `exceptionCaught`: close |
| `StartCast`, `CastTo`, `EndCast` | `group.writeAndFlush`, one step per channel the iterator returns |
| `RunTask` | a write task that another loop submitted |
| `ReadComplete` | `channelReadComplete` |
| `PeerGone` | `channelInactive` after a disconnect or a read error |

The group is a concurrent map: its iterator returns each channel at most once
and may or may not return one that joins or leaves meanwhile. A channel leaves
the group when it closes. A channel that has not upgraded has no encoder for
frames and fails a text (`Accepts`); the handshake adds the encoder before the 101
response leaves, so a text is accepted from then on, behind that response. A flush hands any part of the buffer to the
socket, or fails and closes the channel; if the response or frame that ends the
connection is among what the socket took, the channel closes. What the server itself
writes (responses, pongs, close frames) is from `NoOne`, and `SenderFifo` is about the
texts among what the socket took (`HeardBy`).

### MessageDecoder and EchoMessage

Bytes are numbers 1, 2, 3, ... . A message is its place in the stream, the length
its header announces and the length of its body; no byte is represented. That
is enough because the decoder looks at three things only: how much is readable,
whether the byte at its index is the tag, and the length field. Where tag bytes
can occur is the constant `TagOffsets`: in the real header the tag, `encode`,
`encrypt`, `extend1` and the low byte of `cammand` all have the value 1, and the
bodies are printable text.

`decode` is called as `ByteToMessageDecoder` calls it: in a loop while bytes are
left, and once more when the channel closes. Its four outcomes are the actions
`TooShort`, `WrongTag`, `ShortBody` and `Whole`. An exception leads to
`exceptionCaught` of the next handler, which closes the channel (`failed`), and
the close calls `decode` again for the rest. `EchoMessage` joins two directions:
the end that decodes one writes the other, and the channel of each end is shared.
The order of encoder and decoder in the pipelines of the two programs makes no
difference, since the handlers that write stand behind both.

### EchoHeartbeat and Subscribe

The idle timer counts ticks; a due timer fires before time goes on. In echo-client
the `IdleStateHandler` stands behind `ClientChannelReadHandler`, which passes
nothing on, so reads do not set the timer; in the subscription clients it comes
first and they do. Heartbeats wait in the channel while the socket is full.
A server may close, or be lost: its host dies, and nothing is acknowledged any
more, which the client's kernel finds out only if something was sent. The jboss
client's `ctx.fireChannelInactive()` at the end of `channelActive` reaches only
the tail of the pipeline and has no effect; the protobuf server's
`IdleStateHandler` fires events nobody handles. Both are left out.

### HttpServer

`HttpRequestDecoder` makes several objects of a request: its head, contents, and a
last content. The handler of `server` is given each of them and answers every one
(`Serve`), casting each content to `LastHttpContent`; for a content that is not the
last the cast fails and the connection is closed (`CastFails`). In `server2` an
aggregator joins the parts (`Join`) and the handler answers the whole request
(`ServeFull`). Which of the two servers it is, is chosen initially. `HttpExchange`
says what both amount to for a client: responses in the order of the requests, one
to each complete request, or two, the first of which comes for the head. A client
of `server` that pairs responses with requests one by one is therefore wrong from
its second request on.

### The junit-channel handlers

Each loop iteration of `decode` or `encode` is an action. For the two decoders
bytes are numbered and a frame is its first and last byte, so a lost, repeated or
moved byte shows. `AbsIntegerEncoder` computes in two's complement of `2 * Half`
values, where `Math.abs` of the smallest stays negative.

### Callbacks, Deferred and Then

`fire()` is two nested loops; callbacks run in the inner one and may call any method
of the list. `Callbacks` has one operator per stretch of code between two callbacks,
on a record with the closure's variables (`firingIndex` counts from 0 as in the code;
`spent` is `list = ""`). `CallbackList` adds the using code, which may call a method
whenever it has control, and `Subscribers` says what comes out without any index:
`ImplementsSubscribers` is what `firingIndex` and the arithmetic in `remove` are for.
After `empty()` in an execution nothing is promised to those who join that execution,
since the index is not set back; after an exception nothing is promised at all,
`firing` stays true.

`Deferred` has the six lists of the constructor, with its three internal callbacks in
front of the user's (`Fixed`). `fire()` of one list calls `fire()` of others, so there
is a stack of lists. What `then()` registers is told by a timer. `Then` takes a deferred
for what `Settlement` says of it and models `resolve( depth, ... )` with `maxDepth`,
`Identity`, `Thrower`, thenables that call what they were given at any time and as
often as they like, and `when`, whose masters are settled by `done` and `fail` of the
others. A chain of promises that is a cycle never settles, in the rules of Promises/A+
as in the code; jQuery rejects only the promise that its own handler returns.

### EventHandlers

A checkbox in a form. `stack` holds the calls: a `trigger` that walks the path, a
`dispatch` over a handler queue that was computed before the first handler runs, a
native click, user code. `trigger( "click" )` leads to the leveraging handler, which
stops the synthetic event, fires a native one (`Interrupt`), and inside that triggers
the synthetic one again (`Reinvoke`, `Reinvoked`): three passes over one list of
handlers, which any handler may alter. `HeardOnce` counts by registration.

### Effects

One element with its queue, `"inprogress"` at its head while something runs. Calls are
frames of `stack` again, because a callback of an animation runs inside a frame's
`tick`, inside `stop`, or inside `finish`, and may call all of them. `index` and `i` of
these loops are in the frame, as in the code, and the list they walk is shared.
`nested` and `forced` mark the calls after which the code keeps no promise: stop or
finish from inside a callback of a stop (the loop's index is stale, `StopThrows`), and
a delay cut short while an animation ends that is not in the queue.

`AnimateNow` is both kinds of animation that start at once. One with `queue: false` takes
hold of the hooks until the callbacks of its end have run (`unqueued`): meanwhile
`hooks.empty` does not fire, and it fires it itself if the queue is empty then (`Unqueue`).
One of nothing (`animate( {} )`) ends in the same call and, unless it is `queue: false`,
dequeues, as the complete of every animation does. If something is in progress the next
in the queue runs beside it: `animate( a ); animate( b ); animate( {} )` runs `b` with `a`.
The code does no different, so `hurried` marks it and `OneAtATime` excepts it.

### Ajax and Conversion

Calls are a sequence of `jobs`: a request goes through `ajaxSend`, `beforeSend`, its
transport, and `done()` through success or failure, the global events and `complete`;
user code may run between each two and start requests, abort any of them, return false
or throw. `Answer`, `Script` and `Timeout` come from outside at any time. A jsonp
script calls the function its name stands for when it comes, whoever installed it; or it
calls nothing (`silent`), and then the request fails unless a late script of another that
had the name before has left an answer for it. `OwnAnswer` says exactly that: the
request has its own answer, or its own script was silent and the answer is to an earlier
request of the same name. `Conversion` is what happens to the data inside an answer: the type chosen for the
response, then one converter after the other, or two over a type between.

### Manipulation and Matching

`Manipulation` has containers, one of them perhaps not in the document, and an element
with two scripts. `Insert` is `domManip` with one or two targets (the last gets the
original, the others clones), `Taken` is `buildFragment`, which marks scripts that were
in the document, and the scripts are evaluated one by one as user code at the end.
`Matching` runs a compiled selector of two or three parts over every tree of three
elements, right to left, with the results kept on the elements, changes the page, and
runs it again; `Satisfies` is what the selector means.

### Page

`DOMContentLoaded` and `load` both call `completed`, a document that was parsed before
jQuery came is found by a timer, and `holdReady` may be called from anywhere. Function
1 of `readyList` is the page's: it opens the WebSocket and binds the click. `shown`
is the text area, which `onclose` and `onopen` overwrite. No property is about the socket
and the text area alone: each of their handlers is a guard and an assignment. They are there
because they are what readiness leads to.

## Runs

| Run | Asks | Bounds |
|---|---|---|
| `chat_apart` | order, nothing skipped, stranded or accepted after the end, the implementation of `SenderFifo` | two clients on two loops, three messages each (request included), up to two frames per read: 900 000 states |
| `chat_live` | every listener hears | a speaker and a listener on two loops, fairness: 17 000 states |
| `netty` | the codec under all cuts, the exchange over it, echoes, orders and heartbeats, pipelined requests | three messages of the real sizes; sockets of two messages, three orders, three pending echoes; three requests of two to four parts: 28 600 states |
| `junit_channel` | the three handlers | thirty bytes in frames of three; ten bytes in chunks of at most three; integers of three bits: 68 000 states |
| `promises` | lists, a deferred and promises implement their abstract specifications; everyone is told | all sixteen sets of options and five calls; four calls of a deferred; two deferreds, two promises made of them and four calls: 737 000 states |
| `document` | clicks heard once, nodes and scripts, conversion, matching | four calls with two functions; three calls on at most eight nodes; every set of converters of three types; trees of three elements, matched twice: 2 580 000 states |
| `activity` | queue, requests, readiness | four calls of the effects; two requests; two functions, holds and messages: 887 000 states |
| `chat_only_binary` | violated: who raises the exception | as `chat_apart` |
| `chat_every_connected` | violated: whom a broadcast reaches | two clients on one loop |
| `decoder_every_message` | violated: a message in two reads | one message |
| `resolved_when_emptied` | violated: the promise of a queue that `finish` empties | three calls |
| `evaluated_on_first_insertion` | violated: scripts put into several targets | two calls |

Why the bounds are enough. *Chat*: an order between texts needs two texts after
the upgrade, hence three messages; a text that could overtake another needs one
direct and one queued way, hence two loops. A batch of two has a frame handled after a
close or binary frame and a pong beside a text. *Codec*: sizes are the real ones, so no
boundary is abstracted; three messages give a first, a middle and a last one, and a
read can span all three. *Heartbeat, Subscribe*: sockets of two messages fill while a
third waits, in both directions, and the bounds on waiting messages are reached
with the sockets full. *Handlers*: thirty bytes are ten frames of three, cut in
every way that matters (the decoder keeps at most two bytes between reads); three
bits have the asymmetric smallest integer. *Http*: three requests leave one before
and one behind a request whose body comes in two, three or four parts.

*Callback lists*: five calls are three to make a list with two members or one member
twice and fire it, and two from inside its callbacks. *Deferred*: two callbacks, a
settling and a call from inside one of them. *Then*: a promise of a promise, a thenable
and the deferred it follows. *Clicks*: two handlers, a trigger and a call from inside a
handler (trigger again, off, on), on both elements and with delegation. *Nodes*: an
insertion into two targets, a clone or a removal, and one more insertion or a call from
a script; eight nodes have room for a copy of the element with its scripts. *Types*:
three, so that there is one between two. *Matching*: three elements are a chain, three
siblings and all between; two runs are one before a change of the page and one after.
*Effects*: an animation, a delay behind it, a stop or finish and the promise; two
animations, one of nothing that hurries them, and one more. *Ajax*: two
requests, one of which is started, or aborted, by a callback of the other; three jsonp
and plain requests have been run by themselves with the same result. *Readiness*: two
functions, one added late; two holds that overlap and one release too many.

Larger values repeat these cases; the theorems below cover them for the parts they
speak about.

Deadlock checking is off in all runs: every system here may stop, when its
channels are closed or the bounded number of messages is used up. That nothing
stops too early is what the liveness properties are for.

### What the violation runs show

* `decoder_every_message`: `MessageDecoder` throws when a read holds only a part
  of a message (`MessageDecoder.java:25`, `:43`), although the rest is on its way,
  and the connection is closed. A message arrives only if no read ends inside it.
  The runs and proofs state exactly what does hold: it never delivers anything
  wrong, and it fails only then.
* `resolved_when_emptied`: the comment on `promise()` (`jquery-3.4.1.js:4454`) says it is
  resolved when the queue is emptied. After `delay`, `promise`, `finish` the queue is
  empty, the delay's timeout is gone, and with it the only call that would have fired
  `hooks.empty`: the promise stays pending, unless something is queued later.
* `evaluated_on_first_insertion`: executable scripts are evaluated "on first document
  insertion" (`jquery-3.4.1.js:5929`). Inserted into two containers of which the last
  is not in the document, copies of them are in the document and none was evaluated:
  only the original, in the last container, is looked at.
* `chat_only_binary`: the handler also throws after every close frame.
* `chat_every_connected`: "every connected client" means, in the code, every
  client that has upgraded.

Seen while modelling, without a run: the comment `AbsIntegerEncoder.java:14` speaks
of the absolute value, which the smallest integer does not have (`EveryMagnitude`
states the exception); the comment above
`EchoServerHandler.channelReadComplete` (line 33) says the channel is closed after
the flush, but the listener is commented out; the comment in
`SubReqClient.java:32` says the encoder must stand before the decoder, which makes
no difference as long as both stand before the handler;
`FixedLengthFrameDecoderTest.java:72` tests netty's class of that name, and says
of a call that it returns false while asserting true.

## Fairness

* *Event loops* (`ChatServer`): weak fairness of `Handle(l)`, since a loop's thread
  goes on with the read cycle it began; strong fairness of `RunTask(l)` and
  `Drain(c)`, since a loop returns to its task queue and its writable sockets after
  every cycle, however many reads come between. No fairness of peers, accepting or
  closing: nobody need send anything. The strong fairness of `Drain` also says that
  a peer takes what it was sent as long as its connection lasts; for a peer that
  stays connected and never reads the code promises nothing.
* *Codec*: the loop reads what has come and finishes `decode`. `EchoMessage` adds
  that the close of one end is reported to the other.
* *Heartbeat, Subscribe*: time passes, a due timer fires, loops serve their
  sockets and the other end takes what it is sent, the kernel reports an ended
  connection or gives up on a dead one that owes acknowledgements. Nothing need
  break, and the server need not close.
* *Http*: the loop finishes a read, reads again and returns to the writable socket;
  the client takes its responses while its connection lasts.
* *jQuery*: calls that have begun go on and user code returns (or throws: the
  properties then ask nothing more where an exception leaves the code's state as it
  was); timers and animation frames come. Nobody need call anything, no answer need
  come, a document need not be parsed by the end except in `Page`, where the browser
  goes on with the page that it has.

## Proofs

All theorems hold for every value of the constants, under the named assumptions
of the modules: every channel has a loop (`LoopAssumption`), `NoOne` is no client,
bounds are numbers (`BoundAssumption`, `MaxRequestsAssumption`); a header has a positive
length and begins with the tag (`HeadAssumption`), the lengths of bodies and texts are
numbers, and the id of a heartbeat is none of an order's (`ProgramsAssumption`);
`frameLength > 0`, which the constructor checks; `maxFrameSize` is an integer, a negative
one included, for the constructor does not look (`SizesAssumption`); half the range of an
integer is positive (`HalfAssumption`); the bound on the calls of the effects is a number
(`MaxCallsAssumption`); the user's own deferreds are among those there can be
(`RootsAssumption`); `false`, a list's memory of nothing, is none of the values fired
(`NoValueAssumption`), and the bound on a list's calls is a number (`CallsAssumption`);
no function of the user has a guid of jQuery's own handlers (`FnsAssumption`); a page has
room for the nodes it begins with (`NodesAssumption`), and neither "*" nor what stands for
no type is a data type (`TypesAssumption`). The theorems about `Page` need no assumption. TLC evaluates each of
the assumptions in a run.

| Theorem | Statement |
|---|---|
| `ChatServerProofs!TypeCorrectness` | `Spec => []TypeOK` |
| `ChatServerProofs!Invariance` | `Spec => [](TypeOK /\ OrderInv)` |
| `ChatServerProofs!SenderOrderHolds` | `Spec => []SenderOrder` |
| `ChatServerProofs!DeliveryInvariance` | `Spec => [](TypeOK /\ OrderInv /\ DeliveryInv)` |
| `ChatServerProofs!NoneIsSkipped` | `Spec => []NoneSkipped` |
| `ChatServerProofs!FifoImplemented` | `Spec => Fifo!Spec` |
| `ChatServerProofs!ClosingInvariance` | `Spec => []ClosingInv` |
| `ChatServerProofs!NothingIsStranded` | `Spec => []NothingStranded` |
| `ChatServerProofs!NothingFollowsClose` | `Spec => []NothingAfterClose` |
| `MessageDecoderProofs!DecoderTypes` | `Spec => []TypeOK` |
| `MessageDecoderProofs!DecoderInvariance` | `Spec => []DecoderInv` |
| `MessageDecoderProofs!FailsOnSplit` | `Spec => []FailsOnlyOnSplit` |
| `MessageDecoderProofs!StreamImplemented` | `Spec => Stream!Spec` |
| `NettyProofs!ReplyIsServed` | `Echo!Spec => []ReplyMeansServed` |
| `NettyProofs!OrdersAnsweredInTurn` | `Sub!Spec => []Conversation` |
| `NettyProofs!ExchangeImplemented` | `Http!Spec => Exchange!Spec` |
| `JunitChannelProofs!FramesTile` | `Spec => []Tiled` |
| `JunitChannelProofs!NothingHeldBack` | `Spec => []NoneHeldBack` |
| `JunitChannelProofs!FramesCounted` | `Spec => []CutIndependent` |
| `JunitChannelProofs!ReadsAreFrames` | `Chunk!Spec => []FramesAreReads` |
| `JunitChannelProofs!EveryIntegerLeaves` | `Abs!Spec => []EveryMagnitude` |
| `ActivityProofs!ReadyOnceHolds` | `Spec => []ReadyOnce` |
| `ActivityProofs!ReadyInvariance` | `Spec => []ReadyInv` |
| `ActivityProofs!OneAfterTheOther` | `Fx!Spec => []OneAtATime` |
| `PromisesProofs!OneBegins` | `Many!Spec => []ThenInv` |
| `PromisesProofs!PromisesImplemented` | `Many!Spec => ImplementsPromises` |
| `PromisesProofs!ListInvariance` | `Spec => []ListInv` |
| `PromisesProofs!SubscribersImplemented` | `Spec => ImplementsSubscribers` |
| `EventHandlersProofs!EventsInvariance` | `Spec => []EventsInv` |
| `EventHandlersProofs!StateFirstHolds` | `Spec => []StateFirst` |
| `EventHandlersProofs!HeardOnceHolds` | `Spec => []HeardOnce` |
| `ActivityProofs!RequestsInvariance` | `Requests!Spec => []RequestsInv` |
| `ActivityProofs!EachIsToldOnce` | `Requests!Spec => []ToldOnce` |
| `ActivityProofs!ActiveIsTheNumber` | `Requests!Spec => []ActiveCounts` |
| `ActivityProofs!AnswersAreOwn` | `Requests!Spec => []OwnAnswer` |
| `DocumentProofs!ListeningInvariance` | `Manip!Spec => []Listening` |
| `DocumentProofs!ListenersHold` | `Manip!Spec => []ListenersAsGiven` |
| `DocumentProofs!ConvInvariance` | `Conv!Spec => []ConvInv` |
| `DocumentProofs!GivesIt` | `Conv!Spec => []GivesWhatWasAsked` |

*Order in the chat.* `SenderOrder` speaks of one channel's log only and is not
inductive: a queued text that is older than a logged one would break it one step
later. `OrderInv` follows a sender's texts all the way. Numbers are given out by
`texts`; what a channel was given, in its log or in a task, is no younger than
the newest text, and strictly older until the running broadcast has come to it
(`OutGiven`, `QueueGiven`); tasks for one channel and sender lie in order in the
queue (`QueueOrder`), behind everything in the log (`OutBeforeQueue`). A speaker
is on one loop, so for one pair of channels either all texts go directly or all
go through the queue: `LoopsOK` and the second part of `QueueGiven` say so, and
this is why the two ways cannot overtake each other.

*Delivery in the chat.* `OrderInv` lets texts be left out. `DeliveryInv` says that
none is: an open channel that has a text, in its log or its queue, has every later
one there too, up to the one that a running broadcast still owes it (`Pursued`). To
keep that, the broadcast must not end before it has come to the channel; so an open
channel is in the group (`MembersOK`), and one that was given a text of a sender who
is broadcasting is among the channels this broadcast will return or has returned. A
channel given its first text only now has its 101 response in front of it, since no text
is accepted before (`TextsOK`), and what it has is without gaps even when it is closed
(`Contiguous`). With `OrderInv` this gives `SenderFifo`: a text that leaves for the
socket is the listener's first of that speaker, or follows the one before.

*The end of a connection.* `NothingAfterClose` is about the log and fails one step
earlier: a close frame waits for a slow socket while the channel is open, and a
broadcast might write a text behind it. That it cannot is a matter of what the loop
does: after the close frame the handler throws and the channel is closed before the
loop does anything else, and a channel that waits for its 400 response has no encoder
for frames. `Ending` says so, and needs to know what a read cycle may hold (`BatchOK`):
one request of a channel with nothing unwritten, or frames of an upgraded channel.

*Decoder.* `FailsOnlyOnSplit` needs to know where the decoder is. `DecoderInv`
says that messages lie one behind the other and each header announces its own body
(`Layout`), that what was passed on is a prefix of what was sent (`Prefix`), that
an open channel's reader index is at the end of the last message passed on
(`InSync`), and that after a failure the reads end inside the next message, with
the index before its header or behind it (`CutInside`). The refinement of
`MessageStream` follows: `Whole` is the abstract arrival, every other step is a
send, a break or a stutter. In particular no call of `decode` on the remains of a
failed read ever produces a message: after the header a body of printable text
cannot pass for one. This rests on `TagOffsets` lying inside the header.

*Echo exchange.* `EchoMessage` is two decoders, and its steps are steps of each of them
or none (`Directions`), so the lemmas about `DecoderInv` are used twice, by instantiating
their module. What is left to say in `ExchangeInv` is that either side sends once, and
the reply only when the request was decoded.

*Subscription.* A message moves from the head of one of four queues to the end of the
next; `Conversation` is about the queues put together, which such a move leaves as they
are (`HeadMoves`, `AppendConcat`). Only the first response of all is taken away:
`NextInTurn` shows that it is a heartbeat or the order whose turn it is.

*Http.* How much is due follows from how many heads and ends went through the pipeline,
which are cardinalities of sets of positions. `StreamInv` says that the parts of a
request follow each other and requests have successive numbers; `PlaceInv` that the two
counts can be read off the last part handled; `ResponsesInv` that the responses written
are those due by these counts. Every part handled is then an abstract beginning, an
abstract completion or neither, and the failed cast a break.

*Frames and integers.* `Tiled`, `NoneHeldBack` and the types are inductive together.
`CutIndependent` needs that the bytes consumed are `frameLength` for each frame. For
`AbsIntegerEncoder` the invariant says that the integers offered are, in order, those
that left, those of the buffer being encoded, and those not read yet. For
`FrameChunkDecoder`, `FramesAreReads` speaks of moments at which the buffer is empty.
`ChunkInv` says for all others that only the last read is still there, and from its first
byte on; `Discard` then counts one `thrown`, and `Pass` makes a frame that is just this read.

*Readiness.* `ReadyOnce` needs to know what `readyWait` stands for. `ReadyInv` says that
it is the number of holds that were not released, and one more until the document's own
turn has come (`HoldCount`); that nothing calls `jQuery.ready()` while the document is
loading (`ParsedFirst`); and that a function is added, then scheduled, then run, each
once (`Stages`). `readyList` is resolved in four places (a release, the document's
events, the timer, and `ready` called when all is over); one lemma says that in a state
of the invariant each of them is in time.

*Effects.* That two functions of a queue never run at once says nothing of who starts the
next one. `Single` counts everything that makes the queue go on: a queued animation that
moves, a timeout of a delay, and a call that will begin with what is next (`Opens`: a
`dequeue`, or the start of a queued animation). There is one of these at most. An animation
that is not queued is none of them, nor is the `dequeue` of one of nothing: what that finds
is a queue with the sentinel, and then it hurries, or none, and then nothing else goes on.
While there is one of the three the queue holds the sentinel (`HeldInv`), so that a call
that queues something does not begin with it; only a `dequeue` that is the innermost call
has taken the sentinel away.
A `stop` takes several steps with callbacks between: it clears the timeout of a delay, stops
the animations one after the other, and may dequeue at its end. `StopOK` says of each turn of
its loop that, if it will dequeue, the animations it has not come to are all that moves and
that nothing else will open the queue. What `FramesInv` says of the places of the calls is
needed for this: a `stop` is the outermost call, and no tick is outside of it. Where the
queue was cleared, a callback called `stop` or `finish`, a callback of these queued
something, or an animation of nothing dequeued beside what is in progress, the code keeps
no such promise, and the property asks nothing.

*Promises.* `PromisesAPlus` decides a promise in one step; the code lets it depend on
functions that may be called late, again, or never. `ThenInv` says what there is of them. A
promise nothing has resolved yet (`Fresh`) is the child of at most one reaction of its
parent, or of one timer when the parent has settled, or its handler runs; only when none of
these is left (`Spent`) there may be a call for it, and then that call is alone
(`JobsInv`), since what a call for a child makes is never more than the next call for it.
Behind a promise that follows another there may be any number of reactions, timers and
calls of earlier depths. Each carries a depth of at most `maxDepth`, and the ones of the
last depth speak for the promise that is followed: a reaction is registered on it
(`FollowReaction`), a timer or call has its outcome (`Told`, `SettleOK`). Lower ones are
stale and are not heard. A thenable knows depth 1 only, so it is heard while the promise
follows it and not after (`GivenTold`). What `when` makes has no parent, and the calls for
it may come in numbers (`FreeJob`). Then only three actions are steps of the rules:
`Settle` on a pending promise decides it, or adopts for it what the followed one settled
with; `ReturnPromise` and `HandlerReturnsThenable` let it follow.

*Callback lists.* Under the refinement, who is still to hear an execution is the part of
`list` behind `firingIndex` (`Behind`): an `add` appends to that part, and a `remove` takes
the callback out of it exactly because the index steps back once for each occurrence at or
before it (`BehindWithout`). This is true only while the index lies within the list, which
`IndexInv` says of every callback that runs, unless the list was emptied under it. Between
two executions the index is back at the start, or an `add` to a list with memory has set it
and the execution that is next is the last one again; the numbers in `queue` grow
(`QueueInv`), so that no other execution is taken for that one. `MemoryInv` is needed for
the same: while an execution goes on its value is remembered, or nobody is left to hear it.
After an exception `firing` stays true and the queue is never served; `TurnInv` says so, and
the abstract list just stands still. `remove` is a recursive function of the list's
length; what it leaves of a list cut in two is what it leaves of the two parts
(`WithoutSplits`), by the form of induction described below.

*Clicks.* `StateFirst` and `HeardOnce` speak of one click, but a handler may trigger further
ones, so the calls lie on each other in any depth. `StackInv` says what stands on what:
user code on a dispatch, a dispatch on a walk along the path, the native click of the
leverage on the call that fired it. `RegistryInv` is about the lists: the leveraging handler
is the first of the box's list while there is one, no registration is in two places, and
the delegates are in front. jQuery keeps one datum for the box (`saved`), though the clicks
are nested; `LeverageInv` says which of them it is about and how far that one is (`Stage`).
`StateFirst` follows from `PendingInv`: from the trigger to the native click no call is made
but to the leveraging handler. For `HeardOnce` two invariants face each other. `UnheardInv`
says that of all the elements that a walk has still to come to, and in the queue it calls
from, nobody has heard the click, and nobody is there twice; this holds only for the one walk
that goes on, and `OnePassInv` says that every other one of the same click waits below a
pass that is under way and stops at once when that returns. `DeliveryInv` is its converse:
unless a handler stopped the click, everybody it is for and who is still registered
has heard, is in that queue, or is ahead of that walk. When the click walks its path again,
everybody is ahead of it once more; that nobody is heard twice then is because the leveraging
handler was called before any other (`Queues`, `AtBox`). What `off` and `one` do to the lists
is a recursive function of their length: `WithoutWithin` and `WithoutFront` describe it, by
induction in the form of the least number that would be an exception (`LeastNumber`, from
the well-foundedness of the numbers), a form that needs no operator for a parameter.

*Requests.* User code runs in the middle of everything and may start and abort requests
there, so what holds of a request depends on what is still to be done for it further out.
`JobsInv` says that a request begins at most once and, only after it is done, has one
`complete` or one `release` pending. With `ToldInv` this orders what is told: the outcome,
then "complete", and nothing while neither is due. `CountInv` is `ActiveCounts` made
inductive: unless user code threw, `active` is the number of the
requests with global events that are not done or have that one job pending; and such a
request that is not sent yet has the job that will send or end it.

*Names of jsonp callbacks.* `NamesInv` says that a name is free or belongs to one
request that waits, and that the callback installed under a name in use is its owner's.
So a late script finds, under the name it was sent with, nothing, itself, or a
request that took the name since; it may leave a wrong answer in that one's container.
`OwnersInv` says where that answer is from: who has the callback is the last that took its
name, so what a container holds is the answer to its own request or to an earlier one of
the name. `AnswersInv` says what harm it does: at the time a request is told of a success,
its own script has just run, in the same call, and put its answer there, or was silent.

*Listeners.* `ListenersAsGiven` does not speak of the handle in a node's data, and it is the
handle that decides what a listener dispatches to. `HasListeners` adds it: a node that
listens has a handle of its own, no other node has one, and there are no listeners on nodes
that do not exist yet. For the copies of a clone, whose data is copied node by node, the
same is shown after each of them (`CopyEventsListens`), by induction on their number; that
no two nodes have the same copy (`CopyIs`) is a matter of counting.

*Conversion.* `ConvInv` says that the response is a value of the current type at every step
(`OnTheWay`), where a value of one type is one of those that are the same as it, and that
the last type asked for is still among those to come, or is the current one and only "*" is
behind it. The first makes it right to leave out an equivalence when it is half of a pair
of converters: what is applied then is applied to a value of the type it takes.

**Only model-checked.** Liveness (`EveryListenerHears`, `Settles`, `LostServerNoticed`,
`EchoesReturn`, `AllAnswered`, `EveryRequestServed`, `EveryoneIsTold`, `NobodyHangs`,
`EveryPromiseResolved`, `EveryoneCompletes`, `EveryFunctionRuns`) is beyond the prover.
`ImplementsSettlement` rests on `SelectSeq` in `Started`, and asks for an invariant over
the six lists of a deferred and the calls that lie on each other between them, which is not
written. `FindsWhatIsMeant` compares with a reference definition that is a `RECURSIVE`
operator, and `EvaluatedOnce` asks for the ancestors of a node, a recursion over the tree.

## Not modelled, and why

* Memory: outbound buffers have no limit in the code either; the models bound the
  number of messages. Threads outside the event loops: there are none but `main`.
* Payload text, logging, the layout of the page, headers of http requests beyond the three
  outcomes of the handshake; http requests that come in pieces before the upgrade
  (an aggregator joins them).
* Http requests that are malformed or larger than the aggregator's 512 kB, for which
  netty answers by itself, and the compressor of `server2`, which changes bodies only.
* A peer of the codec that announces a wrong length: every peer in the repository
  announces the length of its own body.
* A server's view of a client that died without a word: no server has an idle
  handler that does anything, so such a channel stays open.
* `HttpsCodecInitializer`, `WebScoketServerInitializer`, `LenNettyServer`,
  `HttpClientBootstrap`, `UDPClient`, `ChunkedWriteHandlerInitializer`: library
  handlers put together, or nothing at all, with no behaviour of this code;
  `MarshallingCodeCFactory` and the value classes: construction of library
  objects; the protobuf classes are generated.
* `WebsocketConvertHandler`: a conversion of six kinds of frames without state, in no
  pipeline of the repository. Bootstraps and shutdown: library calls in a row.
* Of jQuery: attributes, css, dimensions, offsets, traversing, serialising, building
  nodes from html and the support tests have no state of their own, a call answers from
  the page. Of the parts that are modelled:
  * *Deferred*: `pipe`, `progress` handlers of `then` over several promises, the exception
    hook, `when` of a single value;
  * *events*: namespaces, inline handlers, `triggerHandler`, events other than the click,
    radio buttons, focus and blur, and `click()` of an element whose click is in progress,
    which browsers ignore;
  * *effects*: what tweens compute, `fx.off`, other queues than `fx`, callbacks that throw,
    the callbacks before the end of an animation (`start`, `step`, `progress`) and those
    after its complete (`always`);
  * *ajax*: headers and urls, `async: false`, a page's own prefilters and transports,
    `dataFilter`, converters set to false or marked as throwing (`throws`), and the
    conversion of an answer without responses, as a script transport gives it;
  * *manipulation*: wrapping, parsing of html, scripts with a `src`, more than one listener;
  * *matching*: the tokenizer, groups, other pseudo-classes, the cache of compiled
    selectors, documents in xml, and nodes that are not elements: all children are
    elements, so that the index among the child nodes is the position;
  * *readiness*: `jQuery.readyException`.

## Plan

1. *Done*: the netty programs with their proofs; the page and the parts of jQuery that
   keep state between calls.
2. *Done*: proofs of every safety property of the netty programs, of `Ajax`, of readiness,
   of the effects, of the events, of listeners and conversion; the refinements of `PromisesAPlus` and `Subscribers`.
3. Proofs: the refinement of `Settlement`, from `ListInv` of each of its six lists.
4. Models: focus and blur, the other events that jQuery leverages; the other special
   cases of `trigger`; `WebsocketConvertHandler`.
