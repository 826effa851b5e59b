-------------------------------- MODULE Ajax --------------------------------
(***************************************************************************)
(* jQuery.ajax: the requests of a page, over an XMLHttpRequest or, for     *)
(* jsonp, over a script whose callback has a name that is used again.      *)
(*                                                                         *)
(* JavaScript runs to completion: `jobs' is what the current call still    *)
(* has to do, innermost first.  A "user" job is a callback or a global     *)
(* event: its code may start requests, abort any of them, or throw.  What  *)
(* is requested and answered is left out, and so is async: false.          *)
(***************************************************************************)
EXTENDS Integers, Sequences, FiniteSets

CONSTANT MaxRequests

VARIABLES
    requests,    \* how many there have been
    kind,        \* xhr or jsonp
    global,      \* fireGlobals
    completed,   \* undefined, false once sent, true
    transport,   \* the request has one
    timer,       \* timeoutTimer: none, running, or over
    listening,   \* the transport's callback is not null
    flying,      \* the answer may still come
    state,       \* of the deferred
    active,      \* jQuery.active
    jobs,
    name,        \* callbackName
    installed,   \* window[ name ]: whose callback it is
    oldCallbacks, nonce,
    container,   \* responseContainer: whose answer it is
    told,        \* history: what each request's callbacks were told
    lastGlobal,  \* history: ajaxStart or ajaxStop
    threw,       \* history: some user code threw
    silent       \* history: the requests whose script did not call its callback

vars == <<requests, kind, global, completed, transport, timer, listening, flying, state,
          active, jobs, name, installed, oldCallbacks, nonce, container, told,
          lastGlobal, threw, silent>>
options == <<requests, kind>>
jsonp == <<name, installed, oldCallbacks, nonce, container, silent>>

Requests == 1..MaxRequests
Names == 1..MaxRequests

Init ==
    /\ requests = 0
    /\ kind = [r \in Requests |-> "none"]
    /\ global = [r \in Requests |-> FALSE]
    /\ completed = [r \in Requests |-> "undefined"]
    /\ transport = [r \in Requests |-> FALSE]
    /\ timer = [r \in Requests |-> "none"]
    /\ listening = [r \in Requests |-> FALSE]
    /\ flying = [r \in Requests |-> FALSE]
    /\ state = [r \in Requests |-> "pending"]
    /\ active = 0 /\ jobs = <<>>
    /\ name = [r \in Requests |-> 0]
    /\ installed = [n \in Names |-> 0]
    /\ oldCallbacks = <<>> /\ nonce = 1
    /\ container = [r \in Requests |-> 0]
    /\ told = [r \in Requests |-> <<>>]
    /\ lastGlobal = "ajaxStop" /\ threw = FALSE /\ silent = {}

-----------------------------------------------------------------------------
(* Jobs.                                                                   *)

Job(job, r) == [job |-> job, r |-> r]
User(hook, r) == [job |-> "user", r |-> r, hook |-> hook]
Doing(job) == jobs # <<>> /\ Head(jobs).job = job
R == Head(jobs).r
Then(more) == jobs' = more \o Tail(jobs)

\* Faulty: the transport's abort is all.
AbortsTransport(r) == <<Job("abort", r)>>

\* abort(): the transport's abort, and done.  It changes nothing any more of a
\* request that is complete.
AbortJobs(r) == <<Job("abort", r), Job("done", r)>>

-----------------------------------------------------------------------------
(* User code.                                                              *)

UserCode == jobs = <<>> \/ Doing("user")

\* jQuery.ajax( ... ), to its prefilters: that of jsonp takes a name that is
\* free and installs its callback.
Request ==
    /\ UserCode /\ requests < MaxRequests
    /\ requests' = requests + 1
    /\ LET r == requests + 1
           freed == Len(oldCallbacks)
           n == IF freed > 0 THEN oldCallbacks[freed] ELSE nonce
       IN  \/ /\ kind' = [kind EXCEPT ![r] = "xhr"]
              /\ UNCHANGED jsonp
           \/ /\ kind' = [kind EXCEPT ![r] = "jsonp"]
              /\ name' = [name EXCEPT ![r] = n]
              /\ installed' = [installed EXCEPT ![n] = r]
              /\ oldCallbacks' = SubSeq(oldCallbacks, 1, freed - 1)
              /\ nonce' = IF freed > 0 THEN nonce ELSE nonce + 1
              /\ UNCHANGED <<container, silent>>
    /\ jobs' = <<User("prefilter", requests + 1), Job("begin", requests + 1)>> \o jobs
    /\ UNCHANGED <<global, completed, transport, timer, listening, flying, state, active,
                   told, lastGlobal, threw>>

Abort ==
    /\ UserCode
    /\ \E r \in 1..requests :
        completed[r] # "true" /\ jobs' = AbortJobs(r) \o jobs
    /\ UNCHANGED <<options, global, completed, transport, timer, listening, flying, state,
                   active, jsonp, told, lastGlobal, threw>>

Return ==
    /\ Doing("user")
    /\ Then(<<>>)
    /\ UNCHANGED <<options, global, completed, transport, timer, listening, flying, state,
                   active, jsonp, told, lastGlobal, threw>>

\* beforeSend returns false.
ReturnFalse ==
    /\ Doing("user") /\ Head(jobs).hook = "beforeSend"
    /\ jobs' = AbortJobs(R) \o Tail(Tail(Tail(jobs)))
    /\ UNCHANGED <<options, global, completed, transport, timer, listening, flying, state,
                   active, jsonp, told, lastGlobal, threw>>

\* An exception leaves every call.
Throw ==
    /\ Doing("user")
    /\ jobs' = <<>> /\ threw' = TRUE
    /\ UNCHANGED <<options, global, completed, transport, timer, listening, flying, state,
                   active, jsonp, told, lastGlobal>>

-----------------------------------------------------------------------------
(* The rest of jQuery.ajax.                                                *)

\* Aborted inside a prefilter, it stops there.  The first of a set of requests
\* is an ajaxStart.
Begin ==
    /\ Doing("begin")
    /\ \/ completed[R] = "true" /\ Then(<<>>) /\ UNCHANGED <<global, active, lastGlobal>>
       \/ /\ completed[R] # "true"
          /\ \E globally, beforeSend \in BOOLEAN :
              LET starts == globally /\ active = 0
              IN  /\ global' = [global EXCEPT ![R] = globally]
                  /\ active' = IF globally THEN active + 1 ELSE active
                  /\ lastGlobal' = IF starts THEN "ajaxStart" ELSE lastGlobal
                  /\ Then((IF starts THEN <<User("ajaxStart", R)>> ELSE <<>>)
                          \o (IF beforeSend THEN <<User("beforeSend", R), Job("check", R)>> ELSE <<>>)
                          \o <<Job("transport", R)>>)
    /\ UNCHANGED <<options, completed, transport, timer, listening, flying, state, jsonp, told, threw>>

\* Aborted by the end of beforeSend, it stops.
Check ==
    /\ Doing("check")
    /\ jobs' = IF completed[R] = "true" THEN Tail(Tail(jobs)) ELSE Tail(jobs)
    /\ UNCHANGED <<options, global, completed, transport, timer, listening, flying, state,
                   active, jsonp, told, lastGlobal, threw>>

\* There is a transport for it, or none.
Transport ==
    /\ Doing("transport")
    /\ \/ Then(<<Job("done", R)>>) /\ UNCHANGED transport
       \/ /\ transport' = [transport EXCEPT ![R] = TRUE]
          /\ Then((IF global[R] THEN <<User("ajaxSend", R)>> ELSE <<>>) \o <<Job("send", R)>>)
    /\ UNCHANGED <<options, global, completed, timer, listening, flying, state, active, jsonp,
                   told, lastGlobal, threw>>

\* Aborted inside ajaxSend, it stops there.  send may throw.
Send ==
    /\ Doing("send")
    /\ IF completed[R] = "true"
       THEN Then(<<>>) /\ UNCHANGED <<completed, timer, listening, flying>>
       ELSE /\ completed' = [completed EXCEPT ![R] = "false"]
            /\ \E timeout \in {"none", "running"} : timer' = [timer EXCEPT ![R] = timeout]
            /\ \/ /\ listening' = [listening EXCEPT ![R] = TRUE]
                  /\ flying' = [flying EXCEPT ![R] = TRUE]
                  /\ Then(<<>>)
               \/ Then(<<Job("done", R)>>) /\ UNCHANGED <<listening, flying>>
    /\ UNCHANGED <<options, global, transport, state, active, jsonp, told, lastGlobal, threw>>

-----------------------------------------------------------------------------
(* The transport's abort, and done.                                        *)

AbortTransport ==
    /\ Doing("abort")
    /\ listening' = [listening EXCEPT ![R] = @ /\ ~transport[R]]
    /\ flying' = [flying EXCEPT ![R] = @ /\ ~(transport[R] /\ kind[R] = "xhr")]
    /\ Then(<<>>)
    /\ UNCHANGED <<options, global, completed, transport, timer, state, active, jsonp,
                   told, lastGlobal, threw>>

\* Repeated invocations are ignored.  jsonp's clean-up comes first of the
\* deferred's callbacks: the callback and its name are free again.
Finish(r, outcome) ==
    /\ completed' = [completed EXCEPT ![r] = "true"]
    /\ timer' = [timer EXCEPT ![r] = IF @ = "running" THEN "over" ELSE @]
    /\ transport' = [transport EXCEPT ![r] = FALSE]
    /\ state' = [state EXCEPT ![r] = outcome]
    /\ told' = [told EXCEPT ![r] = Append(@, <<outcome, container[r]>>)]
    /\ IF kind[r] = "jsonp"
       THEN /\ installed' = [installed EXCEPT ![name[r]] = 0]
            /\ oldCallbacks' = Append(oldCallbacks, name[r])
            /\ container' = [container EXCEPT ![r] = 0]
            /\ UNCHANGED <<name, nonce, silent>>
       ELSE UNCHANGED jsonp
    /\ Then(<<User("settled", r), Job("complete", r)>>)

\* Faulty: repeated invocations are not ignored.
DoneAgain ==
    /\ Doing("done")
    /\ Finish(R, "rejected")
    /\ UNCHANGED <<options, global, listening, flying, active, lastGlobal, threw>>

Done ==
    /\ Doing("done")
    /\ IF completed[R] = "true"
       THEN Then(<<>>) /\ UNCHANGED <<completed, timer, transport, state, told, jsonp>>
       ELSE Finish(R, "rejected")
    /\ UNCHANGED <<options, global, listening, flying, active, lastGlobal, threw>>

Succeed ==
    /\ Doing("succeed")
    /\ IF completed[R] = "true"
       THEN Then(<<>>) /\ UNCHANGED <<completed, timer, transport, state, told, jsonp>>
       ELSE Finish(R, IF kind[R] = "jsonp" /\ container[R] = 0 THEN "rejected" ELSE "resolved")
    /\ UNCHANGED <<options, global, listening, flying, active, lastGlobal, threw>>

\* Faulty: the counter also counts requests without global events.
CompleteCountsAll ==
    /\ Doing("complete")
    /\ told' = [told EXCEPT ![R] = Append(@, <<"complete", 0>>)]
    /\ Then(<<User("complete", R), Job("release", R)>>)
    /\ UNCHANGED <<options, global, completed, transport, timer, listening, flying, state,
                   active, jsonp, lastGlobal, threw>>

\* complete and ajaxComplete, then the counter.
Complete ==
    /\ Doing("complete")
    /\ told' = [told EXCEPT ![R] = Append(@, <<"complete", 0>>)]
    /\ Then(<<User("complete", R)>> \o (IF global[R] THEN <<Job("release", R)>> ELSE <<>>))
    /\ UNCHANGED <<options, global, completed, transport, timer, listening, flying, state,
                   active, jsonp, lastGlobal, threw>>

Release ==
    /\ Doing("release")
    /\ active' = active - 1
    /\ IF active = 1
       THEN lastGlobal' = "ajaxStop" /\ Then(<<User("ajaxStop", R)>>)
       ELSE Then(<<>>) /\ UNCHANGED lastGlobal
    /\ UNCHANGED <<options, global, completed, transport, timer, listening, flying, state,
                   jsonp, told, threw>>

-----------------------------------------------------------------------------
(* The browser.                                                            *)

\* An answer of the xhr: load, or error.
Answer(r) ==
    /\ jobs = <<>> /\ kind[r] = "xhr" /\ flying[r] /\ listening[r]
    /\ flying' = [flying EXCEPT ![r] = FALSE]
    /\ listening' = [listening EXCEPT ![r] = FALSE]
    /\ jobs' \in {<<Job("succeed", r)>>, <<Job("done", r)>>}
    /\ UNCHANGED <<options, global, completed, transport, timer, state, active, jsonp, told,
                   lastGlobal, threw>>

\* Faulty: the first answer to come is kept.
ScriptKeepsFirst(r) ==
    /\ jobs = <<>> /\ kind[r] = "jsonp" /\ flying[r]
    /\ flying' = [flying EXCEPT ![r] = FALSE]
    /\ listening' = [listening EXCEPT ![r] = FALSE]
    /\ container' = [q \in Requests |->
           IF q = installed[name[r]] /\ container[q] = 0 THEN r ELSE container[q]]
    /\ jobs' = IF listening[r] THEN <<Job("succeed", r)>> ELSE <<>>
    /\ UNCHANGED <<options, global, completed, transport, timer, state, active, name,
                   installed, oldCallbacks, nonce, silent, told, lastGlobal, threw>>

\* The script runs, removed from the page or not, and calls what has its name;
\* or it calls nothing, or does not load.  Its load or error event is heard
\* unless it was aborted.
Script(r) ==
    /\ jobs = <<>> /\ kind[r] = "jsonp" /\ flying[r]
    /\ flying' = [flying EXCEPT ![r] = FALSE]
    /\ listening' = [listening EXCEPT ![r] = FALSE]
    /\ \E script \in {"calls", "silent", "error"} :
        /\ container' = [q \in Requests |->
               IF script = "calls" /\ q = installed[name[r]] THEN r ELSE container[q]]
        /\ silent' = IF script = "silent" THEN silent \union {r} ELSE silent
        /\ jobs' = IF listening[r]
                   THEN <<Job(IF script = "error" THEN "done" ELSE "succeed", r)>> ELSE <<>>
    /\ UNCHANGED <<options, global, completed, transport, timer, state, active, name,
                   installed, oldCallbacks, nonce, told, lastGlobal, threw>>

Timeout(r) ==
    /\ jobs = <<>> /\ timer[r] = "running"
    /\ timer' = [timer EXCEPT ![r] = "over"]
    /\ jobs' = AbortJobs(r)
    /\ UNCHANGED <<options, global, completed, transport, listening, flying, state, active,
                   jsonp, told, lastGlobal, threw>>

Engine ==
    \/ Begin \/ Check \/ Transport \/ Send
    \/ AbortTransport \/ Done \/ Succeed \/ Complete \/ Release

Next ==
    \/ Request \/ Abort \/ Return \/ ReturnFalse \/ Throw
    \/ Engine
    \/ \E r \in 1..requests : Answer(r) \/ Script(r) \/ Timeout(r)

\* Calls and user code go on, and a timer fires; an answer may never come.
Fairness == WF_vars(Engine) /\ WF_vars(Return) /\ \A r \in Requests : WF_vars(Timeout(r))

Spec == Init /\ [][Next]_vars /\ Fairness

-----------------------------------------------------------------------------

InFlight == {r \in 1..requests : global[r] /\ completed[r] = "false"}

\* Between calls jQuery.active counts the requests that wait for an answer, and
\* ajaxStart was the last global event exactly when there are some.
ActiveCounts ==
    jobs = <<>> /\ ~threw
    => /\ active = Cardinality(InFlight)
       /\ lastGlobal = "ajaxStart" <=> active > 0

\* Whatever comes first of an answer, an abort and a timeout, and whatever comes
\* after it, a request succeeds or fails once, and is complete once, after that.
ToldOnce ==
    \A r \in Requests :
        /\ Len(told[r]) <= 2
        /\ told[r] # <<>> => told[r][1][1] = state[r]
        /\ Len(told[r]) = 2 => told[r][2][1] = "complete"

\* A jsonp request that succeeds has the answer to it, though the name of its
\* callback was another's whose script may come late.  Only if its own script
\* did not call the callback may it have the answer to another one, and that
\* one had the name before it.
OwnAnswer ==
    \A r \in 1..requests :
        state[r] = "resolved" /\ kind[r] = "jsonp" =>
            LET answer == told[r][1][2]
            IN  \/ answer = r
                \/ r \in silent /\ answer < r /\ name[answer] = name[r]

\* A request that is sent with a timeout is told its outcome and completes in
\* the end, answered or not, and one without if it is answered or aborted.
Unfinished(r) == Len(told[r]) < 2 /\ (timer[r] # "none" \/ completed[r] = "true")
EveryoneCompletes == []<>(threw \/ (jobs = <<>> /\ \A r \in Requests : ~Unfinished(r)))
=============================================================================
