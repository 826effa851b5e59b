-------------------------------- MODULE Then --------------------------------
(***************************************************************************)
(* promise.then() and jQuery.when over several deferreds.  A deferred is   *)
(* here what Settlement says of it: then's processes go to timers when it  *)
(* settles, done and fail run at once.  The progress handlers of then are  *)
(* left to Deferred.                                                       *)
(*                                                                         *)
(* JavaScript runs to completion: `jobs' is what the current call still    *)
(* has to do, and user code (a handler, the then of a foreign thenable)    *)
(* runs when it is empty.                                                  *)
(***************************************************************************)
EXTENDS Integers, Sequences

CONSTANTS
    Roots,       \* how many deferreds the user owns: 1..Roots
    MaxPromises, \* deferreds there can be
    MaxCalls,    \* calls by the user code
    Idle         \* no user code is running

VARIABLES
    count,      \* deferreds there are
    state,      \* pending, resolved, rejected
    val,        \* what they settled with
    reactions,  \* what then registered: <<child, handler for resolved, for rejected>>
    listeners,  \* what when registered with done and fail: <<job, job>>
    maxDepth,   \* of the then() that made this deferred
    timers,     \* window.setTimeout( process )
    jobs,       \* synchronous calls still to be made, innermost first
    current,    \* the user code that runs
    remaining,  \* of when(): what each master still waits for
    values,     \* of when(): resolveValues
    given,      \* whose handler returned a thenable, which can resolve it
    calls,
    parent,     \* history: on whom then was called
    following   \* history: the thenable a child was resolved to

vars == <<count, state, val, reactions, listeners, maxDepth, timers, jobs, current,
          remaining, values, given, calls, parent, following>>

Promises == 1..MaxPromises
Undefined == <<"plain", 0>>
Nobody == 0     \* the deferred a then inside then() makes: nothing refers to it
PromiseOf(d) == <<"promise", d>>

Init ==
    /\ count = Roots
    /\ state = [d \in Promises |-> "pending"]
    /\ val = [d \in Promises |-> <<>>]
    /\ reactions = [d \in Promises |-> <<>>]
    /\ listeners = [d \in Promises |-> <<>>]
    /\ maxDepth = [d \in Promises |-> 0]
    /\ timers = <<>> /\ jobs = <<>> /\ current = Idle
    /\ remaining = [d \in Promises |-> 0]
    /\ values = [d \in Promises |-> <<>>]
    /\ given = {} /\ calls = 0
    /\ parent = [d \in Promises |-> 0]
    /\ following = [d \in Promises |-> <<>>]

-----------------------------------------------------------------------------
(* Handlers: <<"user">>; <<"identity">> and <<"thrower">>, which stand in  *)
(* for an absent one; <<"resolve" or "reject", c, depth>>, the functions   *)
(* with which a promise returned by c's handler resolves c.                *)

\* The process of one reaction, once its promise has the outcome.
Process(reaction, outcome, v) ==
    [child |-> reaction[1], handler |-> reaction[IF outcome = "resolved" THEN 2 ELSE 3], arg |-> v]

\* Faulty: the processes wait for d to settle, even if it has.
ReactOnce(d, reaction) ==
    /\ reactions' = [reactions EXCEPT ![d] = Append(@, reaction)]
    /\ UNCHANGED timers

\* then() on d puts its processes in d's handler lists, which call setTimeout
\* at once when d has settled.
React(d, reaction) ==
    /\ reactions' = [reactions EXCEPT ![d] = Append(@, reaction)]
    /\ timers' = IF state[d] = "pending" THEN timers
                 ELSE Append(timers, Process(reaction, state[d], val[d]))

SettleJob(d, outcome, v) == [job |-> "settle", target |-> d, outcome |-> outcome, arg |-> v]
ResolveJob(c, depth, v)  == [job |-> "resolve", target |-> c, depth |-> depth, arg |-> v]
RejectJob(c, depth, v)   == [job |-> "reject", target |-> c, depth |-> depth, arg |-> v]
ReturnJob(c, depth, v)   == [job |-> "return", target |-> c, depth |-> depth, arg |-> v]
UpdateJob(m, i)          == [job |-> "update", target |-> m, depth |-> i, arg |-> <<>>]

unsettled == <<state, val, listeners>>
whens == <<remaining, values, given>>

-----------------------------------------------------------------------------
(* The event loop and the synchronous calls.                               *)

\* The process of a reaction starts with its handler.
Timer ==
    /\ jobs = <<>> /\ current = Idle /\ timers # <<>>
    /\ LET p == Head(timers)
       IN  CASE p.handler[1] = "user" ->
                  current' = [code |-> "handler", of |-> p.child, depth |-> 0] /\ UNCHANGED jobs
             [] p.handler[1] = "identity" ->
                  jobs' = <<ReturnJob(p.child, 0, p.arg)>> /\ UNCHANGED current
             [] p.handler[1] = "thrower" ->
                  jobs' = <<SettleJob(p.child, "rejected", p.arg)>> /\ UNCHANGED current
             [] OTHER ->
                  /\ jobs' = << [job |-> p.handler[1], target |-> p.handler[2],
                                 depth |-> p.handler[3], arg |-> p.arg] >>
                  /\ UNCHANGED current
    /\ timers' = Tail(timers)
    /\ UNCHANGED <<count, unsettled, reactions, maxDepth, whens, calls, parent, following>>

Job(kind) == jobs # <<>> /\ Head(jobs).job = kind

\* resolveWith, rejectWith: the first one counts.  Then's processes are queued,
\* the callbacks of done or fail run now.
Settle ==
    /\ Job("settle")
    /\ LET j == Head(jobs)
           d == j.target
           nth == IF j.outcome = "resolved" THEN 1 ELSE 2
       IN  IF state[d] = "pending"
           THEN /\ state' = [state EXCEPT ![d] = j.outcome]
                /\ val' = [val EXCEPT ![d] = j.arg]
                /\ timers' = timers \o [i \in DOMAIN reactions[d] |->
                                            Process(reactions[d][i], j.outcome, j.arg)]
                /\ jobs' = [i \in DOMAIN listeners[d] |->
                               [listeners[d][i][nth] EXCEPT !.arg = j.arg]] \o Tail(jobs)
           ELSE /\ jobs' = Tail(jobs)
                /\ UNCHANGED <<state, val, timers>>
    /\ UNCHANGED <<count, listeners, reactions, maxDepth, current, whens, calls, parent, following>>

\* Faulty: calls of an earlier depth are heard.
NeverStale(j) == FALSE

\* resolve( depth, ... ) and its Identity, or with Thrower: ignored when the
\* child has been resolved to something else since.
Stale(j) == j.depth < maxDepth[j.target]

Resolve ==
    /\ Job("resolve")
    /\ LET j == Head(jobs)
       IN  jobs' = IF Stale(j) THEN Tail(jobs)
                   ELSE <<ReturnJob(j.target, j.depth, j.arg)>> \o Tail(jobs)
    /\ UNCHANGED <<count, unsettled, reactions, maxDepth, timers, current, whens, calls, parent, following>>

Reject ==
    /\ Job("reject")
    /\ LET j == Head(jobs)
       IN  jobs' = IF Stale(j) THEN Tail(jobs)
                   ELSE <<SettleJob(j.target, "rejected", j.arg)>> \o Tail(jobs)
    /\ UNCHANGED <<count, unsettled, reactions, maxDepth, timers, current, whens, calls, parent, following>>

\* mightThrow has a returned value: a plain one resolves the child; the child
\* itself is an error; a promise is asked to resolve the child.
ReturnPlain ==
    /\ Job("return")
    /\ LET j == Head(jobs)
       IN  /\ \/ j.arg[1] # "promise"
                 /\ jobs' = <<SettleJob(j.target, "resolved", j.arg)>> \o Tail(jobs)
              \/ j.arg = PromiseOf(j.target)
                 /\ jobs' = <<SettleJob(j.target, "rejected", Undefined)>> \o Tail(jobs)
    /\ UNCHANGED <<count, unsettled, reactions, maxDepth, timers, current, whens, calls, parent, following>>

ReturnPromise ==
    /\ Job("return")
    /\ LET j == Head(jobs)
           c == j.target
           depth == maxDepth[c] + 1
       IN  /\ j.arg[1] = "promise" /\ j.arg # PromiseOf(c)
           /\ maxDepth' = [maxDepth EXCEPT ![c] = depth]
           /\ following' = IF state[c] = "pending" THEN [following EXCEPT ![c] = j.arg]
                           ELSE following
           /\ React(j.arg[2], <<Nobody, <<"resolve", c, depth>>, <<"reject", c, depth>> >>)
    /\ jobs' = Tail(jobs)
    /\ UNCHANGED <<count, unsettled, current, whens, calls, parent>>

\* updateFunc( i ) of when.
Update ==
    /\ Job("update")
    /\ LET j == Head(jobs)
           m == j.target
           all == [values[m] EXCEPT ![j.depth] = j.arg]
       IN  /\ values' = [values EXCEPT ![m] = all]
           /\ remaining' = [remaining EXCEPT ![m] = @ - 1]
           /\ jobs' = IF remaining[m] = 1
                      THEN <<SettleJob(m, "resolved", <<"all", all>>)>> \o Tail(jobs)
                      ELSE Tail(jobs)
    /\ UNCHANGED <<count, unsettled, reactions, maxDepth, timers, current, given, calls, parent, following>>

-----------------------------------------------------------------------------
(* User code: the main program, a handler, the then of a thenable.         *)

UserCode == jobs = <<>> /\ calls < MaxCalls
Plain == <<"plain", calls + 1>>

\* The user settles a deferred of his, with a promise perhaps: that of a later
\* one, for a child of deferreds that hold each other would follow for ever.
SettleRoot ==
    /\ UserCode /\ calls' = calls + 1
    /\ \E d \in 1..Roots :
        \/ jobs' = <<SettleJob(d, "resolved", Plain)>>
        \/ jobs' = <<SettleJob(d, "rejected", Plain)>>
        \/ \E p \in (d + 1)..count : jobs' = <<SettleJob(d, "resolved", PromiseOf(p))>>
    /\ UNCHANGED <<count, unsettled, reactions, maxDepth, timers, current, whens, parent, following>>

\* then( f, g ) or then(): of the two handlers only one is ever used, so the
\* calls with one of them are in these.
ThenCall ==
    /\ UserCode /\ calls' = calls + 1
    /\ count < MaxPromises /\ count' = count + 1
    /\ \E d \in 1..count,
          handlers \in { << <<"user">>, <<"user">> >>, << <<"identity">>, <<"thrower">> >> } :
        /\ React(d, <<count + 1>> \o handlers)
        /\ parent' = [parent EXCEPT ![count + 1] = d]
    /\ UNCHANGED <<unsettled, maxDepth, jobs, current, whens, following>>

\* when( d, e ): adoptValue registers updateFunc with done and the master's
\* reject with fail, last argument first; on a settled one they run at once.
When ==
    /\ UserCode /\ calls' = calls + 1
    /\ count < MaxPromises
    /\ count' = count + 1
    /\ \E d, e \in 1..count :
        LET m == count + 1
            Of(i) == <<UpdateJob(m, i), SettleJob(m, "rejected", <<>>)>>
            Now(x, i) == CASE state[x] = "pending" -> <<>>
                           [] state[x] = "resolved" -> << [Of(i)[1] EXCEPT !.arg = val[x]] >>
                           [] OTHER -> << [Of(i)[2] EXCEPT !.arg = val[x]] >>
        IN  /\ remaining' = [remaining EXCEPT ![m] = 2]
            /\ values' = [values EXCEPT ![m] = <<PromiseOf(d), PromiseOf(e)>>]
            /\ listeners' = [x \in Promises |-> listeners[x]
                   \o (IF x = e THEN <<Of(2)>> ELSE <<>>) \o (IF x = d THEN <<Of(1)>> ELSE <<>>)]
            /\ jobs' = Now(e, 2) \o Now(d, 1)
    /\ UNCHANGED <<state, val, reactions, maxDepth, timers, current, given, parent, following>>

\* A handler returns: a value, a promise, or a thenable, whose then is called.
HandlerReturns ==
    /\ jobs = <<>> /\ current # Idle /\ current.code = "handler"
    /\ current' = Idle
    /\ \/ jobs' = <<ReturnJob(current.of, 0, <<"plain", 9>>)>>
       \/ \E p \in 1..count : jobs' = <<ReturnJob(current.of, 0, PromiseOf(p))>>
    /\ UNCHANGED <<count, unsettled, reactions, maxDepth, timers, whens, calls, parent, following>>

HandlerReturnsThenable ==
    /\ jobs = <<>> /\ current # Idle /\ current.code = "handler"
    /\ LET c == current.of
           depth == maxDepth[c] + 1
       IN  /\ maxDepth' = [maxDepth EXCEPT ![c] = depth]
           /\ following' = [following EXCEPT ![c] = <<"thenable", depth>>]
           /\ current' = [code |-> "thenable", of |-> c, depth |-> depth]
           /\ given' = given \cup {c}
    /\ UNCHANGED <<count, unsettled, reactions, timers, jobs, remaining, values, calls, parent>>

\* A handler or a then throws.  The exception counts if nothing newer does.
Throws ==
    /\ jobs = <<>> /\ current # Idle
    /\ current' = Idle
    /\ LET depth == IF current.code = "handler" THEN 0 ELSE current.depth - 1
       IN  jobs' = IF depth + 1 >= maxDepth[current.of]
                   THEN <<SettleJob(current.of, "rejected", <<"plain", 8>>)>> ELSE <<>>
    /\ UNCHANGED <<count, unsettled, reactions, maxDepth, timers, whens, calls, parent, following>>

ThenableReturns ==
    /\ jobs = <<>> /\ current # Idle /\ current.code = "thenable"
    /\ current' = Idle
    /\ UNCHANGED <<count, unsettled, reactions, maxDepth, timers, jobs, whens, calls, parent, following>>

\* A thenable may call the functions it was given when it likes and as often:
\* inside its then or later.
ThenableCalls ==
    /\ UserCode /\ calls' = calls + 1
    /\ \E c \in given :
        \/ jobs' = <<ResolveJob(c, 1, Plain)>>
        \/ jobs' = <<RejectJob(c, 1, Plain)>>
        \/ \E p \in 1..count : jobs' = <<ResolveJob(c, 1, PromiseOf(p))>>
    /\ UNCHANGED <<count, unsettled, reactions, maxDepth, timers, current, whens, parent, following>>

Engine ==
    \/ Timer \/ Settle \/ Resolve \/ Reject \/ ReturnPlain \/ ReturnPromise \/ Update

Returns == HandlerReturns \/ HandlerReturnsThenable \/ Throws \/ ThenableReturns

Next ==
    \/ Engine \/ Returns
    \/ SettleRoot \/ ThenCall \/ When \/ ThenableCalls

\* Calls and timers run, user code returns.
Fairness == WF_vars(Engine) /\ WF_vars(Returns)

Spec == Init /\ [][Next]_vars /\ Fairness

-----------------------------------------------------------------------------

\* then() keeps the rules of Promises/A+: what a promise was first resolved to
\* decides its outcome.
APlus == INSTANCE PromisesAPlus
ImplementsPromises == APlus!Spec

\* A child is due when its parent has settled, or the promise it follows.
Due(c) ==
    /\ state[c] = "pending"
    /\ \/ following[c] = <<>> /\ parent[c] # 0 /\ state[parent[c]] # "pending"
       \/ following[c] # <<>> /\ following[c][1] = "promise"
             /\ state[following[c][2]] # "pending"

\* No promise hangs on one that has settled: there is always a time again when
\* nobody is due.
NobodyHangs == []<>(\A c \in Promises : ~Due(c))
=============================================================================
