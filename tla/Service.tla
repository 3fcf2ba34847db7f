------------------------------ MODULE Service ------------------------------
(***************************************************************************)
(* The service around the backends: requests on the worker threads, the    *)
(* routes and catchers of src/api.rs as src/lib.rs mounts them, and the    *)
(* audit log of src/logging.rs.                                            *)
(*                                                                         *)
(* Handlers are plain functions that run on the worker thread that polls   *)
(* the request, so a worker is occupied while a handler waits for the TPM  *)
(* lock or for a tool; only the reading of a request body gives it back.   *)
(* The log is kept per request; a line is written under the sink's mutex   *)
(* and is one step.                                                        *)
(***************************************************************************)
EXTENDS Integers, Sequences, FiniteSets

CONSTANTS
    Requests,           \* requests, each sent at most once
    Workers,            \* worker threads of the runtime
    Sent,               \* the kinds of routes that requests are sent to
    MayHang,            \* whether a tool can run for ever
    SinkFails,          \* whether the log file can fail
    None

ASSUME NoneAssumption == None \notin Requests \cup Workers
ASSUME FaultsAssumption == {MayHang, SinkFails} \subseteq BOOLEAN

\* GET /ping; routes that take the TPM lock, without and with a body; routes
\* that run a script or an ioctl without the lock, without and with a body; no
\* route at all.
Routes == {"ping", "tpm_get", "tpm_post", "get", "post", "unknown"}
ASSUME SentAssumption == Sent \subseteq Routes

VARIABLES
    route,              \* the kind of route a request is for
    pc, worker,         \* next step; the worker it occupies, or None
    lock,               \* the request that holds the TPM lock, or None
    poisoned,           \* a request panicked while it held the lock
    sink,               \* SINK: None, or a file that can be written or not
    log,                \* the lines written about a request
    lost,               \* requests about which a line was not written
    status              \* the status answered, or 0

logVars == <<log, lost>>
vars == <<route, pc, worker, lock, poisoned, sink, logVars, status>>

HasBody == {"tpm_post", "post"}
NeedsLock == {"tpm_get", "tpm_post"}
Idle == {"new", "body", "done", "gone"}
Labels == Idle \cup {"route", "handler", "lock", "tool", "hung", "unwind", "respond"}
Statuses == {200, 400, 404, 500, 501}

Init ==
    /\ route \in [Requests -> Sent]
    /\ pc = [r \in Requests |-> "new"]
    /\ worker = [r \in Requests |-> None]
    /\ lock = None
    /\ poisoned = FALSE
    /\ sink \in {"writable"} \cup (IF SinkFails THEN {"none"} ELSE {})
    /\ log = [r \in Requests |-> <<>>]
    /\ lost = {}
    /\ status = [r \in Requests |-> 0]

Free(w) == \A r \in Requests : worker[r] # w
Goto(r, label) == pc' = [pc EXCEPT ![r] = label]

-----------------------------------------------------------------------------
(* src/logging.rs *)

\* event: without a sink, and when the write fails, nothing happens.
event(r, lines) ==
    \/ sink = "writable" /\ log' = [log EXCEPT ![r] = @ \o lines] /\ UNCHANGED lost
    \/ sink # "writable" /\ lost' = lost \cup {r} /\ UNCHANGED log

RequestLine == [event |-> "request", status |-> 0]
PanicLine == [event |-> "panic", status |-> 0]
ErrorLine(s) == [event |-> "error", status |-> s]
ResponseLine(s) == [event |-> "response", status |-> s]

\* The disk fills up, or has room again.
SinkChanges ==
    /\ SinkFails
    /\ sink # "none"
    /\ sink' = IF sink = "full" THEN "writable" ELSE "full"
    /\ UNCHANGED <<route, pc, worker, lock, poisoned, logVars, status>>

\* RequestLogger::on_request: a worker takes the request up.
OnRequest(r, w) ==
    /\ pc[r] = "new"
    /\ Free(w)
    /\ worker' = [worker EXCEPT ![r] = w]
    /\ event(r, <<RequestLine>>)
    /\ Goto(r, "route")
    /\ UNCHANGED <<route, lock, poisoned, sink, status>>

\* Faulty variant: the fairing logs the status before the catchers ran.
OnResponseEarly(r) ==
    /\ pc[r] = "respond"
    /\ event(r, <<ResponseLine(200)>>)
    /\ worker' = [worker EXCEPT ![r] = None]
    /\ Goto(r, "done")
    /\ UNCHANGED <<route, lock, poisoned, sink, status>>

\* RequestLogger::on_response: the final status is logged, the response leaves.
OnResponse(r) ==
    /\ pc[r] = "respond"
    /\ event(r, <<ResponseLine(status[r])>>)
    /\ worker' = [worker EXCEPT ![r] = None]
    /\ Goto(r, "done")
    /\ UNCHANGED <<route, lock, poisoned, sink, status>>

-----------------------------------------------------------------------------
(* src/api.rs *)

\* A handler or a catcher answers; ApiError::respond_to and every catcher log
\* the error first.
Answer(r, s) ==
    /\ status' = [status EXCEPT ![r] = s]
    /\ IF s = 200 THEN UNCHANGED logVars ELSE event(r, <<ErrorLine(s)>>)
    /\ Goto(r, "respond")

\* Faulty variant: ping asks the TPM before it answers.
RoutePingProbes(r) ==
    /\ pc[r] = "route"
    /\ Goto(r, IF route[r] \in HasBody THEN "body" ELSE "lock")
    /\ worker' = [worker EXCEPT ![r] = IF route[r] \in HasBody THEN None ELSE @]
    /\ UNCHANGED <<route, lock, poisoned, sink, logVars, status>>

\* The router: ping answers at once, the not_found catcher answers what has no
\* route, a body is awaited before its handler runs, other handlers begin.
Route(r) ==
    /\ pc[r] = "route"
    /\ \/ route[r] = "ping" /\ Answer(r, 200) /\ UNCHANGED worker
       \/ route[r] = "unknown" /\ Answer(r, 404) /\ UNCHANGED worker
       \/ /\ route[r] \in HasBody          \* the data guard awaits the body
          /\ Goto(r, "body")
          /\ worker' = [worker EXCEPT ![r] = None]
          /\ UNCHANGED <<logVars, status>>
       \/ route[r] = "tpm_get" /\ Goto(r, "lock") /\ UNCHANGED <<worker, logVars, status>>
       \/ route[r] = "get" /\ Goto(r, "handler") /\ UNCHANGED <<worker, logVars, status>>
    /\ UNCHANGED <<route, lock, poisoned, sink>>

\* Faulty variant: the request goes on on the worker it began on, free or not.
BodyReadAnyWorker(r, w) ==
    /\ pc[r] = "body"
    /\ worker' = [worker EXCEPT ![r] = w]
    /\ Goto(r, "handler")
    /\ UNCHANGED <<route, lock, poisoned, sink, logVars, status>>

\* The body is there; any free worker goes on with the request.
BodyRead(r, w) ==
    /\ pc[r] = "body"
    /\ Free(w)
    /\ worker' = [worker EXCEPT ![r] = w]
    /\ Goto(r, "handler")
    /\ UNCHANGED <<route, lock, poisoned, sink, logVars, status>>

\* The client closes the connection instead of sending the body: the request's
\* future is dropped, and on_response does not run.
Disconnect(r) ==
    /\ pc[r] = "body"
    /\ Goto(r, "gone")
    /\ UNCHANGED <<route, worker, lock, poisoned, sink, logVars, status>>

\* The body or the challenge of the request is not acceptable, or the work begins.
Handler(r) ==
    /\ pc[r] = "handler"
    /\ \/ Answer(r, 400)
       \/ Goto(r, IF route[r] \in NeedsLock THEN "lock" ELSE "tool") /\ UNCHANGED <<logVars, status>>
    /\ UNCHANGED <<route, worker, lock, poisoned, sink>>

-----------------------------------------------------------------------------
(* The backends, seen from here *)

\* TpmState::lock blocks the worker and takes over a poisoned lock.
Lock(r) ==
    /\ pc[r] = "lock"
    /\ lock = None
    /\ lock' = r
    /\ Goto(r, "tool")
    /\ UNCHANGED <<route, worker, poisoned, sink, logVars, status>>

Released(r) == IF lock = r THEN None ELSE lock

\* The tools have returned and the backend with them, dropping the lock.
ToolReturns(r, s) ==
    /\ pc[r] = "tool"
    /\ lock' = Released(r)
    /\ Answer(r, s)
    /\ UNCHANGED <<route, worker, poisoned, sink>>

\* Command::output waits without a timeout.
ToolHangs(r) ==
    /\ MayHang
    /\ pc[r] = "tool"
    /\ Goto(r, "hung")
    /\ UNCHANGED <<route, worker, lock, poisoned, sink, logVars, status>>

\* A panic: the hook writes its line while the lock is still held.
Panic(r) ==
    /\ pc[r] = "tool"
    /\ event(r, <<PanicLine>>)
    /\ Goto(r, "unwind")
    /\ UNCHANGED <<route, worker, lock, poisoned, sink, status>>

\* Faulty variant: unwinding does not release the lock.
UnwindKeepsLock(r) ==
    /\ pc[r] = "unwind"
    /\ Answer(r, 500)
    /\ UNCHANGED <<route, worker, lock, poisoned, sink>>

\* Unwinding releases and poisons the lock; the 500 catcher answers.
Unwind(r) ==
    /\ pc[r] = "unwind"
    /\ lock' = Released(r)
    /\ poisoned' = (poisoned \/ lock = r)
    /\ Answer(r, 500)
    /\ UNCHANGED <<route, worker, sink>>

Step(r) ==
    \/ \E w \in Workers : OnRequest(r, w) \/ BodyRead(r, w)
    \/ Route(r) \/ Handler(r) \/ Lock(r) \/ Unwind(r) \/ OnResponse(r)
    \/ \E s \in {200, 500, 501} : ToolReturns(r, s)

Next ==
    \/ \E r \in Requests : Step(r) \/ Panic(r) \/ Disconnect(r) \/ ToolHangs(r)
    \/ SinkChanges

\* A worker that has something to do does it, a client sends the body it
\* announced unless it goes away, a free worker takes up what
\* waits, and a mutex that is free is given to one who waits.
Fairness == \A r \in Requests : WF_vars(Step(r))

Spec == Init /\ [][Next]_vars
FairSpec == Spec /\ Fairness

-----------------------------------------------------------------------------
(* Properties *)

\* The types of the variables; a request occupies a worker exactly while it is
\* being worked on, and no worker serves two.
TypeOK ==
    /\ pc \in [Requests -> Labels]
    /\ worker \in [Requests -> Workers \cup {None}]
    /\ lock \in Requests \cup {None}
    /\ poisoned \in BOOLEAN
    /\ sink \in {"none", "writable", "full"}
    /\ status \in [Requests -> Statuses \cup {0}]
    /\ \A r \in Requests : worker[r] = None <=> pc[r] \in Idle
    /\ \A r, s \in Requests : r # s /\ worker[r] = worker[s] => worker[r] = None

\* The audit log tells the whole story of an answered request, if no line was
\* lost: its request line, then the panic, if there was one, then the error
\* with its status, if it was answered with one, then the response with the
\* status that was sent, each once and in this order.
AuditComplete ==
    \A r \in Requests : pc[r] = "done" /\ r \notin lost =>
        \E story \in {<<>>, <<PanicLine>>} :
            /\ log[r] = <<RequestLine>> \o story
                         \o (IF status[r] = 200 THEN <<>> ELSE <<ErrorLine(status[r])>>)
                         \o <<ResponseLine(status[r])>>
            /\ story # <<>> => status[r] = 500

\* Where no tool hangs, every request is answered or given up by its client,
\* whether the log can be written or not, after panics of others, and however
\* the waiting for the lock and the waiting for a worker interlock.
EveryRequestEnds ==
    [](\A r \in Requests : pc[r] # "hung")
        => \A r \in Requests : <>(pc[r] \in {"done", "gone"})

\* A tool that runs for ever takes the workers of the requests that need it or
\* its lock, and no more: while there are fewer of them than workers, every
\* ping is answered, with 200.
HangIsContained ==
    \A r \in Requests :
        (route[r] = "ping" /\ Cardinality({s \in Requests : route[s] # "ping"}) < Cardinality(Workers))
            ~> (pc[r] = "done" /\ status[r] = 200)
=============================================================================
