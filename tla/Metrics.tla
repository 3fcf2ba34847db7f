------------------------------ MODULE Metrics ------------------------------
(***************************************************************************)
(* The timing instrumentation of debug builds (src/metrics.rs) with the    *)
(* RequestLogger fairing that drives it.  A request owns a recorder, kept  *)
(* in its local_cache; the Timing guard also stores it in the thread-local *)
(* CURRENT, through which every measurement point finds it.  Rocket runs a *)
(* request as a task: it keeps its worker thread until it awaits, and the  *)
(* only await between the guard and the handler is the one that reads the  *)
(* request body.  A recorder is named by the request it was made for.      *)
(***************************************************************************)
EXTENDS Integers, FiniteSets

CONSTANTS
    Requests,           \* requests, each sent at most once
    Threads,            \* worker threads of the async runtime
    Routes,             \* kinds of routes in use, a subset of RouteKinds
    None                \* an empty slot

\* "ping" takes no guard, "get" only guards, "post" also reads a body.
RouteKinds == {"ping", "get", "post"}

ASSUME RoutesAssumption == Routes \subseteq RouteKinds
ASSUME NoneAssumption == None \notin Requests \cup Threads
ASSUME FiniteAssumption == IsFiniteSet(Requests) /\ IsFiniteSet(Threads)

VARIABLES
    inflight,           \* INFLIGHT
    current,            \* CURRENT of each thread: a recorder, or None
    cached,             \* the recorder in the local_cache of the request exists
    observed,           \* Recorder::concurrency
    entered,            \* Recorder::handler_entered
    route,              \* kind of route of each request
    pc,                 \* where the request is
    worker,             \* thread that runs the request, None while it awaits
    hits                \* history: recorders its measurement points reached

recorderVars == <<inflight, current, cached>>
vars == <<recorderVars, observed, entered, route, pc, worker, hits>>

Labels == {"new", "arrived", "guard", "body", "enter", "handler",
           "respond", "release", "gone"}

\* The request holds a thread.
Running(r) == worker[r] # None
Idle(t) == \A r \in Requests : worker[r] # t

\* A recorder lives while the request or some thread refers to it.
Alive(cache, slots) == {r \in Requests : cache[r] \/ \E t \in Threads : slots[t] = r}

\* References change to cache and slots; Recorder::drop leaves the in-flight
\* set for every recorder that lost its last reference.
Drop(cache, slots) ==
    /\ cached' = cache
    /\ current' = slots
    /\ inflight' = inflight - Cardinality(Alive(cached, current) \ Alive(cache, slots))

-----------------------------------------------------------------------------
Init ==
    /\ inflight = 0
    /\ current = [t \in Threads |-> None]
    /\ cached = [r \in Requests |-> FALSE]
    /\ observed = [r \in Requests |-> 0]
    /\ entered = [r \in Requests |-> FALSE]
    /\ route \in [Requests -> Routes]
    /\ pc = [r \in Requests |-> "new"]
    /\ worker = [r \in Requests |-> None]
    /\ hits = [r \in Requests |-> {}]

\* begin_request, first half: count the request, create its recorder.
Arrive(r, t) ==
    /\ pc[r] = "new" /\ Idle(t)
    /\ worker' = [worker EXCEPT ![r] = t]
    /\ inflight' = inflight + 1
    /\ cached' = [cached EXCEPT ![r] = TRUE]
    /\ pc' = [pc EXCEPT ![r] = "arrived"]
    /\ UNCHANGED <<current, observed, entered, route, hits>>

\* Second half: INFLIGHT is loaded again, so it may include later arrivals.
Observe(r) ==
    /\ pc[r] = "arrived"
    /\ observed' = [observed EXCEPT ![r] = inflight]
    /\ pc' = [pc EXCEPT ![r] = IF route[r] = "ping" THEN "respond" ELSE "guard"]
    /\ UNCHANGED <<recorderVars, entered, route, worker, hits>>

\* Faulty variant: one CURRENT for the whole process.
BeginGlobal(r) ==
    /\ pc[r] = "guard"
    /\ Drop(cached, [t \in Threads |-> r])
    /\ pc' = [pc EXCEPT ![r] = IF route[r] = "post" THEN "body" ELSE "enter"]
    /\ UNCHANGED <<observed, entered, route, worker, hits>>

\* Timing::from_request -> begin: CURRENT of this thread is overwritten.
Begin(r) ==
    /\ pc[r] = "guard"
    /\ Drop(cached, [current EXCEPT ![worker[r]] = r])
    /\ pc' = [pc EXCEPT ![r] = IF route[r] = "post" THEN "body" ELSE "enter"]
    /\ UNCHANGED <<observed, entered, route, worker, hits>>

\* The body has not arrived yet: the task gives up its thread ...
Suspend(r) ==
    /\ pc[r] = "body" /\ Running(r)
    /\ worker' = [worker EXCEPT ![r] = None]
    /\ UNCHANGED <<recorderVars, observed, entered, route, pc, hits>>

\* ... and any idle thread may take it up again.
Resume(r, t) ==
    /\ pc[r] = "body" /\ ~Running(r) /\ Idle(t)
    /\ worker' = [worker EXCEPT ![r] = t]
    /\ UNCHANGED <<recorderVars, observed, entered, route, pc, hits>>

ReadBody(r) ==
    /\ pc[r] = "body" /\ Running(r)
    /\ pc' = [pc EXCEPT ![r] = "enter"]
    /\ UNCHANGED <<recorderVars, observed, entered, route, worker, hits>>

\* enter_handler records the arrival-to-handler time once per recorder.
EnterHandler(r) ==
    /\ pc[r] = "enter"
    /\ LET rec == current[worker[r]] IN
       IF rec # None /\ entered[rec] THEN UNCHANGED <<entered, hits>>
       ELSE /\ hits' = [hits EXCEPT ![r] = @ \cup {rec}]
            /\ entered' = [x \in Requests |-> entered[x] \/ x = rec]
    /\ pc' = [pc EXCEPT ![r] = "handler"]
    /\ UNCHANGED <<recorderVars, observed, route, worker>>

\* span, unit, count, mark_cold, measure_json: whatever with_current finds.
Measure(r) ==
    /\ pc[r] = "handler"
    /\ hits' = [hits EXCEPT ![r] = @ \cup {current[worker[r]]}]
    /\ UNCHANGED <<recorderVars, observed, entered, route, pc, worker>>

\* Faulty variant: the slot is not cleared when the handler returns.
ReturnWithoutEnd(r) ==
    /\ pc[r] = "handler"
    /\ pc' = [pc EXCEPT ![r] = "respond"]
    /\ UNCHANGED <<recorderVars, observed, entered, route, worker, hits>>

\* The handler returns or panics: the guard is dropped, end clears the slot.
Return(r) ==
    /\ pc[r] = "handler"
    /\ Drop(cached, [current EXCEPT ![worker[r]] = None])
    /\ pc' = [pc EXCEPT ![r] = "respond"]
    /\ UNCHANGED <<observed, entered, route, worker, hits>>

\* Faulty variant: the response leaves the in-flight set, as the drop does.
RecordResponseLeaves(r) ==
    /\ pc[r] = "respond"
    /\ pc' = [pc EXCEPT ![r] = "release"]
    /\ inflight' = inflight - 1
    /\ UNCHANGED <<current, cached, observed, entered, route, worker, hits>>

\* on_response -> record_response: the request's own recorder is rendered.
RecordResponse(r) ==
    /\ pc[r] = "respond"
    /\ pc' = [pc EXCEPT ![r] = "release"]
    /\ UNCHANGED <<recorderVars, observed, entered, route, worker, hits>>

\* The response is sent and the request, with its local_cache, is dropped.
Release(r) ==
    /\ pc[r] = "release"
    /\ Drop([cached EXCEPT ![r] = FALSE], current)
    /\ pc' = [pc EXCEPT ![r] = "gone"]
    /\ worker' = [worker EXCEPT ![r] = None]
    /\ UNCHANGED <<observed, entered, route, hits>>

Step(r) ==
    \/ Observe(r) \/ Begin(r) \/ ReadBody(r) \/ EnterHandler(r)
    \/ Return(r) \/ RecordResponse(r) \/ Release(r)

Next ==
    \E r \in Requests :
        \/ Step(r) \/ Suspend(r) \/ Measure(r)
        \/ \E t \in Threads : Arrive(r, t) \/ Resume(r, t)

Spec == Init /\ [][Next]_vars

-----------------------------------------------------------------------------
(* Properties *)

\* The requests that have arrived and are not dropped yet.
Live == {r \in Requests : pc[r] \notin {"new", "gone"}}

\* The types of all variables.
TypeOK ==
    /\ inflight \in 0..Cardinality(Requests)
    /\ current \in [Threads -> Requests \cup {None}]
    /\ cached \in [Requests -> BOOLEAN]
    /\ observed \in [Requests -> 0..Cardinality(Requests)]
    /\ entered \in [Requests -> BOOLEAN]
    /\ route \in [Requests -> RouteKinds]
    /\ pc \in [Requests -> Labels]
    /\ worker \in [Requests -> Threads \cup {None}]
    /\ hits \in [Requests -> SUBSET (Requests \cup {None})]

\* Every sample a request takes lands in its own recorder: none is lost and
\* none is booked to another request.
SamplesAttributed == \A r \in Requests : hits[r] \subseteq {r}

\* For a request that awaits no body this holds, whatever the requests around
\* it do: one that was resumed on another thread leaves its recorder in a slot
\* and clears a slot that is not its own, but never one that is in use.
GuardedSamplesAttributed ==
    \A r \in Requests : route[r] # "post" => hits[r] \subseteq {r}

\* INFLIGHT is never below the number of live requests.  Only recorders of
\* requests that awaited a body outlive them, each in the slot of a thread: it
\* is overstated by one for each of these and for each thread at most, and is
\* exact where no request has a body.
InflightBounded ==
    LET over == inflight - Cardinality(Live)
    IN  /\ 0 <= over
        /\ over <= Cardinality(Threads)
        /\ over <= Cardinality({r \in Requests : route[r] = "post" /\ pc[r] = "gone"})

\* The concurrency a request reports counts the request itself, although
\* INFLIGHT is read in a second step, while others come and go.
ConcurrencyCountsSelf ==
    \A r \in Requests : pc[r] \notin {"new", "arrived"} => observed[r] >= 1
=============================================================================
