--------------------------- MODULE MetricsProofs ---------------------------
(* Proofs about Metrics for every finite number of requests and threads. *)
EXTENDS Metrics, FiniteSetTheorems, TLAPS

-----------------------------------------------------------------------------
(* The inductive invariant *)

\* A request has a thread of its own, except before it arrives, while it
\* awaits its body and after it is gone.
WorkerInv ==
    /\ \A r \in Requests :
          /\ pc[r] \in {"new", "gone"} => worker[r] = None
          /\ pc[r] \notin {"new", "gone", "body"} => worker[r] \in Threads
    /\ \A r, q \in Requests : r # q /\ worker[r] = worker[q] => worker[r] = None

\* Which requests pass the guard and which await a body.
RouteInv ==
    \A r \in Requests :
        /\ pc[r] = "body" => route[r] = "post"
        /\ pc[r] \in {"guard", "enter", "handler"} => route[r] # "ping"

\* Only recorders of requests that passed the guard are in slots.  A request
\* without a body is in the slot of its own thread exactly from the guard to
\* the end of its handler.
SlotInv ==
    /\ \A t \in Threads, r \in Requests : current[t] = r =>
          /\ pc[r] \notin {"new", "arrived", "guard"}
          /\ route[r] # "ping"
          /\ route[r] = "get" => pc[r] \in {"enter", "handler"} /\ worker[r] = t
    /\ \A r \in Requests : route[r] = "get" /\ pc[r] \in {"enter", "handler"}
          => current[worker[r]] = r

\* INFLIGHT counts the recorders that exist; a request refers to its own
\* recorder as long as it lives.
CountInv ==
    /\ \A r \in Requests : cached[r] <=> r \in Live
    /\ inflight = Cardinality(Alive(cached, current))

Inv == /\ TypeOK /\ WorkerInv /\ RouteInv /\ SlotInv /\ CountInv
       /\ GuardedSamplesAttributed /\ ConcurrencyCountsSelf

-----------------------------------------------------------------------------
(* Counting recorders *)

\* Sets of requests are finite and no larger than the whole.
LEMMA RequestSets ==
    ASSUME NEW S \in SUBSET Requests
    PROVE  /\ IsFiniteSet(S) /\ Cardinality(S) \in Nat
           /\ Cardinality(S) <= Cardinality(Requests)
           /\ Cardinality(Requests) \in Nat
    BY FiniteAssumption, FS_Subset, FS_CardinalityType

\* A part of a set of requests has as many members as are not outside it.
LEMMA PartSize ==
    ASSUME NEW S \in SUBSET Requests, NEW T \in SUBSET S
    PROVE  Cardinality(S \ T) = Cardinality(S) - Cardinality(T)
<1>1. S \cap T = T
    OBVIOUS
<1>2. IsFiniteSet(S)
    BY RequestSets
<1>3. Cardinality(S \ T) = Cardinality(S) - Cardinality(S \cap T)
    BY <1>2, FS_Difference
<1> QED
    BY <1>1, <1>3

\* Changing references only ever by dropping some keeps the count exact.
LEMMA DropCount ==
    ASSUME inflight = Cardinality(Alive(cached, current)),
           NEW cache, NEW slots, Drop(cache, slots),
           Alive(cache, slots) \subseteq Alive(cached, current)
    PROVE  inflight' = Cardinality(Alive(cached', current'))
<1>1. /\ Alive(cached, current) \in SUBSET Requests
      /\ Alive(cache, slots) \in SUBSET Requests
    BY DEF Alive
<1>2. cached' = cache /\ current' = slots
      /\ inflight' = inflight - Cardinality(Alive(cached, current) \ Alive(cache, slots))
    BY DEF Drop
<1> QED
    BY <1>1, <1>2, PartSize, RequestSets

\* A step counts the recorders that exist.
LEMMA CountStep ==
    ASSUME Inv, [Next]_vars
    PROVE  CountInv'
<1> USE DEF Live
<1>t. /\ TypeOK /\ WorkerInv /\ CountInv
      /\ \A t \in Threads, r \in Requests : current[t] = r => pc[r] # "new"
    BY DEF Inv, SlotInv
<1>1. ASSUME NEW r \in Requests, NEW t \in Threads, Arrive(r, t)
      PROVE  CountInv'
  <2>1. r \notin Alive(cached, current)
      BY <1>1, <1>t DEF Arrive, Alive, CountInv
  <2>2. Alive(cached', current') = Alive(cached, current) \cup {r}
      BY <1>1, <1>t DEF Arrive, Alive, TypeOK
  <2>3. Cardinality(Alive(cached', current')) = Cardinality(Alive(cached, current)) + 1
      BY <2>1, <2>2, RequestSets, FS_AddElement DEF Alive
  <2>4. \A q \in Requests : cached'[q] <=> q \in Live'
      BY <1>1, <1>t DEF Arrive, CountInv, TypeOK
  <2> QED
      BY <2>3, <2>4, <1>1, <1>t DEF Arrive, CountInv
<1>2. ASSUME NEW r \in Requests, Begin(r)
      PROVE  CountInv'
  <2>1. worker[r] \in Threads /\ cached[r]
      BY <1>2, <1>t DEF Begin, WorkerInv, CountInv
  <2>2. Alive(cached, [current EXCEPT ![worker[r]] = r]) \subseteq Alive(cached, current)
      BY <2>1, <1>t DEF Alive, TypeOK
  <2>3. inflight' = Cardinality(Alive(cached', current'))
      BY <2>2, <1>2, <1>t, DropCount DEF Begin, CountInv
  <2>4. \A q \in Requests : cached'[q] <=> q \in Live'
      BY <1>2, <1>t DEF Begin, Drop, CountInv, TypeOK
  <2> QED
      BY <2>3, <2>4 DEF CountInv
<1>3. ASSUME NEW r \in Requests, Return(r)
      PROVE  CountInv'
  <2>1. worker[r] \in Threads
      BY <1>3, <1>t DEF Return, WorkerInv
  <2>2. Alive(cached, [current EXCEPT ![worker[r]] = None]) \subseteq Alive(cached, current)
      BY <2>1, <1>t, NoneAssumption DEF Alive, TypeOK
  <2>3. inflight' = Cardinality(Alive(cached', current'))
      BY <2>2, <1>3, <1>t, DropCount DEF Return, CountInv
  <2>4. \A q \in Requests : cached'[q] <=> q \in Live'
      BY <1>3, <1>t DEF Return, Drop, CountInv, TypeOK
  <2> QED
      BY <2>3, <2>4 DEF CountInv
<1>4. ASSUME NEW r \in Requests, Release(r)
      PROVE  CountInv'
  <2>2. Alive([cached EXCEPT ![r] = FALSE], current) \subseteq Alive(cached, current)
      BY <1>t DEF Alive, TypeOK
  <2>3. inflight' = Cardinality(Alive(cached', current'))
      BY <2>2, <1>4, <1>t, DropCount DEF Release, CountInv
  <2>4. \A q \in Requests : cached'[q] <=> q \in Live'
      BY <1>4, <1>t DEF Release, Drop, CountInv, TypeOK
  <2> QED
      BY <2>3, <2>4 DEF CountInv
<1>5. CASE recorderVars' = recorderVars /\ Live' = Live
    BY <1>5, <1>t DEF recorderVars, CountInv
<1>6. ASSUME NEW r \in Requests,
             \/ Observe(r) \/ ReadBody(r) \/ EnterHandler(r) \/ RecordResponse(r)
             \/ Suspend(r) \/ Measure(r) \/ \E t \in Threads : Resume(r, t)
      PROVE  CountInv'
  <2>1. Live' = Live
      BY <1>6, <1>t DEF Observe, ReadBody, EnterHandler, RecordResponse, Suspend, Measure,
         Resume, TypeOK
  <2>2. recorderVars' = recorderVars
      BY <1>6 DEF Observe, ReadBody, EnterHandler, RecordResponse, Suspend, Measure, Resume
  <2> QED
      BY <2>1, <2>2, <1>5
<1>7. CASE UNCHANGED vars
    BY <1>5, <1>7 DEF vars
<1> QED
    BY <1>1, <1>2, <1>3, <1>4, <1>6, <1>7 DEF Next, Step

\* The recorders that exist are at most as many as the requests.
LEMMA InflightTypes ==
    ASSUME CountInv
    PROVE  inflight \in 0..Cardinality(Requests)
<1>1. Alive(cached, current) \in SUBSET Requests
    BY DEF Alive
<1> QED
    BY <1>1, RequestSets DEF CountInv

-----------------------------------------------------------------------------
(* Types and threads *)

\* A step keeps the types.
LEMMA TypeStep ==
    ASSUME Inv, [Next]_vars
    PROVE  TypeOK'
<1>t. TypeOK /\ WorkerInv /\ inflight \in 0..Cardinality(Requests)
    BY InflightTypes DEF Inv
<1>i. inflight' \in 0..Cardinality(Requests)
  <2>1. CountInv'
      BY CountStep
  <2>2. Alive(cached', current') \in SUBSET Requests
      BY DEF Alive
  <2> QED
      BY <2>1, <2>2, RequestSets DEF CountInv
<1> USE DEF recorderVars, Labels
<1>1. ASSUME NEW r \in Requests, NEW t \in Threads, Arrive(r, t) \/ Resume(r, t)
      PROVE  TypeOK'
  <2>1. CASE Arrive(r, t)
      BY <2>1, <1>t, <1>i DEF Arrive, TypeOK
  <2>2. CASE Resume(r, t)
      BY <2>2, <1>t DEF Resume, TypeOK
  <2> QED
      BY <1>1, <2>1, <2>2
<1>2. ASSUME NEW r \in Requests, Observe(r) \/ ReadBody(r) \/ RecordResponse(r) \/ Suspend(r)
      PROVE  TypeOK'
  <2>1. CASE Observe(r)
      BY <2>1, <1>t DEF Observe, TypeOK
  <2>2. CASE ReadBody(r) \/ RecordResponse(r) \/ Suspend(r)
      BY <2>2, <1>t DEF ReadBody, RecordResponse, Suspend, TypeOK
  <2> QED
      BY <1>2, <2>1, <2>2
<1>3. ASSUME NEW r \in Requests, Begin(r) \/ Return(r) \/ Release(r)
      PROVE  TypeOK'
  <2>1. CASE Begin(r)
      BY <2>1, <1>t, <1>i DEF Begin, Drop, TypeOK
  <2>2. CASE Return(r)
      BY <2>2, <1>t, <1>i DEF Return, Drop, TypeOK
  <2>3. CASE Release(r)
      BY <2>3, <1>t, <1>i DEF Release, Drop, TypeOK
  <2> QED
      BY <1>3, <2>1, <2>2, <2>3
<1>4. ASSUME NEW r \in Requests, EnterHandler(r)
      PROVE  TypeOK'
  <2>1. current[worker[r]] \in Requests \cup {None}
      BY <1>4, <1>t DEF EnterHandler, WorkerInv, TypeOK
  <2>2. hits' \in [Requests -> SUBSET (Requests \cup {None})]
      BY <1>4, <2>1, <1>t DEF EnterHandler, TypeOK
  <2>3. entered' \in [Requests -> BOOLEAN]
      BY <1>4, <1>t DEF EnterHandler, TypeOK
  <2> QED
      BY <1>4, <1>t, <2>2, <2>3 DEF EnterHandler, TypeOK
<1>5. ASSUME NEW r \in Requests, Measure(r)
      PROVE  TypeOK'
  <2>1. current[worker[r]] \in Requests \cup {None}
      BY <1>5, <1>t DEF Measure, WorkerInv, TypeOK
  <2> QED
      BY <1>5, <1>t, <2>1 DEF Measure, TypeOK
<1>6. CASE UNCHANGED vars
    BY <1>6, <1>t DEF vars, TypeOK
<1> QED
    BY <1>1, <1>2, <1>3, <1>4, <1>5, <1>6 DEF Next, Step

\* A step keeps the threads apart.
LEMMA WorkerStep ==
    ASSUME Inv, [Next]_vars
    PROVE  WorkerInv'
<1>t. TypeOK /\ WorkerInv
    BY DEF Inv
<1>1. ASSUME NEW r \in Requests, NEW t \in Threads, Arrive(r, t) \/ Resume(r, t)
      PROVE  WorkerInv'
    BY <1>1, <1>t DEF Arrive, Resume, Idle, WorkerInv, TypeOK
<1>2. ASSUME NEW r \in Requests, Suspend(r)
      PROVE  WorkerInv'
    BY <1>2, <1>t DEF Suspend, WorkerInv, TypeOK
<1>3. ASSUME NEW r \in Requests, Release(r)
      PROVE  WorkerInv'
    BY <1>3, <1>t DEF Release, WorkerInv, TypeOK
<1>4. ASSUME NEW r \in Requests, Observe(r) \/ Begin(r) \/ EnterHandler(r)
             \/ Return(r) \/ RecordResponse(r) \/ Measure(r)
      PROVE  WorkerInv'
    BY <1>4, <1>t DEF Observe, Begin, EnterHandler, Return, RecordResponse, Measure,
       WorkerInv, TypeOK
<1>5. ASSUME NEW r \in Requests, ReadBody(r)
      PROVE  WorkerInv'
    BY <1>5, <1>t DEF ReadBody, Running, WorkerInv, TypeOK
<1>6. CASE UNCHANGED vars
    BY <1>6, <1>t DEF vars, WorkerInv
<1> QED
    BY <1>1, <1>2, <1>3, <1>4, <1>5, <1>6 DEF Next, Step

\* A step keeps requests on the way of their route.
LEMMA RouteStep ==
    ASSUME Inv, [Next]_vars
    PROVE  RouteInv' /\ route' = route
<1>t. TypeOK /\ RouteInv
    BY DEF Inv
<1>1. ASSUME NEW r \in Requests, \/ Observe(r) \/ Begin(r) \/ ReadBody(r)
             \/ \E t \in Threads : Arrive(r, t) \/ Resume(r, t)
      PROVE  RouteInv' /\ route' = route
    BY <1>1, <1>t DEF Observe, Begin, ReadBody, Arrive, Resume, RouteInv, TypeOK
<1>2. ASSUME NEW r \in Requests, \/ Suspend(r) \/ Measure(r) \/ EnterHandler(r)
             \/ Return(r) \/ RecordResponse(r) \/ Release(r)
      PROVE  RouteInv' /\ route' = route
    BY <1>2, <1>t DEF Suspend, Measure, EnterHandler, Return, RecordResponse, Release,
       RouteInv, TypeOK
<1>3. CASE UNCHANGED vars
    BY <1>3, <1>t DEF vars, RouteInv
<1> QED
    BY <1>1, <1>2, <1>3 DEF Next, Step

-----------------------------------------------------------------------------
(* The slots *)

\* A step keeps the slots as SlotInv says: a request writes and clears the slot
\* of the thread it runs on, which is not the thread of another request.
LEMMA SlotStep ==
    ASSUME Inv, [Next]_vars
    PROVE  SlotInv'
<1>t. TypeOK /\ WorkerInv /\ RouteInv /\ SlotInv /\ None \notin Requests
    BY NoneAssumption DEF Inv
<1>k. \A r \in Requests : route[r] \in {"ping", "get", "post"}
    BY <1>t DEF TypeOK, RouteKinds
<1>1. ASSUME NEW r \in Requests, NEW t \in Threads, Arrive(r, t)
      PROVE  SlotInv'
    BY <1>1, <1>t DEF Arrive, SlotInv, TypeOK
<1>2. ASSUME NEW r \in Requests, Observe(r)
      PROVE  SlotInv'
    BY <1>2, <1>t DEF Observe, recorderVars, SlotInv, TypeOK
<1>3. ASSUME NEW r \in Requests, Begin(r)
      PROVE  SlotInv'
  <2>1. worker[r] \in Threads /\ route[r] # "ping"
      BY <1>3, <1>t DEF Begin, WorkerInv, RouteInv
  <2>2. /\ current' = [current EXCEPT ![worker[r]] = r]
        /\ worker' = worker /\ route' = route
        /\ pc' = [pc EXCEPT ![r] = IF route[r] = "post" THEN "body" ELSE "enter"]
      BY <1>3 DEF Begin, Drop
  <2>3. ASSUME NEW t \in Threads, NEW q \in Requests, current'[t] = q
        PROVE  /\ pc'[q] \notin {"new", "arrived", "guard"}
               /\ route'[q] # "ping"
               /\ route'[q] = "get" => pc'[q] \in {"enter", "handler"} /\ worker'[q] = t
    <3>1. CASE q = r
        BY <2>1, <2>2, <2>3, <3>1, <1>3, <1>t, <1>k DEF Begin, SlotInv, TypeOK
    <3>2. CASE q # r
      <4>1. current[t] = q
          BY <2>1, <2>2, <2>3, <3>2, <1>t DEF TypeOK
      <4> QED
          BY <2>2, <3>2, <4>1, <1>t DEF SlotInv, TypeOK
    <3> QED
        BY <3>1, <3>2
  <2>4. ASSUME NEW q \in Requests, route'[q] = "get", pc'[q] \in {"enter", "handler"}
        PROVE  current'[worker'[q]] = q
    <3>1. CASE q = r
        BY <2>1, <2>2, <3>1, <1>t DEF TypeOK
    <3>2. CASE q # r
      <4>1. pc[q] \in {"enter", "handler"} /\ route[q] = "get"
          BY <2>2, <2>4, <3>2, <1>t DEF TypeOK
      <4>2. worker[q] \in Threads /\ worker[q] # worker[r]
          BY <2>1, <3>2, <4>1, <1>t, NoneAssumption DEF WorkerInv
      <4> QED
          BY <2>1, <2>2, <4>1, <4>2, <1>t DEF SlotInv, TypeOK
    <3> QED
        BY <3>1, <3>2
  <2> QED
      BY <2>3, <2>4 DEF SlotInv
<1>4. ASSUME NEW r \in Requests, Return(r)
      PROVE  SlotInv'
  <2>1. worker[r] \in Threads
      BY <1>4, <1>t DEF Return, WorkerInv
  <2>2. /\ current' = [current EXCEPT ![worker[r]] = None]
        /\ worker' = worker /\ route' = route /\ pc' = [pc EXCEPT ![r] = "respond"]
      BY <1>4 DEF Return, Drop
  <2>3. ASSUME NEW t \in Threads, NEW q \in Requests, current'[t] = q
        PROVE  /\ pc'[q] \notin {"new", "arrived", "guard"}
               /\ route'[q] # "ping"
               /\ route'[q] = "get" => pc'[q] \in {"enter", "handler"} /\ worker'[q] = t
    <3>1. t # worker[r] /\ current[t] = q
        BY <2>1, <2>2, <2>3, <1>t DEF TypeOK
    <3> QED
        BY <2>2, <3>1, <1>t DEF SlotInv, TypeOK
  <2>4. ASSUME NEW q \in Requests, route'[q] = "get", pc'[q] \in {"enter", "handler"}
        PROVE  current'[worker'[q]] = q
    <3>1. pc[q] \in {"enter", "handler"} /\ route[q] = "get" /\ q # r
        BY <2>2, <2>4, <1>t DEF TypeOK
    <3>2. worker[q] \in Threads /\ worker[q] # worker[r]
        BY <2>1, <3>1, <1>t, NoneAssumption DEF WorkerInv
    <3> QED
        BY <2>1, <2>2, <3>1, <3>2, <1>t DEF SlotInv, TypeOK
  <2> QED
      BY <2>3, <2>4 DEF SlotInv
<1>5. ASSUME NEW r \in Requests, \/ ReadBody(r) \/ EnterHandler(r) \/ RecordResponse(r)
             \/ Measure(r)
      PROVE  SlotInv'
    BY <1>5, <1>t DEF ReadBody, EnterHandler, RecordResponse, Measure, recorderVars,
       RouteInv, SlotInv, TypeOK
<1>6. ASSUME NEW r \in Requests, \/ Suspend(r) \/ \E t \in Threads : Resume(r, t)
      PROVE  SlotInv'
    BY <1>6, <1>t DEF Suspend, Resume, recorderVars, RouteInv, SlotInv, TypeOK
<1>7. ASSUME NEW r \in Requests, Release(r)
      PROVE  SlotInv'
    BY <1>7, <1>t DEF Release, Drop, SlotInv, TypeOK
<1>8. CASE UNCHANGED vars
    BY <1>8, <1>t DEF vars, recorderVars, SlotInv
<1> QED
    BY <1>1, <1>2, <1>3, <1>4, <1>5, <1>6, <1>7, <1>8 DEF Next, Step

-----------------------------------------------------------------------------
(* What the recorders hold *)

\* A step adds only own samples to a request that awaits no body.
LEMMA SampleStep ==
    ASSUME Inv, [Next]_vars
    PROVE  GuardedSamplesAttributed'
<1>t. TypeOK /\ RouteInv /\ SlotInv /\ GuardedSamplesAttributed /\ route' = route
    BY RouteStep DEF Inv
<1>k. \A r \in Requests : route[r] \in {"ping", "get", "post"}
    BY <1>t DEF TypeOK, RouteKinds
<1>1. ASSUME NEW r \in Requests, EnterHandler(r) \/ Measure(r), route[r] # "post"
      PROVE  hits'[r] \subseteq {r}
  <2>1. current[worker[r]] = r
      BY <1>1, <1>t, <1>k DEF EnterHandler, Measure, RouteInv, SlotInv
  <2>2. hits'[r] \subseteq hits[r] \cup {r}
      BY <1>1, <2>1, <1>t DEF EnterHandler, Measure, TypeOK
  <2> QED
      BY <2>2, <1>1, <1>t DEF GuardedSamplesAttributed
<1>2. ASSUME NEW r \in Requests, EnterHandler(r) \/ Measure(r)
      PROVE  \A q \in Requests \ {r} : hits'[q] = hits[q]
    BY <1>2, <1>t DEF EnterHandler, Measure, TypeOK
<1>3. ASSUME NEW r \in Requests, EnterHandler(r) \/ Measure(r)
      PROVE  GuardedSamplesAttributed'
    BY <1>1, <1>2, <1>3, <1>t DEF GuardedSamplesAttributed
<1>4. CASE hits' = hits
    BY <1>4, <1>t DEF GuardedSamplesAttributed
<1> QED
    BY <1>3, <1>4 DEF Next, Step, Observe, Begin, ReadBody, Return, RecordResponse, Release,
       Suspend, Arrive, Resume, vars

\* A step lets a request observe itself.
LEMMA ObserveStep ==
    ASSUME Inv, [Next]_vars
    PROVE  ConcurrencyCountsSelf'
<1>t. TypeOK /\ CountInv /\ ConcurrencyCountsSelf
    BY DEF Inv
<1>1. ASSUME NEW r \in Requests, Observe(r)
      PROVE  ConcurrencyCountsSelf'
  <2>1. r \in Alive(cached, current)
      BY <1>1, <1>t DEF Observe, CountInv, Live, Alive
  <2>2. Cardinality(Alive(cached, current)) # 0
      BY <2>1, RequestSets, FS_EmptySet DEF Alive
  <2>3. inflight >= 1
      BY <2>2, <1>t, RequestSets DEF CountInv, Alive
  <2> QED
      BY <1>1, <2>3, <1>t DEF Observe, ConcurrencyCountsSelf, TypeOK
<1>2. CASE /\ observed' = observed
           /\ \A r \in Requests : pc'[r] \notin {"new", "arrived"} => pc[r] \notin {"new", "arrived"}
    BY <1>2, <1>t DEF ConcurrencyCountsSelf
<1>3. ASSUME NEW r \in Requests,
             \/ \E t \in Threads : Arrive(r, t) \/ Resume(r, t)
             \/ Begin(r) \/ ReadBody(r) \/ EnterHandler(r) \/ Return(r)
             \/ RecordResponse(r) \/ Release(r) \/ Suspend(r) \/ Measure(r)
      PROVE  /\ observed' = observed
             /\ \A q \in Requests : pc'[q] \notin {"new", "arrived"} => pc[q] \notin {"new", "arrived"}
    BY <1>3, <1>t DEF Begin, ReadBody, EnterHandler, Return, RecordResponse, Release, Suspend,
       Measure, Arrive, Resume, TypeOK
<1>4. CASE UNCHANGED vars
    BY <1>2, <1>4 DEF vars
<1> QED
    BY <1>1, <1>2, <1>3, <1>4 DEF Next, Step

\* The bounds on INFLIGHT follow from what the slots can hold.
LEMMA OverBounded ==
    ASSUME Inv
    PROVE  InflightBounded
<1> DEFINE A == Alive(cached, current)
           Stale == A \ Live
           GonePosts == {r \in Requests : route[r] = "post" /\ pc[r] = "gone"}
           Slots == {t \in Threads : current[t] \in Stale}
<1>t. TypeOK /\ SlotInv /\ CountInv
    BY DEF Inv
<1>1. A \in SUBSET Requests /\ Live \in SUBSET A
    BY <1>t DEF Alive, Live, CountInv
<1>2. inflight - Cardinality(Live) = Cardinality(Stale) /\ Cardinality(Stale) \in Nat
  <2>1. Stale \in SUBSET Requests
      BY <1>1
  <2> QED
      BY <1>1, <2>1, <1>t, PartSize, RequestSets DEF CountInv
<1>3. \A r \in Stale : r \in Requests /\ ~cached[r] /\ \E t \in Threads : current[t] = r
    BY <1>t DEF Alive, CountInv
<1>4. Stale \subseteq GonePosts
  <2>1. ASSUME NEW r \in Stale
        PROVE  route[r] = "post" /\ pc[r] = "gone"
    <3>1. PICK t \in Threads : current[t] = r
        BY <1>3
    <3>2. pc[r] \in {"new", "gone"} /\ r \in Requests /\ route[r] \in RouteKinds
        BY <1>3, <1>t DEF Live, TypeOK
    <3> QED
        BY <3>1, <3>2, <1>t DEF SlotInv, RouteKinds
  <2> QED
      BY <2>1, <1>3
<1>5. Cardinality(Stale) <= Cardinality(GonePosts)
    BY <1>4, FS_Subset, RequestSets
<1>6. Cardinality(Stale) <= Cardinality(Threads)
  <2>1. IsFiniteSet(Slots) /\ Cardinality(Slots) <= Cardinality(Threads)
      BY FiniteAssumption, FS_Subset
  <2>2. [t \in Slots |-> current[t]] \in Surjection(Slots, Stale)
      BY <1>3 DEF Surjection
  <2>3. Cardinality(Stale) <= Cardinality(Slots)
      BY <2>1, <2>2, FS_Surjection
  <2>4. Cardinality(Slots) \in Nat /\ Cardinality(Threads) \in Nat
      BY <2>1, FiniteAssumption, FS_CardinalityType
  <2> QED
      BY <1>2, <2>1, <2>3, <2>4
<1> QED
    BY <1>2, <1>5, <1>6 DEF InflightBounded

-----------------------------------------------------------------------------
(* The theorems *)

\* The invariant holds before the first request.
LEMMA InvInit ==
    ASSUME Init
    PROVE  Inv
<1>1. Alive(cached, current) = {} /\ Live = {}
    BY NoneAssumption DEF Init, Alive, Live
<1>2. CountInv
    BY <1>1, FS_EmptySet DEF Init, CountInv
<1>3. Cardinality(Requests) \in Nat
    BY RequestSets
<1>4. TypeOK
    BY <1>3, RoutesAssumption DEF Init, TypeOK, Labels
<1>5. WorkerInv /\ RouteInv /\ SlotInv
    BY NoneAssumption DEF Init, WorkerInv, RouteInv, SlotInv
<1>6. GuardedSamplesAttributed /\ ConcurrencyCountsSelf
    BY DEF Init, GuardedSamplesAttributed, ConcurrencyCountsSelf
<1> QED
    BY <1>2, <1>4, <1>5, <1>6 DEF Inv

\* The invariant holds in every state of the instrumentation.
THEOREM Invariance == Spec => []Inv
<1>1. Init => Inv
    BY InvInit
<1>2. Inv /\ [Next]_vars => Inv'
    BY TypeStep, WorkerStep, RouteStep, SlotStep, CountStep, SampleStep, ObserveStep DEF Inv
<1> QED
    BY <1>1, <1>2, PTL DEF Spec

\* The types: INFLIGHT never wraps below zero nor exceeds the requests.
THEOREM TypeCorrect == Spec => []TypeOK
<1>1. Inv => TypeOK
    BY DEF Inv
<1> QED
    BY <1>1, Invariance, PTL

\* Samples of a request without a body land in its own recorder, whatever
\* requests with bodies leave in the slots of other threads.
THEOREM SamplesLandRight == Spec => []GuardedSamplesAttributed
<1>1. Inv => GuardedSamplesAttributed
    BY DEF Inv
<1> QED
    BY <1>1, Invariance, PTL

\* INFLIGHT is exact up to the recorders that Timing left in slots of threads.
THEOREM InflightIsBounded == Spec => []InflightBounded
<1>1. Inv => InflightBounded
    BY OverBounded
<1> QED
    BY <1>1, Invariance, PTL

\* A request that reports its concurrency has counted itself.
THEOREM CountsSelf == Spec => []ConcurrencyCountsSelf
<1>1. Inv => ConcurrencyCountsSelf
    BY DEF Inv
<1> QED
    BY <1>1, Invariance, PTL
=============================================================================
