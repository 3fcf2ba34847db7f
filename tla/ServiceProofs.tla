--------------------------- MODULE ServiceProofs ---------------------------
(* Proofs about Service for any number of requests and workers. *)
EXTENDS Service, TLAPS

-----------------------------------------------------------------------------
(* The inductive invariant *)

\* The lines of the log.
Lines == [event : {"request", "panic", "error", "response"}, status : Statuses \cup {0}]

\* The types of the log, which TypeOK leaves to AuditComplete.
LogTypes == log \in [Requests -> Seq(Lines)]

\* The lines about an error, if a status is one.
ErrorLines(s) == IF s = 200 THEN <<>> ELSE <<ErrorLine(s)>>

\* Lines l are the log of a request that was answered with status s and whose
\* response line is not written yet.
Answered(l, s) ==
    \E story \in {<<>>, <<PanicLine>>} :
        /\ l = <<RequestLine>> \o story \o ErrorLines(s)
        /\ story # <<>> => s = 500

\* Lines l are the log of a request that is done.
Finished(l, s) ==
    \E story \in {<<>>, <<PanicLine>>} :
        /\ l = <<RequestLine>> \o story \o ErrorLines(s) \o <<ResponseLine(s)>>
        /\ story # <<>> => s = 500

\* What lines l say of a request at a label, about which no line was lost.
Tells(label, l, s) ==
    /\ label = "new" => l = <<>>
    /\ label \in {"route", "body", "handler", "lock", "tool", "hung"} => l = <<RequestLine>>
    /\ label = "unwind" => l = <<RequestLine>> \o <<PanicLine>>
    /\ label = "respond" => Answered(l, s)
    /\ label = "done" => Finished(l, s)

\* The log of a request tells where it is.
Told(r) == Tells(pc[r], log[r], status[r])

LogInv == \A r \in Requests : r \notin lost => Told(r)

\* The lock is held by the one request that runs TPM tools, and is not left
\* behind by one that has returned or panicked.
LockHeld ==
    \A r \in Requests :
        lock = r <=> pc[r] \in {"tool", "hung", "unwind"} /\ route[r] \in NeedsLock

\* Requests that need no lock do not wait for it.
RouteInv == \A r \in Requests : pc[r] = "lock" => route[r] \in NeedsLock

Inv == TypeOK /\ LogTypes /\ LogInv /\ LockHeld /\ RouteInv

-----------------------------------------------------------------------------
(* Lines of the log *)

\* Every line is well-formed.
LEMMA LineTypes ==
    /\ RequestLine \in Lines /\ PanicLine \in Lines
    /\ \A s \in Statuses \cup {0} : ErrorLine(s) \in Lines /\ ResponseLine(s) \in Lines
    BY DEF Lines, RequestLine, PanicLine, ErrorLine, ResponseLine, Statuses

\* Nothing added to a log leaves it as it was; to an empty log, gives it.
LEMMA Concat ==
    \A s \in Seq(Lines) : s \o <<>> = s /\ <<>> \o s = s
    OBVIOUS

\* What a step says about the log of request r: the lines, or that some are
\* lost; and nothing about another request.
Says(r, lines) ==
    /\ LogTypes'
    /\ \A q \in Requests \ {r} : log'[q] = log[q] /\ (q \in lost' <=> q \in lost)
    /\ r \notin lost' => r \notin lost /\ log'[r] = log[r] \o lines

\* An event says its lines.
LEMMA EventSays ==
    ASSUME LogTypes, NEW r \in Requests, NEW lines \in Seq(Lines), event(r, lines)
    PROVE  Says(r, lines)
<1>1. log[r] \o lines \in Seq(Lines)
    BY DEF LogTypes
<1> QED
    BY <1>1 DEF LogTypes, event, Says

\* A step without an event says nothing.
LEMMA SilenceSays ==
    ASSUME LogTypes, NEW r \in Requests, UNCHANGED logVars
    PROVE  Says(r, <<>>)
<1>1. log[r] \o <<>> = log[r]
    BY Concat DEF LogTypes
<1> QED
    BY <1>1 DEF LogTypes, logVars, Says

\* An answer says the error, if it is one.
LEMMA AnswerSays ==
    ASSUME LogTypes, NEW r \in Requests, NEW s \in Statuses, Answer(r, s)
    PROVE  Says(r, ErrorLines(s))
<1>1. CASE s = 200
    BY <1>1, SilenceSays DEF Answer, ErrorLines
<1>2. CASE s # 200
  <2>1. <<ErrorLine(s)>> \in Seq(Lines)
      BY LineTypes
  <2> QED
      BY <1>2, <2>1, EventSays DEF Answer, ErrorLines
<1> QED
    BY <1>1, <1>2

-----------------------------------------------------------------------------
(* Steps *)

\* An answer is well-typed.
LEMMA AnswerTypes ==
    ASSUME TypeOK, NEW r \in Requests, NEW s \in Statuses, Answer(r, s)
    PROVE  /\ status' = [status EXCEPT ![r] = s]
           /\ status' \in [Requests -> Statuses \cup {0}]
           /\ pc' = [pc EXCEPT ![r] = "respond"]
    BY DEF TypeOK, Answer, Goto

\* A step keeps the types, and no worker serves two requests.
LEMMA TypeStep ==
    ASSUME TypeOK, [Next]_vars
    PROVE  TypeOK'
<1> USE NoneAssumption DEF Idle, Labels
<1>1. ASSUME NEW r \in Requests, NEW w \in Workers, OnRequest(r, w) \/ BodyRead(r, w)
      PROVE  TypeOK'
    BY <1>1 DEF OnRequest, BodyRead, Free, Goto, TypeOK
<1>2. ASSUME NEW r \in Requests, Route(r)
      PROVE  TypeOK'
  <2>1. CASE Answer(r, 200) /\ UNCHANGED worker
      BY <1>2, <2>1, AnswerTypes DEF Route, TypeOK, Statuses
  <2>2. CASE Answer(r, 404) /\ UNCHANGED worker
      BY <1>2, <2>2, AnswerTypes DEF Route, TypeOK, Statuses
  <2>3. CASE Goto(r, "body") /\ worker' = [worker EXCEPT ![r] = None] /\ UNCHANGED status
      BY <1>2, <2>3 DEF Route, Goto, TypeOK
  <2>4. CASE (Goto(r, "lock") \/ Goto(r, "handler")) /\ UNCHANGED <<worker, status>>
      BY <1>2, <2>4 DEF Route, Goto, TypeOK
  <2> QED
      BY <1>2, <2>1, <2>2, <2>3, <2>4 DEF Route
<1>3. ASSUME NEW r \in Requests, Handler(r)
      PROVE  TypeOK'
  <2>1. CASE Answer(r, 400)
      BY <1>3, <2>1, AnswerTypes DEF Handler, TypeOK, Statuses
  <2>2. CASE (Goto(r, "lock") \/ Goto(r, "tool")) /\ UNCHANGED status
      BY <1>3, <2>2 DEF Handler, Goto, TypeOK
  <2> QED
      BY <1>3, <2>1, <2>2 DEF Handler
<1>4. ASSUME NEW r \in Requests, Lock(r) \/ ToolHangs(r) \/ Panic(r)
      PROVE  TypeOK'
    BY <1>4 DEF Lock, ToolHangs, Panic, Goto, TypeOK
<1>5. ASSUME NEW r \in Requests, NEW s \in {200, 500, 501}, ToolReturns(r, s)
      PROVE  TypeOK'
    BY <1>5, AnswerTypes DEF ToolReturns, Released, TypeOK, Statuses
<1>6. ASSUME NEW r \in Requests, Unwind(r)
      PROVE  TypeOK'
    BY <1>6, AnswerTypes DEF Unwind, Released, TypeOK, Statuses
<1>7. ASSUME NEW r \in Requests, OnResponse(r) \/ Disconnect(r)
      PROVE  TypeOK'
    BY <1>7 DEF OnResponse, Disconnect, Goto, TypeOK
<1>8. CASE SinkChanges \/ UNCHANGED vars
    BY <1>8 DEF SinkChanges, vars, TypeOK
<1> QED
    BY <1>1, <1>2, <1>3, <1>4, <1>5, <1>6, <1>7, <1>8 DEF Next, Step

\* Of a step of one request, the log of that request is all there is to see to.
LEMMA SaysOthers ==
    ASSUME TypeOK, LogInv, NEW r \in Requests, NEW lines, Says(r, lines),
           \A q \in Requests \ {r} : pc'[q] = pc[q] /\ status'[q] = status[q],
           r \notin lost' => Told(r)'
    PROVE  LogTypes' /\ LogInv'
<1>1. ASSUME NEW q \in Requests \ {r}, q \notin lost'
      PROVE  Told(q)'
    BY <1>1 DEF Says, LogInv, Told
<1> QED
    BY <1>1 DEF Says, LogInv

\* A request that has not panicked is answered.
LEMMA AnswerTold ==
    ASSUME TypeOK, LogTypes, LogInv, NEW r \in Requests, NEW s \in Statuses, Answer(r, s),
           \/ pc[r] \in {"route", "handler", "tool"}
           \/ pc[r] = "unwind" /\ s = 500
    PROVE  LogTypes' /\ LogInv'
<1>1. Says(r, ErrorLines(s))
    BY AnswerSays
<1>2. /\ \A q \in Requests \ {r} : pc'[q] = pc[q] /\ status'[q] = status[q]
      /\ pc'[r] = "respond" /\ status'[r] = s
    BY AnswerTypes DEF TypeOK
<1>3. ASSUME r \notin lost'
      PROVE  Answered(log'[r], s)
  <2>1. Told(r) /\ log'[r] = log[r] \o ErrorLines(s)
      BY <1>1, <1>3 DEF Says, LogInv
  <2>2. CASE pc[r] \in {"route", "handler", "tool"}
    <3>1. log[r] = <<RequestLine>> /\ <<RequestLine>> \in Seq(Lines)
        BY <2>1, <2>2, LineTypes DEF Told, Tells
    <3>2. log'[r] = <<RequestLine>> \o <<>> \o ErrorLines(s)
        BY <2>1, <3>1, Concat
    <3> QED
        BY <3>2 DEF Answered
  <2>3. CASE pc[r] = "unwind" /\ s = 500
    <3>1. log'[r] = <<RequestLine>> \o <<PanicLine>> \o ErrorLines(s)
        BY <2>1, <2>3 DEF Told, Tells
    <3> QED
        BY <2>3, <3>1 DEF Answered
  <2> QED
      BY <2>2, <2>3
<1> QED
    BY <1>1, <1>2, <1>3, SaysOthers DEF Told, Tells

\* A request that goes on silently to where its log is the same.
LEMMA SilentTold ==
    ASSUME TypeOK, LogTypes, LogInv, NEW r \in Requests, NEW label, Goto(r, label),
           UNCHANGED <<logVars, status>>,
           pc[r] \in {"route", "body", "handler", "lock", "tool", "hung"},
           label \in {"route", "body", "handler", "lock", "tool", "hung", "gone"}
    PROVE  LogTypes' /\ LogInv'
<1>1. Says(r, <<>>)
    BY SilenceSays
<1>2. /\ \A q \in Requests \ {r} : pc'[q] = pc[q] /\ status'[q] = status[q]
      /\ pc'[r] = label
    BY DEF TypeOK, Goto
<1>3. r \notin lost' => Told(r)'
    BY <1>2 DEF LogInv, Told, Tells, logVars
<1> QED
    BY <1>1, <1>2, <1>3, SaysOthers

\* A step keeps the log telling what happened.
LEMMA LogStep ==
    ASSUME TypeOK, LogTypes, LogInv, [Next]_vars
    PROVE  LogTypes' /\ LogInv'
<1>1. ASSUME NEW r \in Requests, NEW w \in Workers, OnRequest(r, w)
      PROVE  LogTypes' /\ LogInv'
  <2>1. Says(r, <<RequestLine>>)
    <3>1. <<RequestLine>> \in Seq(Lines)
        BY LineTypes
    <3> QED
        BY <1>1, <3>1, EventSays DEF OnRequest
  <2>2. /\ \A q \in Requests \ {r} : pc'[q] = pc[q] /\ status'[q] = status[q]
        /\ pc'[r] = "route"
      BY <1>1 DEF OnRequest, Goto, TypeOK
  <2>3. r \notin lost' => Told(r)'
    <3>1. <<RequestLine>> \in Seq(Lines)
        BY LineTypes
    <3> QED
        BY <1>1, <2>1, <2>2, <3>1, Concat DEF OnRequest, Says, LogInv, Told, Tells
  <2> QED
      BY <2>1, <2>2, <2>3, SaysOthers
<1>2. ASSUME NEW r \in Requests, Route(r)
      PROVE  LogTypes' /\ LogInv'
  <2>1. \/ Answer(r, 200) \/ Answer(r, 404)
        \/ /\ Goto(r, "body") \/ Goto(r, "lock") \/ Goto(r, "handler")
           /\ UNCHANGED <<logVars, status>>
      BY <1>2 DEF Route
  <2> QED
      BY <1>2, <2>1, AnswerTold, SilentTold DEF Route, Statuses
<1>3. ASSUME NEW r \in Requests, Handler(r)
      PROVE  LogTypes' /\ LogInv'
  <2>1. \/ Answer(r, 400)
        \/ (Goto(r, "lock") \/ Goto(r, "tool")) /\ UNCHANGED <<logVars, status>>
      BY <1>3 DEF Handler
  <2> QED
      BY <1>3, <2>1, AnswerTold, SilentTold DEF Handler, Statuses
<1>4. ASSUME NEW r \in Requests, Lock(r) \/ ToolHangs(r) \/ Disconnect(r)
             \/ \E w \in Workers : BodyRead(r, w)
      PROVE  LogTypes' /\ LogInv'
    BY <1>4, SilentTold DEF Lock, ToolHangs, Disconnect, BodyRead
<1>5. ASSUME NEW r \in Requests, Panic(r)
      PROVE  LogTypes' /\ LogInv'
  <2>1. Says(r, <<PanicLine>>)
    <3>1. <<PanicLine>> \in Seq(Lines)
        BY LineTypes
    <3> QED
        BY <1>5, <3>1, EventSays DEF Panic
  <2>2. /\ \A q \in Requests \ {r} : pc'[q] = pc[q] /\ status'[q] = status[q]
        /\ pc'[r] = "unwind"
      BY <1>5 DEF Panic, Goto, TypeOK
  <2>3. r \notin lost' => Told(r)'
      BY <1>5, <2>1, <2>2 DEF Panic, Says, LogInv, Told, Tells
  <2> QED
      BY <2>1, <2>2, <2>3, SaysOthers
<1>6. ASSUME NEW r \in Requests,
             Unwind(r) \/ \E s \in {200, 500, 501} : ToolReturns(r, s)
      PROVE  LogTypes' /\ LogInv'
    BY <1>6, AnswerTold DEF Unwind, ToolReturns, Statuses
<1>7. ASSUME NEW r \in Requests, OnResponse(r)
      PROVE  LogTypes' /\ LogInv'
  <2>1. Says(r, <<ResponseLine(status[r])>>)
    <3>1. <<ResponseLine(status[r])>> \in Seq(Lines)
        BY LineTypes DEF TypeOK
    <3> QED
        BY <1>7, <3>1, EventSays DEF OnResponse
  <2>2. /\ \A q \in Requests \ {r} : pc'[q] = pc[q]
        /\ pc'[r] = "done" /\ status' = status
      BY <1>7 DEF OnResponse, Goto, TypeOK
  <2>3. ASSUME r \notin lost'
        PROVE  Told(r)'
    <3>1. /\ Answered(log[r], status[r])
          /\ log'[r] = log[r] \o <<ResponseLine(status[r])>>
        BY <1>7, <2>1, <2>3 DEF OnResponse, Says, LogInv, Told, Tells
    <3>2. Finished(log'[r], status[r])
      <4>1. PICK story \in {<<>>, <<PanicLine>>} :
                /\ log[r] = <<RequestLine>> \o story \o ErrorLines(status[r])
                /\ story # <<>> => status[r] = 500
          BY <3>1 DEF Answered
      <4>2. log'[r] = <<RequestLine>> \o story \o ErrorLines(status[r])
                       \o <<ResponseLine(status[r])>>
          BY <3>1, <4>1, Zenon
      <4> QED
          BY <4>1, <4>2, Zenon DEF Finished
    <3> QED
        BY <3>2, <2>2 DEF Told, Tells
  <2> QED
      BY <2>1, <2>2, <2>3, SaysOthers
<1>8. CASE SinkChanges \/ UNCHANGED vars
    BY <1>8 DEF SinkChanges, vars, logVars, LogTypes, LogInv, Told
<1> QED
    BY <1>1, <1>2, <1>3, <1>4, <1>5, <1>6, <1>7, <1>8 DEF Next, Step

\* A step keeps the lock with the request that runs the tools.
LEMMA LockStep ==
    ASSUME TypeOK, LockHeld, RouteInv, [Next]_vars
    PROVE  LockHeld' /\ RouteInv'
<1> USE NoneAssumption DEF NeedsLock, HasBody, Goto, TypeOK
<1>1. ASSUME NEW r \in Requests, \/ \E w \in Workers : OnRequest(r, w) \/ BodyRead(r, w)
             \/ Disconnect(r) \/ OnResponse(r)
      PROVE  LockHeld' /\ RouteInv'
  <2>1. CASE \E w \in Workers : OnRequest(r, w)
      BY <2>1 DEF OnRequest, LockHeld, RouteInv
  <2>2. CASE \E w \in Workers : BodyRead(r, w)
      BY <2>2 DEF BodyRead, LockHeld, RouteInv
  <2>3. CASE Disconnect(r) \/ OnResponse(r)
      BY <2>3 DEF Disconnect, OnResponse, LockHeld, RouteInv
  <2> QED
      BY <1>1, <2>1, <2>2, <2>3
<1>2. ASSUME NEW r \in Requests, Route(r) \/ Handler(r)
      PROVE  LockHeld' /\ RouteInv'
    BY <1>2 DEF Route, Handler, Answer, LockHeld, RouteInv
<1>3. ASSUME NEW r \in Requests, Lock(r) \/ ToolHangs(r) \/ Panic(r)
      PROVE  LockHeld' /\ RouteInv'
    BY <1>3 DEF Lock, ToolHangs, Panic, LockHeld, RouteInv
<1>4. ASSUME NEW r \in Requests,
             Unwind(r) \/ \E s \in {200, 500, 501} : ToolReturns(r, s)
      PROVE  LockHeld' /\ RouteInv'
    BY <1>4 DEF Unwind, ToolReturns, Released, Answer, LockHeld, RouteInv
<1>5. CASE SinkChanges \/ UNCHANGED vars
    BY <1>5 DEF SinkChanges, vars, LockHeld, RouteInv
<1> QED
    BY <1>1, <1>2, <1>3, <1>4, <1>5 DEF Next, Step

-----------------------------------------------------------------------------
(* The theorems *)

\* The invariant holds before the first request.
LEMMA InvInit ==
    ASSUME Init
    PROVE  Inv
<1>1. TypeOK
    BY NoneAssumption DEF Init, TypeOK, Labels, Idle
<1>2. LogTypes /\ LogInv
    BY DEF Init, LogTypes, LogInv, Told, Tells
<1>3. LockHeld /\ RouteInv
    BY NoneAssumption DEF Init, LockHeld, RouteInv
<1> QED
    BY <1>1, <1>2, <1>3 DEF Inv

\* The invariant holds in every state of the service.
THEOREM Invariance == Spec => []Inv
<1>1. Init => Inv
    BY InvInit
<1>2. Inv /\ [Next]_vars => Inv'
    BY TypeStep, LogStep, LockStep DEF Inv
<1> QED
    BY <1>1, <1>2, PTL DEF Spec

\* The types; a worker serves one request at a time and is free when it is done.
THEOREM TypeCorrect == Spec => []TypeOK
<1>1. Inv => TypeOK
    BY DEF Inv
<1> QED
    BY <1>1, Invariance, PTL

\* The audit log is complete for every request that lost no line, whatever
\* panics, errors and other requests come between its lines.
THEOREM AuditIsComplete == Spec => []AuditComplete
<1>1. Inv => AuditComplete
  <2> SUFFICES ASSUME LogInv PROVE AuditComplete
      BY DEF Inv
  <2> QED
      BY DEF LogInv, Told, Tells, Finished, ErrorLines, AuditComplete
<1> QED
    BY <1>1, Invariance, PTL

\* The TPM lock is held exactly by a request that runs tools under it: no
\* return, error or panic leaves it locked, and no two requests hold it.
THEOREM LockIsReleased == Spec => []LockHeld
<1>1. Inv => LockHeld
    BY DEF Inv
<1> QED
    BY <1>1, Invariance, PTL
=============================================================================
