------------------------- MODULE VerificationProofs -------------------------
(* Proofs about Verification for every finite set of requests. *)
EXTENDS Verification, FiniteSetTheorems, TLAPS

-----------------------------------------------------------------------------
(* The inductive invariant *)

\* A request at one of these labels has a Scratch.
Scratching == {"mkdir", "decode", "sig", "msg", "ak", "checkquote"}

\* The requests for which no directory will be named any more.
Named == {r \in Requests : pc[r] \notin {"new", "ioctl", "count"}}

\* The counter never runs ahead of the requests it was advanced for.
CounterInv == counter \in Nat /\ counter <= Cardinality(Named)

\* A request has a directory of this process while it is at work, one that
\* the counter has passed; it exists once it was made, and it is nobody else's.
DirInv ==
    \A r \in Requests :
        /\ pc[r] \notin Scratching => dir[r] = None
        /\ pc[r] \in Scratching => \E c \in Counters : c < counter /\ dir[r] = <<pid, c>>
        /\ pc[r] \in Scratching \ {"mkdir"} => dir[r] \in dirs
        /\ \A q \in Requests \ {r} :
              pc[r] \in Scratching /\ pc[q] \in Scratching => dir[q] # dir[r]

\* The files that a request has written when it is at a label.
Written(label) == CASE label = "msg" -> {"sig"}
                    [] label = "ak" -> {"sig", "msg"}
                    [] label = "checkquote" -> Files
                    [] OTHER -> {}

\* What a request has written is still there.
FilesInv == \A r \in Requests : \A f \in Written(pc[r]) : files[dir[r]][f] = r

\* The TDX module accepts only genuine reports, and who is trusted is answered.
VerdictInv ==
    \A r \in Requests :
        /\ mac[r] = "accepted" => input[r].report = "genuine"
        /\ reply[r].trusted => pc[r] = "done"

Inv == /\ TypeOK /\ CounterInv /\ DirInv /\ FilesInv /\ VerdictInv
       /\ ChecksOwnEvidence /\ TrustedMeansVerified

-----------------------------------------------------------------------------
(* Counting requests *)

\* Sets of requests are finite, and a larger one has no fewer members.
LEMMA RequestSets ==
    ASSUME NEW S \in SUBSET Requests, NEW T \in SUBSET S
    PROVE  /\ IsFiniteSet(S) /\ Cardinality(S) \in Nat
           /\ Cardinality(T) \in Nat
           /\ Cardinality(T) <= Cardinality(S)
           /\ Cardinality(S) <= Cardinality(Requests)
           /\ Cardinality(Requests) \in Nat
<1>1. IsFiniteSet(S) /\ Cardinality(S) <= Cardinality(Requests)
    BY RequestsAssumption, FS_Subset
<1>2. IsFiniteSet(T) /\ Cardinality(T) <= Cardinality(S)
    BY <1>1, FS_Subset
<1> QED
    BY <1>1, <1>2, RequestsAssumption, FS_CardinalityType

\* A counter that CounterInv bounds is one the directory names provide for.
LEMMA CounterTypes ==
    ASSUME CounterInv
    PROVE  counter \in Counters
    BY RequestSets DEF CounterInv, Counters, Named

-----------------------------------------------------------------------------
(* Steps of a request *)

\* The steps that one request makes.
Serve(r) ==
    \/ Receive(r) \/ VerifyTdxReport(r) \/ CountScratch(r) \/ MakeScratch(r)
    \/ DecodeBlobs(r) \/ WriteFile(r) \/ Checkquote(r)

\* An answer is well-typed.
LEMMA AnswerTypes ==
    ASSUME TypeOK, NEW r \in Requests, NEW status \in Statuses, NEW b \in BOOLEAN,
           Answer(r, status, b)
    PROVE  /\ pc' = [pc EXCEPT ![r] = "done"] /\ pc' \in [Requests -> Labels]
           /\ reply' = [reply EXCEPT ![r] = [status |-> status, trusted |-> b]]
           /\ reply' \in [Requests -> Replies]
<1>1. [status |-> status, trusted |-> b] \in Replies
    BY DEF Replies
<1> QED
    BY <1>1 DEF TypeOK, Answer, Labels

\* What a step of request r leaves alone.
Frame(r) ==
    /\ pid' = pid /\ input' = input
    /\ pc' \in [Requests -> Labels] /\ pc' = [pc EXCEPT ![r] = pc'[r]]
    /\ reply' \in [Requests -> Replies] /\ reply' = [reply EXCEPT ![r] = reply'[r]]
    /\ pc[r] # "done"

\* A request that goes on, or answers, is the only one that moves.
Moves(r) ==
    \/ \E label \in Labels : Goto(r, label)
    \/ \E status \in Statuses, b \in BOOLEAN : Answer(r, status, b)

\* Every step of request r moves r, which was not done.
LEMMA ServeMoves ==
    ASSUME NEW r \in Requests, Serve(r)
    PROVE  Moves(r) /\ pid' = pid /\ input' = input /\ pc[r] # "done"
<1> USE DEF processVars, Labels, Statuses, Moves
<1>1. CASE Receive(r)
    BY <1>1 DEF Receive
<1>2. CASE VerifyTdxReport(r)
  <2>1. ASSUME NEW verdict, AfterTdx(r, verdict)
        PROVE  Moves(r)
    <3>1. (verdict = "accepted") \in BOOLEAN
        OBVIOUS
    <3> QED
        BY <2>1, <3>1 DEF AfterTdx
  <2> QED
      BY <1>2, <2>1 DEF VerifyTdxReport
<1>3. CASE CountScratch(r)
    BY <1>3 DEF CountScratch
<1>4. CASE MakeScratch(r)
    BY <1>4 DEF MakeScratch
<1>5. CASE DecodeBlobs(r)
    BY <1>5 DEF DecodeBlobs, AnswerAndDrop
<1>6. CASE WriteFile(r)
    BY <1>6 DEF WriteFile, AfterWrite, Files, AnswerAndDrop
<1>7. CASE Checkquote(r)
  <2>1. ASSUME NEW tpm, AnswerAndDrop(r, "ok", tpm /\ mac[r] = "accepted")
        PROVE  Moves(r)
    <3>1. (tpm /\ mac[r] = "accepted") \in BOOLEAN
        OBVIOUS
    <3> QED
        BY <2>1, <3>1 DEF AnswerAndDrop
  <2> QED
      BY <1>7, <2>1 DEF Checkquote, AnswerAndDrop
<1> QED
    BY <1>1, <1>2, <1>3, <1>4, <1>5, <1>6, <1>7 DEF Serve

\* Every step of request r leaves the other requests alone.
LEMMA ServeFrame ==
    ASSUME TypeOK, NEW r \in Requests, Serve(r)
    PROVE  Frame(r)
<1>1. ASSUME NEW label \in Labels, Goto(r, label)
      PROVE  Frame(r)
    BY <1>1, ServeMoves DEF Goto, Frame, TypeOK
<1>2. ASSUME NEW status \in Statuses, NEW b \in BOOLEAN, Answer(r, status, b)
      PROVE  Frame(r)
    BY <1>2, ServeMoves, AnswerTypes DEF Frame, TypeOK
<1> QED
    BY <1>1, <1>2, ServeMoves DEF Moves

\* A request at work has a directory name.
LEMMA HasDir ==
    ASSUME TypeOK, DirInv, NEW r \in Requests, pc[r] \in Scratching
    PROVE  dir[r] \in DirNames
<1>1. PICK c \in Counters : dir[r] = <<pid, c>>
    BY DEF DirInv
<1> QED
    BY <1>1 DEF TypeOK, DirNames

\* Dropping a Scratch keeps the file system well-typed.
LEMMA DropTypes ==
    ASSUME TypeOK, NEW r \in Requests, DropScratch(r)
    PROVE  /\ dir' \in [Requests -> DirNames \cup {None}]
           /\ dirs' \subseteq DirNames
           /\ files' \in [DirNames -> [Files -> Requests \cup {None}]]
<1>1. NoFiles \in [Files -> Requests \cup {None}]
    BY DEF NoFiles
<1> QED
    BY <1>1 DEF TypeOK, DropScratch, fsVars

\* A step keeps the counter within the number of named requests.
LEMMA CounterStep ==
    ASSUME Inv, [Next]_vars
    PROVE  CounterInv'
<1>t. TypeOK /\ CounterInv
    BY DEF Inv
<1>1. ASSUME NEW r \in Requests, Serve(r)
      PROVE  CounterInv'
  <2>1. Named \subseteq Named'
    <3>1. Frame(r)
        BY <1>1, <1>t, ServeFrame
    <3>2. r \in Named => r \in Named'
        BY <1>1, <1>t, <3>1 DEF Named, Serve, Receive, VerifyTdxReport, CountScratch,
           MakeScratch, DecodeBlobs, WriteFile, Checkquote, Files, AnswerAndDrop, Answer,
           Goto, AfterWrite, TypeOK
    <3> QED
        BY <3>1, <3>2, <1>t DEF Frame, Named, TypeOK
  <2>2. Cardinality(Named) \in Nat /\ Cardinality(Named') \in Nat
        /\ Cardinality(Named) <= Cardinality(Named')
      BY <2>1, RequestSets DEF Named
  <2>3. CASE counter' = counter
      BY <2>2, <2>3, <1>t DEF CounterInv
  <2>4. CASE CountScratch(r)
    <3>1. r \notin Named /\ Named' = Named \cup {r}
        BY <2>4, <1>t DEF CountScratch, Goto, Named, TypeOK
    <3>2. Cardinality(Named') = Cardinality(Named) + 1
        BY <3>1, RequestSets, FS_AddElement DEF Named
    <3> QED
        BY <2>2, <2>4, <3>2, <1>t DEF CounterInv, CountScratch
  <2> QED
      BY <1>1, <2>3, <2>4 DEF Serve, Receive, VerifyTdxReport, MakeScratch, DecodeBlobs,
         WriteFile, Checkquote, processVars
<1>2. CASE ToggleModule \/ UNCHANGED vars
    BY <1>2, <1>t DEF ToggleModule, vars, processVars, CounterInv, Named
<1>3. CASE Crash
    BY <1>3, RequestSets, SMTT(60) DEF Crash, CounterInv, Named
<1> QED
    BY <1>1, <1>2, <1>3 DEF Next, Serve

\* A step keeps the types.
LEMMA TypeStep ==
    ASSUME Inv, [Next]_vars
    PROVE  TypeOK'
<1>t. TypeOK /\ DirInv /\ counter \in Counters /\ counter' \in Counters
  <2>1. CounterInv'
      BY CounterStep
  <2>2. counter' \in Counters
      BY <2>1, RequestSets DEF CounterInv, Counters, Named
  <2> QED
      BY <2>2, CounterTypes DEF Inv
<1> USE DEF processVars, fsVars
<1>1. ASSUME NEW r \in Requests, Receive(r)
      PROVE  TypeOK'
  <2>f. Frame(r)
      BY <1>1, <1>t, ServeFrame DEF Serve
  <2> QED
      BY <1>1, <1>t, <2>f DEF Receive, TypeOK, Frame
<1>2. ASSUME NEW r \in Requests, VerifyTdxReport(r)
      PROVE  TypeOK'
  <2>f. Frame(r)
      BY <1>2, <1>t, ServeFrame DEF Serve
  <2>1. mac' \in [Requests -> {"unchecked", "accepted", "rejected"}]
      BY <1>2, <1>t DEF VerifyTdxReport, TypeOK, TdcallVerdicts
  <2> QED
      BY <1>2, <1>t, <2>f, <2>1 DEF Frame, VerifyTdxReport, TypeOK
<1>3. ASSUME NEW r \in Requests, CountScratch(r)
      PROVE  TypeOK'
  <2>f. Frame(r)
      BY <1>3, <1>t, ServeFrame DEF Serve
  <2>1. <<pid, counter>> \in DirNames
      BY <1>t DEF TypeOK, DirNames
  <2> QED
      BY <1>3, <1>t, <2>f, <2>1 DEF Frame, CountScratch, TypeOK
<1>4. ASSUME NEW r \in Requests, MakeScratch(r)
      PROVE  TypeOK'
  <2>f. Frame(r)
      BY <1>4, <1>t, ServeFrame DEF Serve
  <2>1. dir[r] \in DirNames
      BY <1>4, <1>t, HasDir DEF MakeScratch, Scratching
  <2> QED
      BY <1>4, <1>t, <2>f, <2>1 DEF Frame, MakeScratch, TypeOK
<1>5. ASSUME NEW r \in Requests, DecodeBlobs(r)
      PROVE  TypeOK'
  <2>f. Frame(r)
      BY <1>5, <1>t, ServeFrame DEF Serve
  <2>1. CASE DropScratch(r)
      BY <1>5, <1>t, <2>f, <2>1, DropTypes
         DEF Frame, DecodeBlobs, TypeOK
  <2>2. CASE UNCHANGED <<fsVars, dir>>
      BY <1>5, <1>t, <2>f, <2>2
         DEF Frame, DecodeBlobs, TypeOK
  <2> QED
      BY <1>5, <2>1, <2>2 DEF DecodeBlobs, AnswerAndDrop
<1>6. ASSUME NEW r \in Requests, WriteFile(r)
      PROVE  TypeOK'
  <2>f. Frame(r)
      BY <1>6, <1>t, ServeFrame DEF Serve
  <2>1. CASE DropScratch(r)
      BY <1>6, <1>t, <2>f, <2>1, DropTypes
         DEF Frame, WriteFile, TypeOK
  <2>2. CASE files' = [files EXCEPT ![dir[r]][pc[r]] = r] /\ UNCHANGED <<dirs, dir>>
    <3>1. files' \in [DirNames -> [Files -> Requests \cup {None}]]
        BY <2>2, <1>t DEF TypeOK
    <3> QED
        BY <1>6, <1>t, <2>f, <2>2, <3>1
           DEF Frame, WriteFile, TypeOK
  <2> QED
      BY <1>6, <2>1, <2>2 DEF WriteFile, AnswerAndDrop
<1>7. ASSUME NEW r \in Requests, Checkquote(r)
      PROVE  TypeOK'
  <2>f. Frame(r)
      BY <1>7, <1>t, ServeFrame DEF Serve
  <2>1. DropScratch(r)
      BY <1>7 DEF Checkquote, AnswerAndDrop
  <2>2. files[dir[r]] \in [Files -> Requests \cup {None}]
    <3>1. dir[r] \in DirNames
        BY <1>7, <1>t, HasDir DEF Checkquote, Scratching
    <3> QED
        BY <3>1, <1>t DEF TypeOK
  <2>3. checked' \in [Requests -> [Files -> Requests \cup {None}] \cup {None}]
      BY <1>7, <1>t, <2>2 DEF Checkquote, TypeOK
  <2> QED
      BY <1>7, <1>t, <2>f, <2>1, <2>3, DropTypes DEF Frame, Checkquote, TypeOK
<1>8. CASE ToggleModule \/ UNCHANGED vars
    BY <1>8, <1>t DEF ToggleModule, vars, TypeOK
<1>9. CASE Crash
  <2>1. [status |-> "lost", trusted |-> FALSE] \in Replies
      BY DEF Replies, Statuses
  <2>2. reply' \in [Requests -> Replies]
      BY <1>9, <1>t, <2>1 DEF Crash, TypeOK
  <2>3. pc' \in [Requests -> Labels]
      BY <1>9, <1>t DEF Crash, TypeOK, Labels
  <2> QED
      BY <1>9, <1>t, <2>2, <2>3 DEF Crash, TypeOK
<1> QED
    BY <1>1, <1>2, <1>3, <1>4, <1>5, <1>6, <1>7, <1>8, <1>9 DEF Next

-----------------------------------------------------------------------------
(* The directories and the files *)

\* Who drops a Scratch takes no other request's directory away.
LEMMA DropDirs ==
    ASSUME TypeOK, DirInv, NEW r \in Requests, pc[r] \in Scratching, DropScratch(r)
    PROVE  /\ dir' = [dir EXCEPT ![r] = None]
           /\ \A q \in Requests \ {r} : pc[q] \in Scratching \ {"mkdir"} =>
                 dir[q] \in dirs' /\ files'[dir[q]] = files[dir[q]]
<1>1. dir' = [dir EXCEPT ![r] = None]
    BY DEF DropScratch
<1>2. ASSUME NEW q \in Requests \ {r}, pc[q] \in Scratching \ {"mkdir"}
      PROVE  dir[q] \in dirs' /\ files'[dir[q]] = files[dir[q]]
  <2>1. dir[q] \in dirs /\ dir[q] # dir[r] /\ dir[q] \in DirNames
      BY <1>2, HasDir DEF DirInv
  <2> QED
      BY <2>1 DEF DropScratch, fsVars, TypeOK
<1> QED
    BY <1>1, <1>2

\* How a step treats the directories: another request's directory stays, and
\* the own one is the new name, the old one, or gone.
Tidy(r) ==
    /\ counter' \in Nat /\ counter <= counter'
    /\ \A q \in Requests \ {r} :
          /\ dir'[q] = dir[q]
          /\ pc[q] \in Scratching \ {"mkdir"} =>
                dir[q] \in dirs' /\ files'[dir[q]] = files[dir[q]]
    /\ \/ pc'[r] \notin Scratching /\ dir'[r] = None
       \/ /\ pc[r] = "count" /\ pc'[r] = "mkdir"
          /\ dir'[r] = <<pid, counter>> /\ counter' = counter + 1
       \/ /\ pc[r] \in Scratching /\ pc'[r] \in Scratching \ {"mkdir"}
          /\ dir'[r] = dir[r] /\ dir[r] \in dirs'

\* Every step of a request treats the directories so.
LEMMA ServeTidy ==
    ASSUME TypeOK, CounterInv, DirInv, NEW r \in Requests, Serve(r)
    PROVE  Tidy(r)
<1> USE DEF Tidy, CounterInv, processVars, fsVars
<1>f. Frame(r) /\ dir \in [Requests -> DirNames \cup {None}]
    BY ServeFrame DEF TypeOK
<1>a. CASE DropScratch(r) /\ pc[r] \in Scratching /\ pc'[r] = "done" /\ counter' = counter
    BY <1>a, <1>f, DropDirs DEF Scratching
<1>1. CASE Receive(r)
    BY <1>1, <1>f DEF Receive, Goto, Answer, Scratching, DirInv, TypeOK
<1>2. CASE VerifyTdxReport(r)
    BY <1>2, <1>f DEF VerifyTdxReport, AfterTdx, Goto, Answer, Scratching, DirInv, TypeOK
<1>3. CASE CountScratch(r)
    BY <1>3, <1>f DEF CountScratch, Goto, Scratching, DirInv, TypeOK
<1>4. CASE MakeScratch(r)
    BY <1>4, <1>f DEF MakeScratch, Goto, Answer, Scratching, DirInv, TypeOK
<1>5. CASE DecodeBlobs(r)
    BY <1>5, <1>f, <1>a DEF DecodeBlobs, Goto, Answer, AnswerAndDrop, Scratching, DirInv, TypeOK
<1>6. CASE WriteFile(r)
  <2>1. CASE AnswerAndDrop(r, "internal", FALSE)
      BY <1>6, <2>1, <1>a DEF WriteFile, Answer, AnswerAndDrop, Scratching, Files, TypeOK
  <2>2. CASE files' = [files EXCEPT ![dir[r]][pc[r]] = r] /\ UNCHANGED <<dirs, dir>>
             /\ Goto(r, AfterWrite(pc[r]))
    <3>1. pc[r] \in Scratching /\ pc'[r] \in Scratching \ {"mkdir"} /\ dir[r] \in dirs
        BY <1>6, <2>2 DEF WriteFile, Goto, AfterWrite, Files, Scratching, DirInv, TypeOK
    <3>2. ASSUME NEW q \in Requests \ {r}, pc[q] \in Scratching \ {"mkdir"}
          PROVE  dir[q] \in dirs' /\ files'[dir[q]] = files[dir[q]]
        BY <2>2, <3>1, <3>2, HasDir DEF DirInv, TypeOK
    <3> QED
        BY <1>6, <2>2, <3>1, <3>2 DEF WriteFile
  <2> QED
      BY <1>6, <2>1, <2>2 DEF WriteFile
<1>7. CASE Checkquote(r)
    BY <1>7, <1>a DEF Checkquote, Answer, AnswerAndDrop, Scratching, TypeOK
<1> QED
    BY <1>1, <1>2, <1>3, <1>4, <1>5, <1>6, <1>7 DEF Serve

\* A step keeps the directories private.
LEMMA DirStep ==
    ASSUME Inv, [Next]_vars
    PROVE  DirInv'
<1>t. TypeOK /\ CounterInv /\ DirInv /\ TypeOK'
    BY TypeStep DEF Inv
<1>1. ASSUME NEW r \in Requests, Serve(r)
      PROVE  DirInv'
  <2>f. Frame(r) /\ Tidy(r)
      BY <1>1, <1>t, ServeFrame, ServeTidy
  <2>1. \A q \in Requests \ {r} : pc'[q] = pc[q] /\ dir'[q] = dir[q]
      BY <2>f, <1>t DEF Frame, Tidy, TypeOK
  <2>2. \A q \in Requests : pc'[q] \notin Scratching => dir'[q] = None
      BY <2>1, <2>f, <1>t DEF Tidy, DirInv, Scratching
  <2>3. \A q \in Requests : pc'[q] \in Scratching \ {"mkdir"} => dir'[q] \in dirs'
      BY <2>1, <2>f, <1>t DEF Tidy, DirInv, Scratching
  <2>4. ASSUME NEW q \in Requests, pc'[q] \in Scratching
        PROVE  \E c \in Counters : c < counter' /\ dir'[q] = <<pid', c>>
    <3>1. CASE q = r /\ pc[q] = "count"
        BY <2>4, <3>1, <2>f, <1>t, CounterTypes DEF Tidy, Frame, Scratching, CounterInv
    <3>2. CASE pc[q] \in Scratching /\ dir'[q] = dir[q]
      <4>1. PICK c \in Counters : c < counter /\ dir[q] = <<pid, c>>
          BY <3>2, <1>t DEF DirInv
      <4>2. c < counter'
          BY <4>1, <2>f, <1>t, RequestSets DEF Tidy, CounterInv, Counters
      <4> QED
          BY <4>1, <4>2, <3>2, <2>f DEF Frame
    <3> QED
        BY <2>4, <3>1, <3>2, <2>1, <2>f DEF Tidy
  <2>5. ASSUME NEW p \in Requests, NEW q \in Requests \ {p},
               pc'[p] \in Scratching, pc'[q] \in Scratching
        PROVE  dir'[q] # dir'[p]
    <3>1. ASSUME NEW x \in Requests \ {r}, pc[x] \in Scratching
          PROVE  dir[x] # <<pid, counter>>
      <4>1. PICK c \in Counters : c < counter /\ dir[x] = <<pid, c>>
          BY <3>1, <1>t DEF DirInv
      <4>2. c # counter
          BY <4>1, <1>t, RequestSets DEF CounterInv, Counters
      <4> QED
          BY <4>1, <4>2
    <3>2. CASE pc[r] = "count"
        BY <2>5, <2>1, <2>f, <3>1, <3>2, <1>t DEF Tidy, DirInv, Scratching
    <3>3. CASE pc[r] # "count"
        BY <2>5, <2>1, <2>f, <3>3, <1>t DEF Tidy, DirInv
    <3> QED
        BY <3>2, <3>3
  <2> QED
      BY <2>2, <2>3, <2>4, <2>5 DEF DirInv
<1>2. CASE ToggleModule \/ UNCHANGED vars
    BY <1>2, <1>t DEF ToggleModule, vars, processVars, fsVars, DirInv
<1>3. CASE Crash
  <2>1. \A r \in Requests : pc'[r] \notin Scratching /\ dir'[r] = None
      BY <1>3, <1>t DEF Crash, InFlight, Scratching, TypeOK
  <2> QED
      BY <2>1 DEF DirInv
<1> QED
    BY <1>1, <1>2, <1>3 DEF Next, Serve

\* A step keeps what was written.
LEMMA FilesStep ==
    ASSUME Inv, [Next]_vars
    PROVE  FilesInv'
<1>t. TypeOK /\ CounterInv /\ DirInv /\ FilesInv
    BY DEF Inv
<1> USE DEF Written, Files
<1>1. ASSUME NEW r \in Requests, Serve(r)
      PROVE  FilesInv'
  <2>f. Frame(r) /\ Tidy(r)
      BY <1>1, <1>t, ServeFrame, ServeTidy
  <2>1. ASSUME NEW q \in Requests \ {r}
        PROVE  \A f \in Written(pc'[q]) : files'[dir'[q]][f] = q
    <3>1. pc'[q] = pc[q] /\ dir'[q] = dir[q]
        BY <2>f, <1>t DEF Frame, Tidy, TypeOK
    <3> QED
        BY <2>f, <3>1, <1>t DEF Tidy, FilesInv, Scratching
  <2>2. ASSUME NEW f \in Written(pc'[r])
        PROVE  files'[dir'[r]][f] = r
    <3>1. pc'[r] \in {"msg", "ak", "checkquote"}
        BY <2>2
    <3>2. WriteFile(r) /\ files' = [files EXCEPT ![dir[r]][pc[r]] = r]
          /\ dir' = dir /\ pc' = [pc EXCEPT ![r] = AfterWrite(pc[r])]
        BY <1>1, <3>1, <1>t DEF Serve, Receive, VerifyTdxReport, AfterTdx, CountScratch, MakeScratch,
           DecodeBlobs, WriteFile, Checkquote, Goto, Answer, AnswerAndDrop, TypeOK
    <3>3. dir[r] \in DirNames /\ pc[r] \in Files
        BY <3>2, <1>t, HasDir DEF WriteFile, Scratching
    <3>4. files'[dir[r]] = [files[dir[r]] EXCEPT ![pc[r]] = r]
        BY <3>2, <3>3, <1>t DEF TypeOK
    <3>5. files[dir[r]] \in [Files -> Requests \cup {None}]
        BY <3>3, <1>t DEF TypeOK
    <3>6. f = pc[r] \/ f \in Written(pc[r])
        BY <3>2, <3>3, <2>2, <1>t DEF AfterWrite, TypeOK
    <3> QED
        BY <3>2, <3>3, <3>4, <3>5, <3>6, <1>t DEF FilesInv
  <2> QED
      BY <2>1, <2>2 DEF FilesInv
<1>2. CASE ToggleModule \/ UNCHANGED vars
    BY <1>2, <1>t DEF ToggleModule, vars, fsVars, FilesInv
<1>3. CASE Crash
  <2>1. \A r \in Requests : Written(pc'[r]) = {}
      BY <1>3, <1>t DEF Crash, InFlight, TypeOK
  <2> QED
      BY <2>1 DEF FilesInv
<1> QED
    BY <1>1, <1>2, <1>3 DEF Next, Serve

-----------------------------------------------------------------------------
(* The verdicts *)

\* A step keeps the link between verdicts, answers and genuine reports.
LEMMA VerdictStep ==
    ASSUME Inv, [Next]_vars
    PROVE  VerdictInv'
<1>t. TypeOK /\ VerdictInv
    BY DEF Inv
<1>1. ASSUME NEW r \in Requests, Serve(r)
      PROVE  VerdictInv'
  <2>f. Frame(r)
      BY <1>1, <1>t, ServeFrame
  <2>1. \A q \in Requests : mac'[q] = "accepted" => input'[q].report = "genuine"
    <3>1. CASE VerifyTdxReport(r)
        BY <3>1, <2>f, <1>t DEF VerifyTdxReport, TdcallVerdicts, Frame, VerdictInv, TypeOK
    <3>2. CASE mac' = mac
        BY <3>2, <2>f, <1>t DEF Frame, VerdictInv
    <3> QED
        BY <1>1, <3>1, <3>2 DEF Serve, Receive, CountScratch, MakeScratch, DecodeBlobs,
           WriteFile, Checkquote
  <2>2. reply'[r].trusted => pc'[r] = "done"
    <3>1. CASE reply' = reply
        BY <3>1, <2>f, <1>t DEF Frame, VerdictInv
    <3>2. CASE \E status \in Statuses, b \in BOOLEAN : Answer(r, status, b)
        BY <3>2, <1>t DEF Answer, TypeOK
    <3> QED
        BY <1>1, <3>1, <3>2, ServeMoves DEF Moves, Goto
  <2>3. \A q \in Requests \ {r} : pc'[q] = pc[q] /\ reply'[q] = reply[q]
      BY <2>f, <1>t DEF Frame, TypeOK
  <2> QED
      BY <2>1, <2>2, <2>3, <1>t DEF VerdictInv
<1>2. CASE ToggleModule \/ UNCHANGED vars
    BY <1>2, <1>t DEF ToggleModule, vars, VerdictInv
<1>3. CASE Crash
    BY <1>3, <1>t DEF Crash, InFlight, VerdictInv, TypeOK
<1> QED
    BY <1>1, <1>2, <1>3 DEF Next, Serve

\* At the last step the three files are those of the request.
LEMMA FoundIsOwn ==
    ASSUME TypeOK, DirInv, FilesInv, NEW r \in Requests, pc[r] = "checkquote"
    PROVE  files[dir[r]] = [f \in Files |-> r]
<1>1. files[dir[r]] \in [Files -> Requests \cup {None}]
    BY HasDir DEF Scratching, TypeOK
<1>2. \A f \in Files : files[dir[r]][f] = r
    BY DEF FilesInv, Written
<1> QED
    BY <1>1, <1>2

\* A step lets tpm2_checkquote see own evidence only.
LEMMA EvidenceStep ==
    ASSUME Inv, [Next]_vars
    PROVE  ChecksOwnEvidence'
<1>t. TypeOK /\ DirInv /\ FilesInv /\ ChecksOwnEvidence
    BY DEF Inv
<1>1. ASSUME NEW r \in Requests, Checkquote(r), checked' # checked
      PROVE  ChecksOwnEvidence'
  <2>1. checked' = [checked EXCEPT ![r] = [f \in Files |-> r]]
      BY <1>1, <1>t, FoundIsOwn DEF Checkquote
  <2> QED
      BY <2>1, <1>t DEF ChecksOwnEvidence, TypeOK
<1>2. CASE checked' = checked
    BY <1>2, <1>t DEF ChecksOwnEvidence
<1> QED
    BY <1>1, <1>2 DEF Next, Receive, VerifyTdxReport, CountScratch, MakeScratch, DecodeBlobs,
       WriteFile, ToggleModule, Crash, vars

\* The conditions for trust in one request.
Deserved(r) ==
    /\ reply[r].status = "ok"
    /\ mac[r] = "accepted" /\ input[r].report = "genuine"
    /\ input[r].route = "verify_all" => input[r].quote = "genuine"

\* A request that becomes trusted in a step deserves it.
LEMMA TrustEarned ==
    ASSUME Inv, NEW r \in Requests, Serve(r), reply'[r].trusted
    PROVE  Deserved(r)'
<1>t. TypeOK /\ DirInv /\ FilesInv /\ VerdictInv /\ Frame(r) /\ ~reply[r].trusted
    BY ServeFrame DEF Inv, VerdictInv, Frame
<1>1. reply' # reply
    BY <1>t
<1>2. ASSUME NEW status \in Statuses, Answer(r, status, FALSE)
      PROVE  FALSE
    BY <1>2, <1>t DEF Answer, TypeOK
<1>3. CASE VerifyTdxReport(r)
  <2>1. PICK verdict \in TdcallVerdicts(r) :
            /\ mac' = [mac EXCEPT ![r] = verdict] /\ AfterTdx(r, verdict)
            /\ input[r].route # "verify_all"
            /\ Answer(r, "ok", verdict = "accepted")
      BY <1>1, <1>2, <1>3 DEF VerifyTdxReport, AfterTdx, Goto, Statuses
  <2> DEFINE b == verdict = "accepted"
  <2>2. Answer(r, "ok", b) /\ b \in BOOLEAN
      BY <2>1
  <2>3. b /\ reply'[r].status = "ok"
    <3> HIDE DEF b
    <3>1. b # FALSE
        BY <1>2, <2>2 DEF Statuses
    <3> QED
        BY <2>2, <3>1, <1>t DEF Answer, TypeOK
  <2>4. mac'[r] = "accepted" /\ input[r].report = "genuine"
      BY <2>1, <2>3, <1>t DEF TdcallVerdicts, TypeOK
  <2> QED
      BY <2>1, <2>3, <2>4, <1>t DEF Deserved, Frame
<1>4. CASE Checkquote(r)
  <2>1. PICK tpm \in {files[dir[r]] = [f \in Files |-> r] /\ input[r].quote = "genuine", FALSE} :
            /\ Answer(r, "ok", tpm /\ mac[r] = "accepted")
            /\ mac' = mac
      BY <1>1, <1>2, <1>4 DEF Checkquote, AnswerAndDrop, Statuses
  <2> DEFINE b == tpm /\ mac[r] = "accepted"
  <2>2. Answer(r, "ok", b) /\ b \in BOOLEAN
      BY <2>1
  <2>3. b /\ reply'[r].status = "ok"
    <3> HIDE DEF b
    <3>1. b # FALSE
        BY <1>2, <2>2 DEF Statuses
    <3> QED
        BY <2>2, <3>1, <1>t DEF Answer, TypeOK
  <2>4. input[r].quote = "genuine"
      BY <2>1, <2>3
  <2> QED
      BY <2>1, <2>3, <2>4, <1>t DEF Deserved, Frame, VerdictInv
<1>5. CASE Receive(r) \/ CountScratch(r) \/ MakeScratch(r) \/ DecodeBlobs(r) \/ WriteFile(r)
    BY <1>1, <1>2, <1>5 DEF Receive, CountScratch, MakeScratch, DecodeBlobs, WriteFile, Goto,
       AnswerAndDrop, Statuses
<1> QED
    BY <1>3, <1>4, <1>5 DEF Serve

\* A step makes nobody trusted who does not deserve it.
LEMMA TrustStep ==
    ASSUME Inv, [Next]_vars
    PROVE  TrustedMeansVerified'
<1> USE DEF Deserved
<1>t. TypeOK /\ VerdictInv /\ TrustedMeansVerified
    BY DEF Inv
<1>1. ASSUME NEW r \in Requests, Serve(r)
      PROVE  TrustedMeansVerified'
  <2>1. \A q \in Requests \ {r} :
            reply'[q] = reply[q] /\ mac'[q] = mac[q] /\ input'[q] = input[q]
    <3>1. Frame(r)
        BY <1>1, <1>t, ServeFrame
    <3>2. \A q \in Requests \ {r} : mac'[q] = mac[q]
        BY <1>1, <1>t DEF Serve, Receive, VerifyTdxReport, CountScratch, MakeScratch,
           DecodeBlobs, WriteFile, Checkquote, TypeOK
    <3> QED
        BY <3>1, <3>2, <1>t DEF Frame, TypeOK
  <2>2. reply'[r].trusted => Deserved(r)'
      BY <1>1, TrustEarned
  <2> QED
      BY <2>1, <2>2, <1>t DEF TrustedMeansVerified
<1>2. CASE ToggleModule \/ UNCHANGED vars
    BY <1>2, <1>t DEF ToggleModule, vars, TrustedMeansVerified
<1>3. CASE Crash
    BY <1>3, <1>t DEF Crash, TrustedMeansVerified, TypeOK
<1> QED
    BY <1>1, <1>2, <1>3 DEF Next, Serve

-----------------------------------------------------------------------------
(* The theorems *)

\* The invariant holds before the first request.
LEMMA InvInit ==
    ASSUME Init
    PROVE  Inv
<1>1. CounterInv /\ counter \in Counters
  <2>1. counter \in Nat /\ counter <= Cardinality(Named)
      BY RequestSets DEF Init, Named
  <2> QED
      BY <2>1, CounterTypes DEF CounterInv
<1>2. NoFiles \in [Files -> Requests \cup {None}] /\ NoReply \in Replies
    BY DEF NoFiles, NoReply, Replies, Statuses
<1>3. TypeOK
    BY <1>1, <1>2 DEF Init, TypeOK, Labels
<1>4. DirInv /\ FilesInv
    BY DEF Init, DirInv, FilesInv, Scratching, Written
<1>5. VerdictInv /\ ChecksOwnEvidence /\ TrustedMeansVerified
    BY DEF Init, NoReply, VerdictInv, ChecksOwnEvidence, TrustedMeansVerified
<1> QED
    BY <1>1, <1>3, <1>4, <1>5 DEF Inv

\* The invariant holds in every state of the verification routes.
THEOREM Invariance == Spec => []Inv
<1>1. Init => Inv
    BY InvInit
<1>2. Inv /\ [Next]_vars => Inv'
    BY TypeStep, CounterStep, DirStep, FilesStep, VerdictStep, EvidenceStep, TrustStep DEF Inv
<1> QED
    BY <1>1, <1>2, PTL DEF Spec

\* Scratch directories are private: fetch_add gives requests of one process
\* different names, and no request removes another's directory.
THEOREM ScratchIsPrivate == Spec => []ScratchPrivate
<1>1. Inv => ScratchPrivate
  <2> SUFFICES ASSUME DirInv PROVE ScratchPrivate
      BY DEF Inv
  <2> QED
      BY DEF DirInv, ScratchPrivate
<1> QED
    BY <1>1, Invariance, PTL

\* tpm2_checkquote is run on the evidence of the request and nothing else, for
\* any number of concurrent requests and any number of crashes.
THEOREM ChecksOnlyOwnEvidence == Spec => []ChecksOwnEvidence
<1>1. Inv => ChecksOwnEvidence
    BY DEF Inv
<1> QED
    BY <1>1, Invariance, PTL

\* Trust is never an accident: verify_tdx_report and verify_all answer
\* "trusted" only for a report that the TDX module accepted and, where a quote
\* was sent, a genuine quote.
THEOREM TrustIsEarned == Spec => []TrustedMeansVerified
<1>1. Inv => TrustedMeansVerified
    BY DEF Inv
<1> QED
    BY <1>1, Invariance, PTL

\* The types, and with them the bound on the scratch counter.
THEOREM TypeCorrect == Spec => []TypeOK
<1>1. Inv => TypeOK
    BY DEF Inv
<1> QED
    BY <1>1, Invariance, PTL
=============================================================================
