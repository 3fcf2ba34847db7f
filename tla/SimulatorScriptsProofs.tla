----------------------- MODULE SimulatorScriptsProofs -----------------------
(* Proofs about SimulatorScripts: the PID file names the one simulator     *)
(* there can be, and stop.sh leaves none.                                  *)
EXTENDS SimulatorScripts, TLAPS

\* Labels at which an invocation has made sure that there is no simulator.
Gone == {"rm_stale", "rm", "port", "launch", "rm_failed"}

\* Labels at which it knows the only process that may be one.
Known == {"alive", "kill", "wait", "kill9", "open", "write", "check", "listening"}

\* The labels of start.sh at which the PID file is being written.
Writing == {"open", "write"}

\* Whoever listens has bound its sockets and has not ended.
PortInv == port # None => proc[port] \in {"listening", "terminating"}

\* start.sh runs alone, and each script runs its own steps.
AloneInv ==
    /\ kind \in [Scripts -> {"start", "stop"}]
    /\ \A s \in Scripts :
        /\ pc[s] \in StartLabels \ StopLabels => kind[s] = "start"
        /\ pc[s] \in StopLabels \ StartLabels => kind[s] = "stop"
    /\ \A s, t \in Scripts :
        s # t /\ Running(s) /\ Running(t) => kind[s] = "stop" /\ kind[t] = "stop"

\* What an invocation knows of the simulators.
ScriptInv(s) ==
    /\ pc[s] \in Gone => Simulators = {}
    /\ pc[s] \in Known => pid[s] \in Pids /\ Simulators \subseteq {pid[s]}
    /\ pc[s] \in {"check", "listening"} => file = pid[s]

\* The PID file names every simulator, except while start.sh writes it.
FileInv ==
    (\A s \in Scripts : pc[s] \notin Writing) => \A p \in Simulators : file = p

Inv ==
    /\ TypeOK /\ PortInv /\ AloneInv
    /\ \A s \in Scripts : ScriptInv(s)
    /\ FileInv

-----------------------------------------------------------------------------
(* Types, and who may run *)

\* Processes, port, PID file and scripts keep their types.
LEMMA TypeStep ==
    ASSUME Inv, [Next]_vars
    PROVE  TypeOK' /\ PortInv'
<1> USE NoneAssumption DEF machineVars
<1> USE DEF Inv, Programs, Simulator, StartLabels, StopLabels, Outcomes, Goto, Exit, Alive
<1>1. ASSUME NEW s \in Scripts, Begin(s) \/ ReadPid(s) \/ CheckAlive(s) \/ RmStale(s)
      PROVE  TypeOK' /\ PortInv'
    BY <1>1 DEF Begin, ReadPid, CheckAlive, RmStale, TypeOK, PortInv
<1>2. ASSUME NEW s \in Scripts, CheckPort(s) \/ CheckStarted(s) \/ CheckListening(s)
                                \/ RmFailed(s) \/ Wait(s) \/ Rm(s)
      PROVE  TypeOK' /\ PortInv'
    BY <1>2 DEF CheckPort, CheckStarted, CheckListening, RmFailed, Wait, Rm, TypeOK, PortInv
<1>3. ASSUME NEW s \in Scripts, OpenFile(s) \/ WriteFile(s)
      PROVE  TypeOK' /\ PortInv'
    BY <1>3 DEF OpenFile, WriteFile, TypeOK, PortInv
<1>4. ASSUME NEW s \in Scripts, Launch(s)
      PROVE  TypeOK' /\ PortInv'
    BY <1>4 DEF Launch, TypeOK, PortInv
<1>5. ASSUME NEW s \in Scripts, Kill(s) \/ Kill9(s)
      PROVE  TypeOK' /\ PortInv'
  <2>1. pid[s] \in Pids
    BY <1>5 DEF Kill, Kill9, ScriptInv, Known
  <2>2. CASE Kill(s)
    BY <2>1, <2>2 DEF Kill, TypeOK, PortInv
  <2>3. CASE Kill9(s)
    BY <2>1, <2>3 DEF Kill9, PortWithout, TypeOK, PortInv
  <2> QED
    BY <1>5, <2>2, <2>3
<1>6. ASSUME NEW p \in Pids, Bind(p) PROVE TypeOK' /\ PortInv'
    BY <1>6 DEF Bind, TypeOK, PortInv
<1>7. ASSUME NEW p \in Pids, Die(p) \/ OtherStarts(p) PROVE TypeOK' /\ PortInv'
    BY <1>7 DEF Die, OtherStarts, PortWithout, TypeOK, PortInv
<1>8. CASE UNCHANGED vars
    BY <1>8 DEF vars, TypeOK, PortInv
<1> QED
    BY <1>1, <1>2, <1>3, <1>4, <1>5, <1>6, <1>7, <1>8 DEF Next, ScriptStep

\* An invocation that has begun goes on with its own steps.
OwnStep(s) ==
    /\ Running(s)
    /\ kind' = kind
    /\ \A t \in Scripts \ {s} : pc'[t] = pc[t] /\ pid'[t] = pid[t]
    /\ pc'[s] \in StartLabels \ StopLabels => kind[s] = "start"
    /\ pc'[s] \in StopLabels \ StartLabels => kind[s] = "stop"

\* Every step of an invocation but its first is one of these.
LEMMA StepIsOwn ==
    ASSUME Inv, NEW s \in Scripts, ScriptStep(s), ~Begin(s)
    PROVE  OwnStep(s)
<1> USE DEF Inv, OwnStep, Running, StartLabels, StopLabels, Goto, Exit, TypeOK, machineVars
<1>0. /\ pc[s] \in StartLabels \ StopLabels => kind[s] = "start"
      /\ pc[s] \in StopLabels \ StartLabels => kind[s] = "stop"
      /\ kind[s] \in {"start", "stop"}
    BY DEF AloneInv
<1>1. CASE ReadPid(s) \/ CheckAlive(s) \/ RmStale(s)
    BY <1>0, <1>1 DEF ReadPid, CheckAlive, RmStale
<1>2. CASE CheckPort(s) \/ Launch(s) \/ OpenFile(s) \/ WriteFile(s)
    BY <1>0, <1>2 DEF CheckPort, Launch, OpenFile, WriteFile
<1>3. CASE CheckStarted(s) \/ RmFailed(s) \/ CheckListening(s)
    BY <1>0, <1>3 DEF CheckStarted, RmFailed, CheckListening
<1>4. CASE Kill(s) \/ Wait(s) \/ Kill9(s) \/ Rm(s)
    BY <1>0, <1>4 DEF Kill, Wait, Kill9, Rm
<1> QED
    BY <1>1, <1>2, <1>3, <1>4 DEF ScriptStep

\* start.sh keeps running alone.
LEMMA AloneStep ==
    ASSUME Inv, [Next]_vars
    PROVE  AloneInv'
<1>1. ASSUME NEW s \in Scripts, Begin(s) PROVE AloneInv'
    BY <1>1 DEF Begin, Goto, Inv, TypeOK, AloneInv, Running, StartLabels, StopLabels
<1>2. ASSUME NEW s \in Scripts, ScriptStep(s), ~Begin(s) PROVE AloneInv'
  <2>1. OwnStep(s)
    BY <1>2, StepIsOwn
  <2> QED
    BY <2>1 DEF OwnStep, Inv, AloneInv, Running
<1>3. ASSUME kind' = kind, pc' = pc PROVE AloneInv'
    BY <1>3 DEF Inv, AloneInv, Running
<1>4. ASSUME NEW p \in Pids, Bind(p) \/ Die(p) \/ OtherStarts(p) PROVE AloneInv'
    BY <1>3, <1>4 DEF Bind, Die, OtherStarts
<1> QED
    BY <1>1, <1>2, <1>3, <1>4 DEF Next, vars

-----------------------------------------------------------------------------
(* What the scripts know of the simulators *)

\* One who does not move keeps knowing it: no simulator appears and the PID
\* file stays, or the file is of no interest to it, or it does not run.
LEMMA BystanderInv ==
    ASSUME NEW t \in Scripts, ScriptInv(t), pc'[t] = pc[t], pid'[t] = pid[t],
           \/ ~Running(t)
           \/ Simulators' \subseteq Simulators
              /\ (file' = file \/ pc[t] \notin {"check", "listening"})
    PROVE  ScriptInv(t)'
    BY DEF ScriptInv, Gone, Known, Running

\* While start.sh moves, nobody else runs; while stop.sh moves, nobody is about
\* to write or check the PID file.
LEMMA Others ==
    ASSUME Inv, NEW s \in Scripts, Running(s), NEW t \in Scripts \ {s}
    PROVE  /\ kind[s] = "start" => ~Running(t)
           /\ pc[t] \notin Writing \cup {"check", "listening"}
<1>1. Running(t) => kind[s] = "stop" /\ kind[t] = "stop"
    BY DEF Inv, AloneInv
<1>2. pc[t] \in Writing \cup {"check", "listening"} => Running(t) /\ kind[t] = "start"
    BY DEF Inv, AloneInv, Writing, Running, StartLabels, StopLabels
<1> QED
    BY <1>1, <1>2

\* What the machine does by itself creates no simulator.
LEMMA MachineShrinks ==
    ASSUME Inv, NEW p \in Pids, Bind(p) \/ Die(p) \/ OtherStarts(p)
    PROVE  Simulators' \subseteq Simulators
    BY DEF Inv, TypeOK, Bind, Die, OtherStarts, Alive, Simulators, Simulator

\* What the moving invocation, and the PID file, look like after its step.
StepInv(s) == ScriptInv(s)' /\ (pc'[s] \notin Writing => \A p \in Simulators' : file' = p)

\* What holds of the PID file while no start.sh writes it.
LEMMA FileNames ==
    ASSUME Inv, NEW s \in Scripts, Running(s), pc[s] \notin Writing
    PROVE  \A p \in Simulators : file = p
<1>1. \A t \in Scripts : pc[t] \notin Writing
    BY Others
<1> QED
    BY <1>1 DEF Inv, FileInv

\* A step of a script that leaves the processes alone.
LEMMA QuietStep ==
    ASSUME Inv, NEW s \in Scripts, ScriptStep(s),
           ~(Begin(s) \/ Launch(s) \/ Kill(s) \/ Kill9(s))
    PROVE  Simulators' = Simulators /\ StepInv(s)
<1>0. Simulators' = Simulators /\ ScriptInv(s) /\ Simulators \subseteq Pids
  <2>1. proc' = proc
    BY DEF ScriptStep, ReadPid, CheckAlive, RmStale, CheckPort, OpenFile, WriteFile,
           CheckStarted, RmFailed, CheckListening, Wait, Rm, machineVars
  <2> QED
    BY <2>1 DEF Simulators, Inv
<1>a. Running(s)
    BY StepIsOwn DEF OwnStep
<1>b. pc[s] \notin Writing => \A p \in Simulators : file = p
    BY <1>a, FileNames
<1>c. ASSUME pc'[s] \in Gone \cup {"done"}, Simulators = {} PROVE StepInv(s)
    BY <1>0, <1>c DEF StepInv, ScriptInv, Gone, Known
<1> USE DEF Gone, Known, Writing, Goto, Exit
<1>1. CASE ReadPid(s)
  <2>1. \A p \in Simulators : file = p
    BY <1>1, <1>b DEF ReadPid
  <2>2. CASE file \in Pids
    <3>1. file # None /\ file # "empty"
      BY <2>2, NoneAssumption, PidsAssumption
    <3>2. pc'[s] = "alive" /\ pid'[s] = file /\ file' = file
      BY <1>1, <2>2, <3>1 DEF ReadPid, Inv, TypeOK
    <3> QED
      BY <1>0, <2>1, <2>2, <3>2 DEF StepInv, ScriptInv
  <2>3. CASE file \notin Pids
    <3>1. Simulators = {}
      BY <1>0, <2>1, <2>3
    <3>2. pc'[s] \in {"rm_stale", "port", "done"}
      BY <1>1, <2>3, NoneAssumption DEF ReadPid, Inv, TypeOK
    <3> QED
      BY <1>0, <1>c, <3>1, <3>2
  <2> QED
    BY <2>2, <2>3
<1>2. CASE CheckAlive(s)
  <2>1. pid[s] \in Pids /\ Simulators \subseteq {pid[s]} /\ (\A p \in Simulators : file = p)
    BY <1>0, <1>2, <1>b DEF CheckAlive, ScriptInv
  <2>2. CASE ~Alive(pid[s])
    <3>1. Simulators = {}
      BY <2>1, <2>2 DEF Alive, Simulators, Simulator
    <3>2. pc'[s] = "rm_stale"
      BY <1>2, <2>2 DEF CheckAlive, Inv, TypeOK
    <3> QED
      BY <1>0, <1>c, <3>1, <3>2
  <2>3. CASE Alive(pid[s])
    <3>1. pc'[s] \in {"done", "kill"} /\ file' = file /\ pid'[s] = pid[s]
      BY <1>2, <2>3 DEF CheckAlive, Inv, TypeOK
    <3> QED
      BY <1>0, <2>1, <3>1 DEF StepInv, ScriptInv
  <2> QED
    BY <2>2, <2>3
<1>3. CASE RmStale(s) \/ CheckPort(s) \/ RmFailed(s) \/ Rm(s)
  <2>1. Simulators = {}
    BY <1>0, <1>3 DEF RmStale, CheckPort, RmFailed, Rm, ScriptInv
  <2>2. pc'[s] \in {"port", "launch", "done"}
    BY <1>3 DEF RmStale, CheckPort, RmFailed, Rm, Inv, TypeOK
  <2> QED
    BY <1>0, <1>c, <2>1, <2>2
<1>4. CASE OpenFile(s) \/ WriteFile(s)
    BY <1>0, <1>4 DEF OpenFile, WriteFile, StepInv, ScriptInv, Inv, TypeOK
<1>5. CASE CheckStarted(s) \/ Wait(s)
  <2>1. pid[s] \in Pids /\ Simulators \subseteq {pid[s]} /\ (\A p \in Simulators : file = p)
    BY <1>0, <1>5, <1>b DEF CheckStarted, Wait, ScriptInv
  <2>2. pid'[s] = pid[s] /\ file' = file /\ (pc[s] = "check" => file = pid[s])
    BY <1>0, <1>5 DEF CheckStarted, Wait, ScriptInv
  <2>3. CASE ~Alive(pid[s])
    <3>1. Simulators = {}
      BY <2>1, <2>3 DEF Alive, Simulators, Simulator
    <3>2. pc'[s] \in {"rm", "rm_failed"}
      BY <1>5, <2>3 DEF CheckStarted, Wait, Inv, TypeOK
    <3> QED
      BY <1>0, <1>c, <3>1, <3>2
  <2>4. CASE Alive(pid[s])
    <3>1. pc'[s] = "kill9" \/ (pc'[s] = "listening" /\ pc[s] = "check")
      BY <1>5, <2>4 DEF CheckStarted, Wait, Inv, TypeOK
    <3> QED
      BY <1>0, <2>1, <2>2, <3>1 DEF StepInv, ScriptInv
  <2> QED
    BY <2>3, <2>4
<1>6. CASE CheckListening(s)
    BY <1>0, <1>6, <1>b DEF CheckListening, StepInv, ScriptInv, Inv, TypeOK
<1> QED
    BY <1>1, <1>2, <1>3, <1>4, <1>5, <1>6 DEF ScriptStep

\* A step that starts or ends a process.
LEMMA ProcessStep ==
    ASSUME Inv, NEW s \in Scripts, Launch(s) \/ Kill(s) \/ Kill9(s)
    PROVE  /\ StepInv(s)
           /\ Launch(s) \/ Simulators' \subseteq Simulators
<1> USE DEF Goto
<1>0. ScriptInv(s)
    BY DEF Inv
<1>1. CASE Launch(s)
  <2>1. PICK p \in Pids : /\ proc' = [proc EXCEPT ![p] = "starting"]
                          /\ pid' = [pid EXCEPT ![s] = p]
    BY <1>1 DEF Launch
  <2>2. Simulators = {}
    BY <1>0, <1>1 DEF Launch, ScriptInv, Gone
  <2>3. Simulators' \subseteq {p}
    BY <2>1, <2>2 DEF Simulators, Inv, TypeOK
  <2>4. pid'[s] = p /\ pc'[s] = "open"
    BY <1>1, <2>1 DEF Launch, Inv, TypeOK
  <2> QED
    BY <1>1, <2>3, <2>4 DEF StepInv, ScriptInv, Gone, Known, Writing
<1>2. CASE Kill(s) \/ Kill9(s)
  <2>1. pid[s] \in Pids /\ Simulators \subseteq {pid[s]} /\ Running(s)
    BY <1>0, <1>2 DEF Kill, Kill9, ScriptInv, Known, Running
  <2>2. \A p \in Simulators : file = p
    BY <1>2, <2>1, FileNames DEF Kill, Kill9, Writing
  <2>3. Simulators' \subseteq Simulators
    BY <1>2, <2>1 DEF Kill, Kill9, Simulators, Simulator, Inv, TypeOK
  <2>4. file' = file /\ pid' = pid /\ pc'[s] \in {"wait", "rm"}
    BY <1>2 DEF Kill, Kill9, Inv, TypeOK
  <2>5. pc'[s] = "rm" => Simulators' = {}
    <3>1. SUFFICES ASSUME Kill9(s) PROVE Simulators' = {}
      BY <1>2 DEF Kill, Inv, TypeOK
    <3>2. proc'[pid[s]] = "none"
      BY <2>1, <3>1 DEF Kill9, Inv, TypeOK
    <3> QED
      BY <2>1, <2>3, <3>2 DEF Simulators, Simulator
  <2> QED
    BY <2>1, <2>2, <2>3, <2>4, <2>5 DEF StepInv, ScriptInv, Gone, Known
<1> QED
    BY <1>1, <1>2

\* Every step keeps what the scripts know, and what the PID file says.
LEMMA KnowledgeStep ==
    ASSUME Inv, [Next]_vars
    PROVE  (\A t \in Scripts : ScriptInv(t)') /\ FileInv'
<1> DEFINE Kept == (\A t \in Scripts : ScriptInv(t)') /\ FileInv'
<1>1. ASSUME NEW s \in Scripts, Begin(s) PROVE Kept
  <2>1. Simulators' = Simulators /\ file' = file /\ pid' = pid /\ pc'[s] = "read"
    BY <1>1 DEF Begin, Goto, Simulators, machineVars, Inv, TypeOK
  <2>2. pc[s] = "new" /\ \A t \in Scripts \ {s} : pc'[t] = pc[t]
    BY <1>1 DEF Begin, Goto, Inv, TypeOK
  <2>3. ASSUME NEW t \in Scripts \ {s} PROVE ScriptInv(t)'
    BY <2>1, <2>2, BystanderInv DEF Inv
  <2>4. ScriptInv(s)'
    BY <2>1 DEF ScriptInv, Gone, Known
  <2>5. FileInv'
    BY <2>1, <2>2 DEF FileInv, Writing, Inv
  <2> QED
    BY <2>3, <2>4, <2>5
<1>2. ASSUME NEW s \in Scripts, ScriptStep(s), ~Begin(s) PROVE Kept
  <2>1. OwnStep(s)
    BY <1>2, StepIsOwn
  <2>2. StepInv(s) /\ (Launch(s) \/ Simulators' \subseteq Simulators)
    BY <1>2, QuietStep, ProcessStep
  <2>3. ASSUME NEW t \in Scripts \ {s} PROVE ScriptInv(t)'
    <3>1. Launch(s) => kind[s] = "start"
      BY DEF Launch, Inv, AloneInv, StartLabels, StopLabels
    <3>2. Running(s) /\ pc'[t] = pc[t] /\ pid'[t] = pid[t]
      BY <2>1 DEF OwnStep
    <3> QED
      BY <2>2, <3>1, <3>2, Others, BystanderInv DEF Inv
  <2> QED
    BY <2>2, <2>3 DEF StepInv, FileInv
<1>3. ASSUME Simulators' \subseteq Simulators, UNCHANGED <<file, pc, pid>> PROVE Kept
    BY <1>3, BystanderInv DEF Inv, FileInv
<1>4. ASSUME NEW p \in Pids, Bind(p) \/ Die(p) \/ OtherStarts(p) PROVE Kept
  <2>1. UNCHANGED <<file, pc, pid>>
    BY <1>4 DEF Bind, Die, OtherStarts
  <2> QED
    BY <1>3, <1>4, <2>1, MachineShrinks
<1>5. CASE UNCHANGED vars
    BY <1>3, <1>5 DEF vars, machineVars, Simulators
<1> QED
    BY <1>1, <1>2, <1>4, <1>5 DEF Next

\* The inductive invariant holds in every reachable state.
THEOREM Invariance == Spec => []Inv
<1>1. Init => Inv
  <2> SUFFICES ASSUME Init PROVE Inv
    OBVIOUS
  <2>1. TypeOK /\ PortInv
    BY DEF Init, TypeOK, PortInv, Programs, Outcomes
  <2>2. AloneInv
    BY DEF Init, AloneInv, Running, StartLabels, StopLabels
  <2>3. FileInv /\ \A s \in Scripts : ScriptInv(s)
    BY DEF Init, FileInv, ScriptInv, Gone, Known, Simulators, Simulator
  <2> QED
    BY <2>1, <2>2, <2>3 DEF Inv
<1>2. Inv /\ [Next]_vars => Inv'
    BY TypeStep, AloneStep, KnowledgeStep DEF Inv
<1> QED
  BY <1>1, <1>2, PTL DEF Spec

\* The scripts keep the types of the machine's state.
THEOREM TypeCorrect == Spec => []TypeOK
<1>1. Inv => TypeOK
    BY DEF Inv
<1> QED
  BY <1>1, Invariance, PTL

\* Whenever no script runs, the PID file names every simulator, so stop.sh can
\* stop what start.sh has started.
THEOREM PidFileIsRight == Spec => []PidFileNamesSimulator
<1>1. Inv => PidFileNamesSimulator
    BY DEF Inv, FileInv, PidFileNamesSimulator, Quiet, Running, Writing
<1> QED
  BY <1>1, Invariance, PTL

\* A stop.sh that ends leaves no PID file behind.
LEMMA StopRemovesFile ==
    ASSUME Inv, NEW s \in Scripts, ScriptStep(s), kind[s] = "stop", pc'[s] = "done"
    PROVE  file' = None
<1> USE DEF Goto, Exit, Inv, TypeOK
<1>1. CASE Begin(s) \/ ReadPid(s) \/ CheckAlive(s) \/ RmStale(s)
    BY <1>1 DEF Begin, ReadPid, CheckAlive, RmStale
<1>2. CASE CheckPort(s) \/ Launch(s) \/ OpenFile(s) \/ WriteFile(s)
    BY <1>2 DEF CheckPort, Launch, OpenFile, WriteFile, AloneInv, StartLabels, StopLabels
<1>3. CASE CheckStarted(s) \/ RmFailed(s) \/ CheckListening(s)
    BY <1>3 DEF CheckStarted, RmFailed, CheckListening, AloneInv, StartLabels, StopLabels
<1>4. CASE Kill(s) \/ Wait(s) \/ Kill9(s) \/ Rm(s)
    BY <1>4 DEF Kill, Wait, Kill9, Rm
<1> QED
    BY <1>1, <1>2, <1>3, <1>4 DEF ScriptStep

\* When a stop.sh has ended, no simulator is left.
THEOREM StopLeavesNone == Spec => StopStops
<1> DEFINE A == \A s \in Scripts :
                  kind[s] = "stop" /\ pc[s] # "done" /\ pc'[s] = "done" => Simulators' = {}
<1>1. Inv /\ [Next]_vars => [A]_vars
  <2> SUFFICES ASSUME Inv, Next, NEW s \in Scripts,
                      kind[s] = "stop", pc[s] # "done", pc'[s] = "done"
               PROVE  Simulators' = {}
    OBVIOUS
  <2>1. ScriptStep(s) /\ ~Begin(s)
    <3>1. ASSUME NEW t \in Scripts, ScriptStep(t), t # s PROVE pc'[s] = pc[s]
      BY <3>1, StepIsOwn DEF OwnStep, Begin, Goto, Inv, TypeOK
    <3>2. ASSUME NEW p \in Pids, Bind(p) \/ Die(p) \/ OtherStarts(p) PROVE pc'[s] = pc[s]
      BY <3>2 DEF Bind, Die, OtherStarts
    <3>3. ~Begin(s)
      BY DEF Begin, Goto, Inv, TypeOK
    <3> QED
      BY <3>1, <3>2, <3>3 DEF Next
  <2>2. \A p \in Simulators' : file' = p
    BY <2>1, QuietStep, ProcessStep DEF StepInv, Writing
  <2>3. file' = None
    BY <2>1, StopRemovesFile
  <2>4. Simulators' \subseteq Pids
    BY DEF Simulators
  <2> QED
    BY <2>2, <2>3, <2>4, NoneAssumption
<1> QED
  BY <1>1, Invariance, PTL DEF Spec, StopStops
=============================================================================
