-------------------------- MODULE SimulatorScripts --------------------------
(***************************************************************************)
(* tpm-simu/scripts: start.sh and stop.sh against the PID file, the TCP    *)
(* port and the processes of the machine.  A step of a script is one       *)
(* access to one of the three; status.sh makes the first two accesses of   *)
(* stop.sh and prints what it found.  Nothing keeps a second script from   *)
(* running beside start.sh; here none does.                                *)
(***************************************************************************)
CONSTANTS
    Scripts,            \* invocations of the scripts, each run once
    Pids,               \* process ids (a bound on processes at one time)
    None

ASSUME NoneAssumption == None \notin Pids \cup Scripts \cup {"empty"}
ASSUME PidsAssumption == "empty" \notin Pids

VARIABLES
    proc,               \* what runs under a process id: see Programs
    port,               \* the process that listens on TPM_SIM_PORT, or None
    file,               \* PID_FILE: None, "empty" or a process id
    pc, kind,           \* next step and name of each invocation
    pid,                \* OLD_PID and NEW_PID of start.sh, PID of stop.sh
    outcome             \* what the invocation reported

machineVars == <<proc, port>>
vars == <<machineVars, file, pc, kind, pid, outcome>>

\* Nothing; a simulator that has not bound its sockets, that listens, or that
\* was told to terminate; another program.
Simulator == {"starting", "listening", "terminating"}
Programs == {"none", "other"} \cup Simulator

StartLabels == {"read", "alive", "rm_stale", "port", "launch", "open", "write",
                "check", "rm_failed", "listening"}
StopLabels == {"read", "alive", "rm_stale", "kill", "wait", "kill9", "rm"}
Outcomes == {None, "already", "in_use", "started", "failed", "not_listening",
             "not_running", "stopped"}

Init ==
    /\ proc = [p \in Pids |-> "none"]
    /\ port = None
    /\ file = None
    /\ pc = [s \in Scripts |-> "new"]
    /\ kind \in [Scripts -> {"start", "stop"}]
    /\ pid = [s \in Scripts |-> None]
    /\ outcome = [s \in Scripts |-> None]

Running(s) == pc[s] \notin {"new", "done"}
Alive(p) == proc[p] # "none"                    \* kill -0

Goto(s, label) == pc' = [pc EXCEPT ![s] = label] /\ UNCHANGED outcome
Exit(s, o) == pc' = [pc EXCEPT ![s] = "done"] /\ outcome' = [outcome EXCEPT ![s] = o]

\* What becomes of the port when process p is no more.
PortWithout(p) == IF port = p THEN None ELSE port

-----------------------------------------------------------------------------
(* Both scripts: the PID file is read, and the process asked for *)

\* Several invocations of stop.sh may overlap; start.sh runs alone.
Begin(s) ==
    /\ pc[s] = "new"
    /\ \A t \in Scripts : Running(t) => kind[s] = "stop" /\ kind[t] = "stop"
    /\ Goto(s, "read")
    /\ UNCHANGED <<machineVars, file, kind, pid>>

ReadPid(s) ==
    /\ pc[s] = "read"
    /\ CASE file = None ->
              IF kind[s] = "start" THEN Goto(s, "port") ELSE Exit(s, "not_running")
         [] file = "empty" -> Goto(s, "rm_stale")
         [] OTHER -> Goto(s, "alive")
    /\ pid' = [pid EXCEPT ![s] = IF file \in Pids THEN file ELSE None]
    /\ UNCHANGED <<machineVars, file, kind>>

CheckAlive(s) ==
    /\ pc[s] = "alive"
    /\ CASE ~Alive(pid[s]) -> Goto(s, "rm_stale")
         [] Alive(pid[s]) /\ kind[s] = "start" -> Exit(s, "already")
         [] OTHER -> Goto(s, "kill")
    /\ UNCHANGED <<machineVars, file, kind, pid>>

RmStale(s) ==
    /\ pc[s] = "rm_stale"
    /\ file' = None
    /\ IF kind[s] = "start" THEN Goto(s, "port") ELSE Exit(s, "not_running")
    /\ UNCHANGED <<machineVars, kind, pid>>

-----------------------------------------------------------------------------
(* start.sh *)

CheckPort(s) ==
    /\ pc[s] = "port"
    /\ IF port # None THEN Exit(s, "in_use") ELSE Goto(s, "launch")
    /\ UNCHANGED <<machineVars, file, kind, pid>>

Launch(s) ==
    /\ pc[s] = "launch"
    /\ \E p \in Pids :
        /\ ~Alive(p)
        /\ proc' = [proc EXCEPT ![p] = "starting"]
        /\ pid' = [pid EXCEPT ![s] = p]
    /\ Goto(s, "open")
    /\ UNCHANGED <<port, file, kind>>

\* The shell opens the file, truncated, before echo writes to it.
OpenFile(s) ==
    /\ pc[s] = "open"
    /\ file' = "empty"
    /\ Goto(s, "write")
    /\ UNCHANGED <<machineVars, kind, pid>>

WriteFile(s) ==
    /\ pc[s] = "write"
    /\ file' = pid[s]
    /\ Goto(s, "check")
    /\ UNCHANGED <<machineVars, kind, pid>>

\* After a second; the simulator may need longer to bind its sockets.
CheckStarted(s) ==
    /\ pc[s] = "check"
    /\ Goto(s, IF Alive(pid[s]) THEN "listening" ELSE "rm_failed")
    /\ UNCHANGED <<machineVars, file, kind, pid>>

RmFailed(s) ==
    /\ pc[s] = "rm_failed"
    /\ file' = None
    /\ Exit(s, "failed")
    /\ UNCHANGED <<machineVars, kind, pid>>

\* Faulty variant: the file of a simulator that is slow to bind is removed.
CheckListeningRemoves(s) ==
    /\ pc[s] = "listening"
    /\ file' = IF port # None THEN file ELSE None
    /\ Exit(s, IF port # None THEN "started" ELSE "not_listening")
    /\ UNCHANGED <<machineVars, kind, pid>>

\* Any listener on the port will do, and the file stays where there is none.
CheckListening(s) ==
    /\ pc[s] = "listening"
    /\ Exit(s, IF port # None THEN "started" ELSE "not_listening")
    /\ UNCHANGED <<machineVars, file, kind, pid>>

-----------------------------------------------------------------------------
(* stop.sh *)

\* SIGTERM; what it is sent to ends, now or later.
Kill(s) ==
    /\ pc[s] = "kill"
    /\ proc' = [proc EXCEPT ![pid[s]] = IF @ \in Simulator THEN "terminating" ELSE @]
    /\ Goto(s, "wait")
    /\ UNCHANGED <<port, file, kind, pid>>

\* Faulty variant: the script does not see to the end of the process.
WaitGivesUp(s) ==
    /\ pc[s] = "wait"
    /\ IF Alive(pid[s]) THEN Exit(s, "stopped") ELSE Goto(s, "rm")
    /\ UNCHANGED <<machineVars, file, kind, pid>>

\* The process is gone, or ten seconds are over.
Wait(s) ==
    /\ pc[s] = "wait"
    /\ Goto(s, IF Alive(pid[s]) THEN "kill9" ELSE "rm")
    /\ UNCHANGED <<machineVars, file, kind, pid>>

\* Faulty variant: the sockets of the killed process stay bound.
Kill9KeepsPort(s) ==
    /\ pc[s] = "kill9"
    /\ proc' = [proc EXCEPT ![pid[s]] = "none"]
    /\ Goto(s, "rm")
    /\ UNCHANGED <<port, file, kind, pid>>

Kill9(s) ==
    /\ pc[s] = "kill9"
    /\ proc' = [proc EXCEPT ![pid[s]] = "none"]
    /\ port' = PortWithout(pid[s])
    /\ Goto(s, "rm")
    /\ UNCHANGED <<file, kind, pid>>

Rm(s) ==
    /\ pc[s] = "rm"
    /\ file' = None
    /\ Exit(s, "stopped")
    /\ UNCHANGED <<machineVars, kind, pid>>

-----------------------------------------------------------------------------
(* The processes *)

\* A simulator binds its sockets, or ends when they are taken.
Bind(p) ==
    /\ proc[p] = "starting"
    /\ IF port = None
       THEN proc' = [proc EXCEPT ![p] = "listening"] /\ port' = p
       ELSE proc' = [proc EXCEPT ![p] = "none"] /\ UNCHANGED port
    /\ UNCHANGED <<file, pc, kind, pid, outcome>>

\* A process ends, told to or not.
Die(p) ==
    /\ Alive(p)
    /\ proc' = [proc EXCEPT ![p] = "none"]
    /\ port' = PortWithout(p)
    /\ UNCHANGED <<file, pc, kind, pid, outcome>>

\* An unrelated program gets a process id that is free.
OtherStarts(p) ==
    /\ ~Alive(p)
    /\ proc' = [proc EXCEPT ![p] = "other"]
    /\ UNCHANGED <<port, file, pc, kind, pid, outcome>>

ScriptStep(s) ==
    \/ Begin(s) \/ ReadPid(s) \/ CheckAlive(s) \/ RmStale(s)
    \/ CheckPort(s) \/ Launch(s) \/ OpenFile(s) \/ WriteFile(s)
    \/ CheckStarted(s) \/ RmFailed(s) \/ CheckListening(s)
    \/ Kill(s) \/ Wait(s) \/ Kill9(s) \/ Rm(s)

Next ==
    \/ \E s \in Scripts : ScriptStep(s)
    \/ \E p \in Pids : Bind(p) \/ Die(p) \/ OtherStarts(p)

Spec == Init /\ [][Next]_vars

-----------------------------------------------------------------------------
(* Properties *)

Simulators == {p \in Pids : proc[p] \in Simulator}
Quiet == \A s \in Scripts : ~Running(s)

\* The types of the variables; a process that listens is alive.
TypeOK ==
    /\ proc \in [Pids -> Programs]
    /\ port \in Pids \cup {None}
    /\ file \in Pids \cup {None, "empty"}
    /\ pc \in [Scripts -> {"new", "done"} \cup StartLabels \cup StopLabels]
    /\ pid \in [Scripts -> Pids \cup {None}]
    /\ outcome \in [Scripts -> Outcomes]
    /\ port # None => Alive(port)

\* When no script runs there is at most one simulator and the PID file names
\* it, whenever simulators end by themselves and however late they bind their
\* sockets: stop.sh can stop what start.sh has started.
PidFileNamesSimulator == Quiet => \A p \in Simulators : file = p

\* When stop.sh has ended no simulator is left, one that ignores SIGTERM or
\* was not listening yet included, also when another stop.sh has taken the PID
\* file away or another program has got the process id in it.
StopStops ==
    [][\A s \in Scripts :
        kind[s] = "stop" /\ pc[s] # "done" /\ pc'[s] = "done" => Simulators' = {}]_vars
=============================================================================
