--------------------------- MODULE DaemonControl ---------------------------
(***************************************************************************)
(* mnemosynectl start, stop, restart and status (cmd/mnemosynectl/         *)
(* daemon.go) and the daemon they manage (internal/appcli/serve.go,        *)
(* internal/runtimeapp/app.go).  The command lines share one file,         *)
(* state/daemon.json, with the PID and the address of the daemon, and lock *)
(* nothing: each command reads it, asks the process and the address, and   *)
(* acts on the answers.                                                    *)
(*                                                                         *)
(* A daemon builds its stores, which includes orchestrator.Recover on the  *)
(* task files, and only then tries the address.  All daemons use the same  *)
(* address.                                                                *)
(***************************************************************************)
EXTENDS Naturals

CONSTANTS
  Shell,      \* terminals in which commands are run
  Pid,        \* process ids
  MaxCommands, \* bound: commands run
  MaxMishaps  \* bound: crashes, interruptions, timeouts, foreign processes

ASSUME DaemonAssumption == MaxCommands \in Nat /\ MaxMishaps \in Nat

VARIABLES
  proc,       \* the process with each pid
  pidfile,    \* state/daemon.json: "none", "torn" (being written), or a pid
  cmd,        \* the command each shell runs: its step and what it found
  signalled,  \* pids sent SIGTERM or SIGKILL that have not died yet
  commands,   \* commands so far
  mishaps,    \* mishaps so far
  calm,       \* ledger: no overlap, interruption, timeout or serve by hand so far
  intruded,   \* ledger: a daemon ran Recover while another one served
  strays      \* ledger: unrelated processes that were signalled

daemonVars == <<proc, pidfile, cmd, signalled, commands, mishaps, calm, intruded, strays>>

Idle == [step |-> "idle"]
ProcState == {"free", "building", "built", "serving", "gone", "other"}
Ops == {"start", "stop", "restart", "status"}

DaemonInit ==
  /\ proc = [p \in Pid |-> "free"]
  /\ pidfile = "none"
  /\ cmd = [c \in Shell |-> Idle]
  /\ signalled = {} /\ strays = {}
  /\ commands = 0 /\ mishaps = 0
  /\ calm = TRUE /\ intruded = FALSE

isProcessAlive(p) == proc[p] \in {"building", "built", "serving", "other"}
Daemons == {p \in Pid : proc[p] \in {"building", "built", "serving"}}
\* GET /health on the address: whoever serves it answers.
Healthy == \E p \in Pid : proc[p] = "serving"
AllIdle == \A c \in Shell : cmd[c] = Idle

Goto(c, step) == cmd' = [cmd EXCEPT ![c].step = step]
End(c) == cmd' = [cmd EXCEPT ![c] = Idle]
Mishap == mishaps < MaxMishaps /\ mishaps' = mishaps + 1

-----------------------------------------------------------------------------
(***************************************************************************)
(* The commands                                                            *)
(***************************************************************************)

Command(c, op) ==
  /\ cmd[c] = Idle
  /\ commands < MaxCommands /\ commands' = commands + 1
  /\ cmd' = [cmd EXCEPT ![c] = [step |-> "read", op |-> op]]
  /\ calm' = (calm /\ AllIdle)
  /\ UNCHANGED <<proc, pidfile, signalled, mishaps, intruded, strays>>

\* How a command goes on when no daemon runs (any more).  restart runs
\* cmdStart, which looks again.
NotRunning(c) ==
  cmd' = [cmd EXCEPT ![c] =
            IF cmd[c].op = "start" THEN [step |-> "spawn", op |-> "start"]
            ELSE IF cmd[c].op = "restart" THEN [step |-> "read", op |-> "start"]
            ELSE Idle]

\* isDaemonAlive, first half: the file and the process.
ReadInfo(c) ==
  /\ cmd[c].step = "read"
  /\ IF pidfile \notin Pid
     THEN NotRunning(c)
     ELSE IF isProcessAlive(pidfile)
     THEN cmd' = [cmd EXCEPT ![c] = [step |-> "health", op |-> cmd[c].op, pid |-> pidfile]]
     ELSE Goto(c, "drop")
  /\ UNCHANGED <<proc, pidfile, signalled, commands, mishaps, calm, intruded, strays>>

\* The process is dead: the file goes.
DropInfo(c) ==
  /\ cmd[c].step = "drop"
  /\ pidfile' = "none" /\ NotRunning(c)
  /\ UNCHANGED <<proc, signalled, commands, mishaps, calm, intruded, strays>>

\* Mutant: start does not ask for the health of the daemon it finds.
HealthIgnored(c, answered) ==
  /\ cmd[c].step = "health"
  /\ (answered <=> Healthy) /\ UNCHANGED <<mishaps, calm>>
  /\ \/ answered /\ cmd[c].op \in {"stop", "restart"} /\ Goto(c, "stop")
     \/ ~answered /\ cmd[c].op = "stop" /\ Goto(c, "stale")
     \/ cmd[c].op = "start" /\ NotRunning(c)
  /\ UNCHANGED <<proc, pidfile, signalled, commands, intruded, strays>>

\* isDaemonAlive, second half: the health check, and what each command makes
\* of it.  The check has a timeout, so a daemon may also miss it.
Health(c, answered) ==
  /\ cmd[c].step = "health"
  /\ IF answered THEN Healthy /\ UNCHANGED <<mishaps, calm>>
     ELSE IF Healthy THEN Mishap /\ calm' = FALSE
     ELSE UNCHANGED <<mishaps, calm>>
  /\ \/ answered /\ cmd[c].op \in {"stop", "restart"} /\ Goto(c, "stop")
     \/ answered /\ cmd[c].op \in {"start", "status"} /\ End(c)
     \/ ~answered /\ cmd[c].op = "stop" /\ Goto(c, "stale")
     \/ ~answered /\ cmd[c].op # "stop" /\ NotRunning(c)
  /\ UNCHANGED <<proc, pidfile, signalled, commands, intruded, strays>>

\* cmdStop, process alive but no answer: "Stale PID file removed."
RemoveStale(c) ==
  /\ cmd[c].step = "stale"
  /\ pidfile' = "none" /\ End(c)
  /\ UNCHANGED <<proc, signalled, commands, mishaps, calm, intruded, strays>>

\* stopDaemon reads the file again and signals the process it names now.
StopDaemon(c) ==
  /\ cmd[c].step = "stop"
  /\ \/ /\ pidfile \notin Pid
        /\ NotRunning(c) /\ UNCHANGED <<signalled, strays>>
     \/ /\ pidfile \in Pid /\ ~isProcessAlive(pidfile)
        /\ Goto(c, "stopped") /\ UNCHANGED <<signalled, strays>>
     \/ /\ pidfile \in Pid /\ isProcessAlive(pidfile)
        /\ signalled' = signalled \cup {pidfile}
        /\ strays' = strays \cup {p \in {pidfile} : proc[p] = "other"}
        /\ cmd' = [cmd EXCEPT ![c] = [step |-> "dying", op |-> cmd[c].op, pid |-> pidfile]]
  /\ UNCHANGED <<proc, pidfile, commands, mishaps, calm, intruded>>

\* It waits three seconds for the process to die, then sends SIGKILL and
\* does not wait any more.
AwaitDeath(c) ==
  /\ cmd[c].step = "dying"
  /\ \/ ~isProcessAlive(cmd[c].pid) /\ UNCHANGED <<mishaps, calm>>
     \/ isProcessAlive(cmd[c].pid) /\ Mishap /\ calm' = FALSE
  /\ Goto(c, "stopped")
  /\ UNCHANGED <<proc, pidfile, signalled, commands, intruded, strays>>

Stopped(c) ==
  /\ cmd[c].step = "stopped"
  /\ pidfile' = "none" /\ NotRunning(c)
  /\ UNCHANGED <<proc, signalled, commands, mishaps, calm, intruded, strays>>

\* startDaemon: the process first, then the file, which is emptied before
\* it is written.
Spawn(c) ==
  /\ cmd[c].step = "spawn"
  /\ \E p \in Pid :
       /\ proc[p] = "free"
       /\ proc' = [proc EXCEPT ![p] = "building"]
       /\ cmd' = [cmd EXCEPT ![c] = [step |-> "open", op |-> "start", pid |-> p]]
  /\ UNCHANGED <<pidfile, signalled, commands, mishaps, calm, intruded, strays>>

OpenInfo(c) ==
  /\ cmd[c].step = "open"
  /\ pidfile' = "torn" /\ Goto(c, "write")
  /\ UNCHANGED <<proc, signalled, commands, mishaps, calm, intruded, strays>>

WriteInfo(c) ==
  /\ cmd[c].step = "write"
  /\ pidfile' = cmd[c].pid /\ Goto(c, "wait")
  /\ UNCHANGED <<proc, signalled, commands, mishaps, calm, intruded, strays>>

\* waitForHealthy: until the address answers, or ten seconds.
WaitForHealthy(c) ==
  /\ cmd[c].step = "wait"
  /\ \/ Healthy /\ UNCHANGED <<mishaps, calm>>
     \/ ~Healthy /\ ~isProcessAlive(cmd[c].pid) /\ UNCHANGED <<mishaps, calm>>
     \/ ~Healthy /\ isProcessAlive(cmd[c].pid) /\ Mishap /\ calm' = FALSE
  /\ End(c)
  /\ UNCHANGED <<proc, pidfile, signalled, commands, intruded, strays>>

\* The command is interrupted, or its write fails.
Interrupt(c) ==
  /\ cmd[c] # Idle
  /\ Mishap /\ calm' = FALSE
  /\ End(c)
  /\ UNCHANGED <<proc, pidfile, signalled, commands, intruded, strays>>

-----------------------------------------------------------------------------
(***************************************************************************)
(* The processes                                                           *)
(***************************************************************************)

\* RunServe without mnemosynectl start: no PID file.
ServeByHand(p) ==
  /\ proc[p] = "free" /\ Mishap /\ calm' = FALSE
  /\ proc' = [proc EXCEPT ![p] = "building"]
  /\ UNCHANGED <<pidfile, cmd, signalled, commands, intruded, strays>>

\* Build: stores are loaded, Recover puts active tasks back, schedulers
\* start.
Build(p) ==
  /\ proc[p] = "building"
  /\ proc' = [proc EXCEPT ![p] = "built"]
  /\ intruded' = (intruded \/ Healthy)
  /\ UNCHANGED <<pidfile, cmd, signalled, commands, mishaps, calm, strays>>

BuildFails(p) ==
  /\ proc[p] = "building" /\ Mishap
  /\ proc' = [proc EXCEPT ![p] = "gone"]
  /\ UNCHANGED <<pidfile, cmd, signalled, commands, calm, intruded, strays>>

\* ListenAndServe: the second one on the address returns an error, and the
\* process shuts down.
ListenAndServe(p) ==
  /\ proc[p] = "built"
  /\ proc' = [proc EXCEPT ![p] = IF Healthy THEN "gone" ELSE "serving"]
  /\ UNCHANGED <<pidfile, cmd, signalled, commands, mishaps, calm, intruded, strays>>

\* Nothing handles SIGTERM: the process ends without Shutdown.
Die(p) ==
  /\ p \in signalled
  /\ signalled' = signalled \ {p}
  /\ proc' = [proc EXCEPT ![p] = IF isProcessAlive(p) THEN "gone" ELSE @]
  /\ UNCHANGED <<pidfile, cmd, commands, mishaps, calm, intruded, strays>>

DaemonCrash(p) ==
  /\ proc[p] = "serving" /\ Mishap
  /\ proc' = [proc EXCEPT ![p] = "gone"]
  /\ UNCHANGED <<pidfile, cmd, signalled, commands, calm, intruded, strays>>

\* The pid of a daemon that is gone is given to an unrelated process.
Reuse(p) ==
  /\ AllIdle /\ signalled = {}
  /\ proc[p] = "gone" /\ Mishap
  /\ proc' = [proc EXCEPT ![p] = "other"]
  /\ UNCHANGED <<pidfile, cmd, signalled, commands, calm, intruded, strays>>

DaemonNext ==
  \/ \E c \in Shell :
       \/ \E op \in Ops : Command(c, op)
       \/ ReadInfo(c) \/ DropInfo(c)
       \/ Health(c, TRUE) \/ Health(c, FALSE)
       \/ RemoveStale(c) \/ StopDaemon(c) \/ AwaitDeath(c) \/ Stopped(c)
       \/ Spawn(c) \/ OpenInfo(c) \/ WriteInfo(c) \/ WaitForHealthy(c) \/ Interrupt(c)
  \/ \E p \in Pid :
       \/ ServeByHand(p) \/ Build(p) \/ BuildFails(p) \/ ListenAndServe(p)
       \/ Die(p) \/ DaemonCrash(p) \/ Reuse(p)

-----------------------------------------------------------------------------
(***************************************************************************)
(* Properties                                                              *)
(***************************************************************************)

Steps == {"read", "drop", "health", "stale", "stop", "dying", "stopped", "spawn",
          "open", "write", "wait"}

\* The types of processes, file and commands.
DaemonTypeOK ==
  /\ proc \in [Pid -> ProcState]
  /\ pidfile \in Pid \cup {"none", "torn"}
  /\ \A c \in Shell :
       cmd[c] \in {Idle} \cup [step: Steps, op: Ops] \cup [step: Steps, op: Ops, pid: Pid]
  /\ signalled \subseteq Pid /\ strays \subseteq Pid
  /\ commands \in 0..MaxCommands /\ mishaps \in 0..MaxMishaps
  /\ calm \in BOOLEAN /\ intruded \in BOOLEAN

\* As long as commands do not overlap, are not interrupted and do not give up
\* on a slow process, and nobody runs serve by hand: whenever no command is
\* under way, the only daemon process there is, is the one in the PID file,
\* also after daemons that crashed, did not come up, or whose pid belongs to
\* another process now.  So stop can reach it.
DaemonTracked == calm /\ AllIdle => Daemons \subseteq {pidfile}

\* Under the same conditions a new daemon never runs Recover, which takes
\* active tasks for the leftovers of a crash, while another one serves.
RecoverAlone == calm => ~intruded

\* Under the same conditions only daemons are sent SIGTERM, never the process
\* that has got a dead daemon's pid.
OnlyDaemonsStopped == calm => strays = {}

\* The command lines manage one daemon and nothing else: DaemonTracked,
\* RecoverAlone and OnlyDaemonsStopped, over states of the right types.
OneDaemon == DaemonTypeOK /\ DaemonTracked /\ RecoverAlone /\ OnlyDaemonsStopped
=============================================================================
