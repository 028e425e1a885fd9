---------------------------- MODULE ConsoleProofs ----------------------------
(***************************************************************************)
(* Proofs about Console, part by part: the commands that manage the daemon *)
(* (DaemonControl), the model settings (ModelSettings), the tools and the  *)
(* streamed answer of a chat turn (AgentTurn) and the page that follows    *)
(* the messages (ChatStream).  A step of one part leaves the variables of  *)
(* the others as they are.                                                 *)
(***************************************************************************)
EXTENDS Console, FiniteSetTheorems, SequenceTheorems, WellFoundedInduction, TLAPS

-----------------------------------------------------------------------------
(***************************************************************************)
(* DaemonControl                                                           *)
(***************************************************************************)

Alive(p) == proc[p] \in {"building", "built", "serving"}
NoneAlive == \A p \in Pid : ~Alive(p)

\* What holds between commands: a daemon is the one in the file, and it is up.
Settled == \A p \in Pid : Alive(p) => p = pidfile /\ proc[p] = "serving"

CmdType == {Idle} \cup [step: Steps, op: Ops] \cup [step: Steps, op: Ops, pid: Pid]
HasPid == {"open", "write", "wait", "dying"}
CmdOK(m) == m \in CmdType /\ (m.step \in HasPid => m \in [step: Steps, op: Ops, pid: Pid])

\* What a command under way knows, by the step it has come to.
Stage(m) ==
  /\ m.step \in {"idle", "read", "health", "dying", "stop"} => Settled
  /\ m.step \in {"drop", "stale", "stopped", "spawn"} => NoneAlive
  /\ m.step = "dying" => m.pid = pidfile
  /\ m.step = "stop" => \A p \in Pid : p = pidfile => proc[p] # "other"
  /\ m.step \in {"open", "write", "wait"} => \A p \in Pid : Alive(p) => p = m.pid
  /\ m.step = "wait" => m.pid = pidfile

DaemonTypes ==
  /\ proc \in [Pid -> ProcState]
  /\ pidfile \in Pid \cup {"none", "torn"}
  /\ signalled \subseteq Pid /\ strays \subseteq Pid
  /\ commands \in 0..MaxCommands /\ mishaps \in 0..MaxMishaps
  /\ calm \in BOOLEAN /\ intruded \in BOOLEAN
  /\ cmd \in [Shell -> CmdType]
  /\ \A c \in Shell : CmdOK(cmd[c])

\* Nobody but c runs a command.
Alone(c) == \A d \in Shell : d # c => cmd[d] = Idle

\* In calm times one command runs at a time, and what it knows is so.
Orderly ==
  calm => /\ \A c, d \in Shell : cmd[c] # Idle /\ cmd[d] # Idle => c = d
          /\ AllIdle => Settled
          /\ ~intruded /\ strays = {}
          /\ \A c \in Shell : cmd[c] # Idle => Stage(cmd[c])

DInv == DaemonTypes /\ Orderly

\* A command that is not idle has a step and an operation.
LEMMA IdleFacts ==
  /\ Idle.step = "idle" /\ CmdOK(Idle)
  /\ \A m \in CmdType : m # Idle <=> m.step # "idle"
  /\ \A m \in CmdType : m # Idle => m.step \in Steps /\ m.op \in Ops
BY DEF Idle, CmdOK, CmdType, Steps, Ops, HasPid

LEMMA DaemonInitial == Init => DInv
<1> SUFFICES ASSUME Init PROVE DInv
  OBVIOUS
<1>1. \A c \in Shell : cmd[c] = Idle
  BY DEF Init, DaemonInit
<1>2. DaemonTypes
  <2>1. cmd \in [Shell -> CmdType]
    BY DEF Init, DaemonInit, CmdType
  <2>2. proc \in [Pid -> ProcState]
    BY DEF Init, DaemonInit, ProcState
  <2>3. commands \in 0..MaxCommands /\ mishaps \in 0..MaxMishaps
    BY DaemonAssumption DEF Init, DaemonInit
  <2> QED BY <1>1, <2>1, <2>2, <2>3, IdleFacts DEF DaemonTypes, Init, DaemonInit
<1>3. Settled
  BY DEF Init, DaemonInit, Settled, Alive
<1> QED BY <1>1, <1>2, <1>3 DEF DInv, Orderly, Init, DaemonInit

\* In calm times whoever runs a command runs it alone.
LEMMA CalmAlone ==
  ASSUME DInv, calm, NEW c \in Shell, cmd[c] # Idle
  PROVE  Alone(c) /\ Stage(cmd[c])
BY DEF DInv, Orderly, Alone

\* What is to be shown of a command's step: its new stage.
LEMMA CommandMoves ==
  ASSUME DInv, NEW c \in Shell, NEW m, cmd' = [cmd EXCEPT ![c] = m], CmdOK(m),
         proc' \in [Pid -> ProcState], pidfile' \in Pid \cup {"none", "torn"},
         signalled' \subseteq Pid, strays' \subseteq Pid,
         commands' \in 0..MaxCommands, mishaps' \in 0..MaxMishaps,
         calm' \in BOOLEAN, intruded' = intruded,
         calm' => calm /\ Alone(c) /\ strays' = {} /\ Stage(m)'
  PROVE  DInv'
<1>1. cmd' \in [Shell -> CmdType] /\ cmd'[c] = m /\ \A d \in Shell : d # c => cmd'[d] = cmd[d]
  BY DEF DInv, DaemonTypes, CmdOK
<1>2. DaemonTypes'
  <2>1. \A d \in Shell : CmdOK(cmd'[d])
    BY <1>1, Zenon DEF DInv, DaemonTypes
  <2> QED BY <1>1, <2>1 DEF DInv, DaemonTypes
<1>3. ASSUME calm' PROVE /\ \A d, e \in Shell : cmd'[d] # Idle /\ cmd'[e] # Idle => d = e
                         /\ AllIdle' => Settled'
                         /\ ~intruded' /\ strays' = {}
                         /\ \A d \in Shell : cmd'[d] # Idle => Stage(m)' /\ d = c
  <2>1. \A d \in Shell : d # c => cmd'[d] = Idle
    BY <1>1, <1>3 DEF Alone
  <2>2. AllIdle' => Settled'
    <3> SUFFICES ASSUME AllIdle' PROVE Settled'
      OBVIOUS
    <3>1. m.step = "idle"
      BY <1>1, IdleFacts, Zenon DEF AllIdle
    <3> QED BY <3>1, <1>3 DEF Stage
  <2>3. ~intruded' /\ strays' = {}
    BY <1>3 DEF DInv, Orderly
  <2> QED BY <2>1, <2>2, <2>3, <1>3, Zenon
<1>4. ASSUME calm', NEW d \in Shell, cmd'[d] # Idle PROVE Stage(cmd[d])'
  BY <1>1, <1>3, <1>4 DEF Stage
<1> QED BY <1>2, <1>3, <1>4 DEF DInv, Orderly

LEMMA GotoMoves ==
  ASSUME DInv, NEW c \in Shell, cmd[c] # Idle, NEW s \in Steps, Goto(c, s),
         s \in HasPid => cmd[c].step \in HasPid
  PROVE  \E m : /\ cmd' = [cmd EXCEPT ![c] = m] /\ CmdOK(m) /\ m.step = s
                /\ s \in HasPid => m.pid = cmd[c].pid
<1>1. PICK m : m = [cmd[c] EXCEPT !.step = s]
  OBVIOUS
<1>2. cmd' = [cmd EXCEPT ![c] = m]
  BY <1>1 DEF Goto
<1>3. cmd[c] \in [step: Steps, op: Ops] \cup [step: Steps, op: Ops, pid: Pid] /\ CmdOK(cmd[c])
  BY DEF DInv, DaemonTypes, CmdType
<1>4. CmdOK(m) /\ m.step = s /\ (s \in HasPid => m.pid = cmd[c].pid)
  BY <1>1, <1>3 DEF CmdOK, CmdType
<1> QED BY <1>2, <1>4

\* How a command goes on when no daemon runs.
LEMMA NotRunningMoves ==
  ASSUME DInv, NEW c \in Shell, NotRunning(c)
  PROVE  \E m : /\ cmd' = [cmd EXCEPT ![c] = m] /\ CmdOK(m)
                /\ NoneAlive' => Stage(m)'
<1>1. PICK m : m = IF cmd[c].op = "start" THEN [step |-> "spawn", op |-> "start"]
                   ELSE IF cmd[c].op = "restart" THEN [step |-> "read", op |-> "start"]
                   ELSE Idle
  OBVIOUS
<1>2. CmdOK(m) /\ m.step \in {"spawn", "read", "idle"}
  BY <1>1, IdleFacts DEF CmdOK, CmdType, Steps, Ops, HasPid
<1>3. NoneAlive' => Stage(m)'
  BY <1>2 DEF Stage, NoneAlive, Settled
<1>4. cmd' = [cmd EXCEPT ![c] = m]
  BY <1>1 DEF NotRunning
<1> QED BY <1>2, <1>3, <1>4

LEMMA CommandStep ==
  ASSUME DInv, NEW c \in Shell, NEW op \in Ops, Command(c, op)
  PROVE  DInv'
<1>1. PICK m : m = [step |-> "read", op |-> op]
  OBVIOUS
<1>2. CmdOK(m) /\ m.step = "read"
  BY <1>1 DEF CmdOK, CmdType, Steps, HasPid
<1>3. cmd' = [cmd EXCEPT ![c] = m]
  BY <1>1 DEF Command
<1>4. commands' \in 0..MaxCommands
  BY DaemonAssumption DEF DInv, DaemonTypes, Command
<1>5. calm' => calm /\ Alone(c) /\ strays' = {} /\ Stage(m)'
  <2> SUFFICES ASSUME calm' PROVE calm /\ Alone(c) /\ strays' = {} /\ Stage(m)'
    OBVIOUS
  <2>1. calm /\ AllIdle /\ strays' = strays /\ proc' = proc /\ pidfile' = pidfile
    BY DEF Command
  <2>2. Alone(c) /\ strays = {} /\ Settled
    BY <2>1 DEF DInv, Orderly, Alone, AllIdle
  <2>3. Settled'
    BY <2>1, <2>2 DEF Settled, Alive
  <2> QED BY <1>2, <2>1, <2>2, <2>3 DEF Stage
<1>6. DaemonTypes /\ UNCHANGED <<proc, pidfile, signalled, mishaps, intruded, strays>>
      /\ calm' \in BOOLEAN
  BY DEF DInv, Command
<1> QED BY <1>2, <1>3, <1>4, <1>5, <1>6, CommandMoves DEF DaemonTypes

\* The stage a command has come to, in calm times.
LEMMA StageNow ==
  ASSUME DInv, NEW c \in Shell, NEW s \in Steps, cmd[c].step = s
  PROVE  /\ cmd[c] # Idle /\ CmdOK(cmd[c])
         /\ calm => Alone(c) /\ Stage(cmd[c]) /\ strays = {}
BY CalmAlone, IdleFacts DEF DInv, DaemonTypes, Orderly, Steps

LEMMA ReadInfoStep ==
  ASSUME DInv, NEW c \in Shell, ReadInfo(c)
  PROVE  DInv'
<1>1. /\ cmd[c] # Idle /\ CmdOK(cmd[c]) /\ cmd[c].step = "read" /\ DaemonTypes
      /\ calm => Alone(c) /\ Stage(cmd[c]) /\ strays = {}
      /\ UNCHANGED <<proc, pidfile, signalled, commands, mishaps, calm, intruded, strays>>
  BY StageNow DEF ReadInfo, Steps, DInv
<1>2. calm => Settled /\ Settled'
  BY <1>1 DEF Stage, Settled, Alive
<1>3. CASE pidfile \notin Pid
  <2>1. PICK m : /\ cmd' = [cmd EXCEPT ![c] = m] /\ CmdOK(m)
                 /\ NoneAlive' => Stage(m)'
    BY <1>3, NotRunningMoves DEF ReadInfo
  <2>2. calm => NoneAlive'
    BY <1>2, <1>3, <1>1 DEF NoneAlive, Settled, Alive
  <2> QED BY <1>1, <2>1, <2>2, CommandMoves DEF DaemonTypes
<1>4. CASE pidfile \in Pid /\ isProcessAlive(pidfile)
  <2>1. PICK m : m = [step |-> "health", op |-> cmd[c].op, pid |-> pidfile]
    OBVIOUS
  <2>2. cmd' = [cmd EXCEPT ![c] = m] 
    BY <1>4, <2>1 DEF ReadInfo
  <2>3. cmd[c].op \in Ops
    BY <1>1, IdleFacts DEF CmdOK
  <2>4. CmdOK(m) /\ m.step = "health"
    BY <2>1, <2>3, <1>4 DEF CmdOK, CmdType, HasPid, Steps
  <2>5. calm => Stage(m)'
    BY <1>2, <2>4 DEF Stage
  <2> QED BY <1>1, <2>2, <2>4, <2>5, CommandMoves DEF DaemonTypes
<1>5. CASE pidfile \in Pid /\ ~isProcessAlive(pidfile)
  <2>1. PICK m : cmd' = [cmd EXCEPT ![c] = m] /\ CmdOK(m) /\ m.step = "drop"
    <3>1. Goto(c, "drop") /\ "drop" \in Steps /\ "drop" \notin HasPid
      BY <1>5 DEF ReadInfo, Steps, HasPid
    <3> QED BY <1>1, <3>1, GotoMoves
  <2>2. calm => NoneAlive'
    BY <1>2, <1>5, <1>1 DEF NoneAlive, Settled, Alive, isProcessAlive
  <2>3. calm => Stage(m)'
    BY <2>1, <2>2 DEF Stage
  <2> QED BY <1>1, <2>1, <2>3, CommandMoves DEF DaemonTypes
<1> QED BY <1>3, <1>4, <1>5

\* The two steps that remove the file after the process is dead.
LEMMA FileGoes ==
  ASSUME DInv, NEW c \in Shell, DropInfo(c) \/ Stopped(c)
  PROVE  DInv'
<1>1. /\ cmd[c].step \in {"drop", "stopped"} /\ NotRunning(c) /\ pidfile' = "none"
      /\ UNCHANGED <<proc, signalled, commands, mishaps, calm, intruded, strays>>
  BY DEF DropInfo, Stopped
<1>2. /\ cmd[c] # Idle /\ CmdOK(cmd[c]) /\ DaemonTypes
      /\ calm => Alone(c) /\ Stage(cmd[c]) /\ strays = {}
  BY <1>1, StageNow DEF Steps, DInv
<1>3. PICK m : /\ cmd' = [cmd EXCEPT ![c] = m] /\ CmdOK(m)
               /\ NoneAlive' => Stage(m)'
  BY <1>1, NotRunningMoves
<1>4. calm => NoneAlive'
  BY <1>1, <1>2 DEF NoneAlive, Alive, Stage
<1> QED BY <1>1, <1>2, <1>3, <1>4, CommandMoves DEF DaemonTypes

LEMMA RemoveStaleStep ==
  ASSUME DInv, NEW c \in Shell, RemoveStale(c)
  PROVE  DInv'
<1>1. /\ cmd[c].step = "stale" /\ pidfile' = "none" /\ cmd' = [cmd EXCEPT ![c] = Idle]
      /\ UNCHANGED <<proc, signalled, commands, mishaps, calm, intruded, strays>>
  BY DEF RemoveStale, End
<1>2. /\ DaemonTypes
      /\ calm => Alone(c) /\ Stage(cmd[c]) /\ strays = {}
  BY <1>1, StageNow DEF Steps, DInv
<1>3. calm => Stage(Idle)'
  BY <1>1, <1>2, IdleFacts DEF NoneAlive, Alive, Stage, Settled
<1>4. PICK m : m = Idle
  OBVIOUS
<1> QED BY <1>1, <1>2, <1>3, <1>4, CommandMoves, IdleFacts DEF DaemonTypes

LEMMA MishapCounts ==
  ASSUME DInv, Mishap
  PROVE  mishaps' \in 0..MaxMishaps
BY DaemonAssumption DEF DInv, DaemonTypes, Mishap

LEMMA HealthStep ==
  ASSUME DInv, NEW c \in Shell, NEW answered \in BOOLEAN, Health(c, answered)
  PROVE  DInv'
<1>1. /\ cmd[c].step = "health"
      /\ UNCHANGED <<proc, pidfile, signalled, commands, intruded, strays>>
  BY DEF Health
<1>2. /\ cmd[c] # Idle /\ CmdOK(cmd[c]) /\ DaemonTypes
      /\ calm => Alone(c) /\ Stage(cmd[c]) /\ strays = {}
  BY <1>1, StageNow DEF Steps, DInv
<1>3. calm => Settled /\ Settled'
  BY <1>1, <1>2 DEF Stage, Settled, Alive
<1>4. /\ mishaps' \in 0..MaxMishaps /\ calm' \in BOOLEAN
      /\ calm' => calm /\ (answered <=> Healthy)
  <2>1. CASE answered
    BY <2>1, <1>2, Zenon DEF Health, DaemonTypes
  <2>2. CASE ~answered /\ Healthy
    <3>1. Mishap /\ calm' = FALSE
      BY <2>2, Zenon DEF Health
    <3> QED BY <3>1, MishapCounts
  <2>3. CASE ~answered /\ ~Healthy
    BY <2>3, <1>2, Zenon DEF Health, DaemonTypes
  <2> QED BY <2>1, <2>2, <2>3, Zenon
<1>5. CASE answered /\ Goto(c, "stop")
  <2>1. PICK m : cmd' = [cmd EXCEPT ![c] = m] /\ CmdOK(m) /\ m.step = "stop"
    <3>1. "stop" \in Steps /\ "stop" \notin HasPid
      BY DEF Steps, HasPid
    <3> QED BY <1>2, <1>5, <3>1, GotoMoves
  <2>2. calm' => \A p \in Pid : p = pidfile' => proc'[p] # "other"
    BY <1>1, <1>3, <1>4, <1>5 DEF Healthy, Settled, Alive
  <2>3. calm' => Stage(m)'
    BY <2>1, <2>2, <1>3, <1>4 DEF Stage
  <2> QED BY <1>1, <1>2, <1>4, <2>1, <2>3, CommandMoves DEF DaemonTypes
<1>6. CASE answered /\ End(c)
  <2>1. PICK m : m = Idle /\ cmd' = [cmd EXCEPT ![c] = m]
    BY <1>6 DEF End
  <2>2. calm' => Stage(m)'
    BY <2>1, <1>3, <1>4, IdleFacts DEF Stage
  <2> QED BY <1>1, <1>2, <1>4, <2>1, <2>2, CommandMoves, IdleFacts DEF DaemonTypes
<1>7. ASSUME ~answered PROVE calm' => NoneAlive'
  BY <1>1, <1>3, <1>4, <1>7 DEF NoneAlive, Settled, Healthy, Alive
<1>8. CASE ~answered /\ Goto(c, "stale")
  <2>1. PICK m : cmd' = [cmd EXCEPT ![c] = m] /\ CmdOK(m) /\ m.step = "stale"
    <3>1. "stale" \in Steps /\ "stale" \notin HasPid
      BY DEF Steps, HasPid
    <3> QED BY <1>2, <1>8, <3>1, GotoMoves
  <2>2. calm' => Stage(m)'
    BY <2>1, <1>7, <1>8 DEF Stage
  <2> QED BY <1>1, <1>2, <1>4, <2>1, <2>2, CommandMoves DEF DaemonTypes
<1>9. CASE ~answered /\ NotRunning(c)
  <2>1. PICK m : /\ cmd' = [cmd EXCEPT ![c] = m] /\ CmdOK(m)
                 /\ NoneAlive' => Stage(m)'
    BY <1>9, NotRunningMoves
  <2> QED BY <1>1, <1>2, <1>4, <1>7, <1>9, <2>1, CommandMoves DEF DaemonTypes
<1> QED BY <1>5, <1>6, <1>8, <1>9, Zenon DEF Health

LEMMA StopDaemonStep ==
  ASSUME DInv, NEW c \in Shell, StopDaemon(c)
  PROVE  DInv'
<1>1. /\ cmd[c].step = "stop"
      /\ UNCHANGED <<proc, pidfile, commands, mishaps, calm, intruded>>
  BY DEF StopDaemon
<1>2. /\ cmd[c] # Idle /\ CmdOK(cmd[c]) /\ DaemonTypes
      /\ calm => Alone(c) /\ Stage(cmd[c]) /\ strays = {}
  BY <1>1, StageNow DEF Steps, DInv
<1>3. calm => Settled /\ Settled' /\ \A p \in Pid : p = pidfile => proc[p] # "other"
  BY <1>1, <1>2 DEF Stage, Settled, Alive
<1>4. CASE pidfile \notin Pid /\ NotRunning(c) /\ UNCHANGED <<signalled, strays>>
  <2>1. PICK m : /\ cmd' = [cmd EXCEPT ![c] = m] /\ CmdOK(m)
                 /\ NoneAlive' => Stage(m)'
    BY <1>4, NotRunningMoves
  <2>2. calm => NoneAlive'
    BY <1>3, <1>4, <1>1 DEF NoneAlive, Settled, Alive
  <2> QED BY <1>1, <1>2, <1>4, <2>1, <2>2, CommandMoves DEF DaemonTypes
<1>5. CASE /\ pidfile \in Pid /\ ~isProcessAlive(pidfile)
           /\ Goto(c, "stopped") /\ UNCHANGED <<signalled, strays>>
  <2>1. PICK m : cmd' = [cmd EXCEPT ![c] = m] /\ CmdOK(m) /\ m.step = "stopped"
    <3>1. "stopped" \in Steps /\ "stopped" \notin HasPid
      BY DEF Steps, HasPid
    <3> QED BY <1>2, <1>5, <3>1, GotoMoves
  <2>2. calm => NoneAlive'
    BY <1>1, <1>3, <1>5 DEF NoneAlive, Settled, Alive, isProcessAlive
  <2>3. calm => Stage(m)'
    BY <2>1, <2>2 DEF Stage
  <2> QED BY <1>1, <1>2, <1>5, <2>1, <2>3, CommandMoves DEF DaemonTypes
<1>6. CASE /\ pidfile \in Pid /\ isProcessAlive(pidfile)
           /\ signalled' = signalled \cup {pidfile}
           /\ strays' = strays \cup {p \in {pidfile} : proc[p] = "other"}
           /\ cmd' = [cmd EXCEPT ![c] = [step |-> "dying", op |-> cmd[c].op, pid |-> pidfile]]
  <2>1. PICK m : m = [step |-> "dying", op |-> cmd[c].op, pid |-> pidfile]
    OBVIOUS
  <2>2. cmd' = [cmd EXCEPT ![c] = m]
    BY <1>6, <2>1
  <2>3. cmd[c].op \in Ops
    BY <1>2, IdleFacts DEF CmdOK
  <2>4. CmdOK(m) /\ m.step = "dying" /\ m.pid = pidfile
    BY <2>1, <2>3, <1>6 DEF CmdOK, CmdType, HasPid, Steps
  <2>5. signalled' \subseteq Pid /\ strays' \subseteq Pid
    BY <1>2, <1>6 DEF DaemonTypes
  <2>6. calm => strays' = {} /\ Stage(m)'
    BY <1>1, <1>2, <1>3, <1>6, <2>4 DEF Stage
  <2> QED BY <1>1, <1>2, <2>2, <2>4, <2>5, <2>6, CommandMoves DEF DaemonTypes
<1> QED BY <1>4, <1>5, <1>6 DEF StopDaemon

LEMMA AwaitDeathStep ==
  ASSUME DInv, NEW c \in Shell, AwaitDeath(c)
  PROVE  DInv'
<1>1. /\ cmd[c].step = "dying" /\ Goto(c, "stopped")
      /\ UNCHANGED <<proc, pidfile, signalled, commands, intruded, strays>>
  BY DEF AwaitDeath
<1>2. /\ cmd[c] # Idle /\ CmdOK(cmd[c]) /\ DaemonTypes
      /\ calm => Alone(c) /\ Stage(cmd[c]) /\ strays = {}
  BY <1>1, StageNow DEF Steps, DInv
<1>3. /\ mishaps' \in 0..MaxMishaps /\ calm' \in BOOLEAN
      /\ calm' => calm /\ ~isProcessAlive(cmd[c].pid)
  <2>1. CASE ~isProcessAlive(cmd[c].pid) /\ UNCHANGED <<mishaps, calm>>
    BY <2>1, <1>2 DEF DaemonTypes
  <2>2. CASE Mishap /\ calm' = FALSE
    BY <2>2, MishapCounts
  <2> QED BY <2>1, <2>2, Zenon DEF AwaitDeath
<1>4. PICK m : cmd' = [cmd EXCEPT ![c] = m] /\ CmdOK(m) /\ m.step = "stopped"
  <2>1. "stopped" \in Steps /\ "stopped" \notin HasPid
    BY DEF Steps, HasPid
  <2> QED BY <1>1, <1>2, <2>1, GotoMoves
<1>5. calm' => NoneAlive'
  BY <1>1, <1>2, <1>3 DEF Stage, NoneAlive, Settled, Alive, isProcessAlive
<1>6. calm' => Stage(m)'
  BY <1>4, <1>5 DEF Stage
<1> QED BY <1>1, <1>2, <1>3, <1>4, <1>6, CommandMoves DEF DaemonTypes

LEMMA SpawnStep ==
  ASSUME DInv, NEW c \in Shell, Spawn(c)
  PROVE  DInv'
<1>1. /\ cmd[c].step = "spawn"
      /\ UNCHANGED <<pidfile, signalled, commands, mishaps, calm, intruded, strays>>
  BY DEF Spawn
<1>2. /\ DaemonTypes
      /\ calm => Alone(c) /\ Stage(cmd[c]) /\ strays = {}
  BY <1>1, StageNow DEF Steps, DInv
<1>3. PICK p \in Pid :
        /\ proc' = [proc EXCEPT ![p] = "building"]
        /\ cmd' = [cmd EXCEPT ![c] = [step |-> "open", op |-> "start", pid |-> p]]
  BY DEF Spawn
<1>4. PICK m : m = [step |-> "open", op |-> "start", pid |-> p]
  OBVIOUS
<1>5. CmdOK(m) /\ m.step = "open" /\ m.pid = p
  BY <1>4 DEF CmdOK, CmdType, HasPid, Steps, Ops
<1>6. proc' \in [Pid -> ProcState]
  BY <1>2, <1>3 DEF DaemonTypes, ProcState
<1>7. calm => \A q \in Pid : Alive(q)' => q = p
  BY <1>1, <1>2, <1>3 DEF Stage, NoneAlive, Alive, DaemonTypes
<1>8. calm => Stage(m)'
  BY <1>5, <1>7 DEF Stage
<1>9. cmd' = [cmd EXCEPT ![c] = m]
  BY <1>3, <1>4
<1> QED BY <1>1, <1>2, <1>5, <1>6, <1>8, <1>9, CommandMoves DEF DaemonTypes

LEMMA WriteSteps ==
  ASSUME DInv, NEW c \in Shell, OpenInfo(c) \/ WriteInfo(c)
  PROVE  DInv'
<1>1. /\ cmd[c].step \in {"open", "write"}
      /\ UNCHANGED <<proc, signalled, commands, mishaps, calm, intruded, strays>>
  BY DEF OpenInfo, WriteInfo
<1>2. /\ cmd[c] # Idle /\ CmdOK(cmd[c]) /\ DaemonTypes
      /\ calm => Alone(c) /\ Stage(cmd[c]) /\ strays = {}
  BY <1>1, StageNow DEF Steps, DInv
<1>3. cmd[c].pid \in Pid /\ cmd[c].step \in HasPid /\ {"write", "wait"} \subseteq Steps \cap HasPid
  BY <1>1, <1>2 DEF CmdOK, HasPid, Steps
<1>4. calm => \A q \in Pid : Alive(q)' => q = cmd[c].pid
  BY <1>1, <1>2 DEF Stage, Alive
<1>5. CASE OpenInfo(c)
  <2>1. pidfile' = "torn" /\ Goto(c, "write")
    BY <1>5 DEF OpenInfo
  <2>2. PICK m : cmd' = [cmd EXCEPT ![c] = m] /\ CmdOK(m) /\ m.step = "write"
                 /\ m.pid = cmd[c].pid
    BY <1>2, <1>3, <2>1, GotoMoves
  <2>3. calm => Stage(m)'
    BY <1>4, <2>2 DEF Stage
  <2> QED BY <1>1, <1>2, <2>1, <2>2, <2>3, CommandMoves DEF DaemonTypes
<1>6. CASE WriteInfo(c)
  <2>1. pidfile' = cmd[c].pid /\ Goto(c, "wait")
    BY <1>6 DEF WriteInfo
  <2>2. PICK m : cmd' = [cmd EXCEPT ![c] = m] /\ CmdOK(m) /\ m.step = "wait"
                 /\ m.pid = cmd[c].pid
    BY <1>2, <1>3, <2>1, GotoMoves
  <2>3. calm => Stage(m)'
    BY <1>4, <2>1, <2>2 DEF Stage
  <2> QED BY <1>1, <1>2, <1>3, <2>1, <2>2, <2>3, CommandMoves DEF DaemonTypes
<1> QED BY <1>5, <1>6

LEMMA WaitStep ==
  ASSUME DInv, NEW c \in Shell, WaitForHealthy(c)
  PROVE  DInv'
<1>1. /\ cmd[c].step = "wait" /\ cmd' = [cmd EXCEPT ![c] = Idle]
      /\ UNCHANGED <<proc, pidfile, signalled, commands, intruded, strays>>
  BY DEF WaitForHealthy, End
<1>2. /\ cmd[c] # Idle /\ CmdOK(cmd[c]) /\ DaemonTypes
      /\ calm => Alone(c) /\ Stage(cmd[c]) /\ strays = {}
  BY <1>1, StageNow DEF Steps, DInv
<1>3. /\ mishaps' \in 0..MaxMishaps /\ calm' \in BOOLEAN
      /\ calm' => calm /\ (Healthy \/ ~isProcessAlive(cmd[c].pid))
  <2>1. CASE Healthy /\ UNCHANGED <<mishaps, calm>>
    BY <2>1, <1>2 DEF DaemonTypes
  <2>2. CASE ~isProcessAlive(cmd[c].pid) /\ UNCHANGED <<mishaps, calm>>
    BY <2>2, <1>2 DEF DaemonTypes
  <2>3. CASE Mishap /\ calm' = FALSE
    BY <2>3, MishapCounts
  <2> QED BY <2>1, <2>2, <2>3, Zenon DEF WaitForHealthy
<1>4. calm' => Settled'
  <2> SUFFICES ASSUME calm', NEW p \in Pid, Alive(p)' PROVE p = pidfile' /\ proc'[p] = "serving"
    BY DEF Settled
  <2>1. Alive(p) /\ proc' = proc
    BY <1>1 DEF Alive
  <2>2. p = cmd[c].pid /\ cmd[c].pid = pidfile /\ \A q \in Pid : Alive(q) => q = p
    BY <1>1, <1>2, <1>3, <2>1 DEF Stage
  <2>3. proc[p] = "serving"
    BY <1>3, <2>1, <2>2 DEF Healthy, Alive, isProcessAlive
  <2> QED BY <1>1, <2>1, <2>2, <2>3
<1>5. PICK m : m = Idle
  OBVIOUS
<1>6. calm' => Stage(m)'
  BY <1>4, <1>5, IdleFacts DEF Stage
<1> QED BY <1>1, <1>2, <1>3, <1>5, <1>6, CommandMoves, IdleFacts DEF DaemonTypes

LEMMA InterruptStep ==
  ASSUME DInv, NEW c \in Shell, Interrupt(c)
  PROVE  DInv'
<1>1. /\ cmd' = [cmd EXCEPT ![c] = Idle] /\ ~calm' /\ calm' \in BOOLEAN
      /\ mishaps' \in 0..MaxMishaps /\ DaemonTypes
      /\ UNCHANGED <<proc, pidfile, signalled, commands, intruded, strays>>
  BY MishapCounts DEF Interrupt, End, DInv
<1>2. PICK m : m = Idle
  OBVIOUS
<1> QED BY <1>1, <1>2, CommandMoves, IdleFacts DEF DaemonTypes

\* What is to be shown of a process's step: nobody comes alive but a daemon
\* that is being started, and none but it serves.
LEMMA ProcessMoves ==
  ASSUME DInv, NEW p \in Pid, NEW s \in ProcState, proc' = [proc EXCEPT ![p] = s],
         cmd' = cmd, pidfile' = pidfile, commands' = commands, strays' = strays,
         signalled' \subseteq Pid, mishaps' \in 0..MaxMishaps, calm' \in BOOLEAN,
         intruded' \in BOOLEAN,
         calm' => /\ calm /\ ~intruded'
                  /\ s \in {"building", "built", "serving"} => Alive(p)
                  /\ Settled => Settled'
                  /\ s = "other" => AllIdle
  PROVE  DInv'
<1>1. DaemonTypes'
  BY DEF DInv, DaemonTypes
<1>2. ASSUME calm' PROVE \A q \in Pid : Alive(q)' => Alive(q)
  BY <1>2 DEF DInv, DaemonTypes, Alive
<1>3. ASSUME calm', NEW c \in Shell, cmd[c] # Idle PROVE Stage(cmd[c])'
  <2>1. Stage(cmd[c]) /\ s # "other" /\ cmd'[c] = cmd[c]
    BY <1>3, CalmAlone DEF AllIdle
  <2>2. (Settled => Settled') /\ (NoneAlive => NoneAlive')
    BY <1>2, <1>3 DEF NoneAlive
  <2>3. cmd[c].step = "stop" => \A q \in Pid : q = pidfile' => proc'[q] # "other"
    BY <2>1 DEF Stage, DInv, DaemonTypes
  <2>4. cmd[c].step \in {"open", "write", "wait"} => \A q \in Pid : Alive(q)' => q = cmd[c].pid
    BY <1>2, <1>3, <2>1 DEF Stage
  <2> QED BY <2>1, <2>2, <2>3, <2>4 DEF Stage
<1>4. ASSUME calm' PROVE AllIdle' => Settled'
  BY <1>4 DEF DInv, Orderly, AllIdle
<1>5. ASSUME calm' PROVE ~intruded' /\ strays' = {} /\ \A c, d \in Shell : cmd'[c] # Idle /\ cmd'[d] # Idle => c = d
  BY <1>5 DEF DInv, Orderly
<1>6. ASSUME calm', NEW c \in Shell, cmd'[c] # Idle PROVE Stage(cmd[c])'
  BY <1>3, <1>6
<1> QED BY <1>1, <1>4, <1>5, <1>6 DEF DInv, Orderly

\* In calm times there is at most one daemon.
LEMMA OneAlive ==
  ASSUME DInv, calm, NEW p \in Pid, NEW q \in Pid, Alive(p), Alive(q)
  PROVE  p = q
<1>1. CASE AllIdle
  BY <1>1 DEF DInv, Orderly, Settled
<1>2. CASE ~AllIdle
  <2>1. PICK c \in Shell : cmd[c] # Idle
    BY <1>2 DEF AllIdle
  <2>2. Stage(cmd[c]) /\ cmd[c].step \in Steps
    BY <2>1, CalmAlone, IdleFacts DEF DInv, DaemonTypes
  <2> QED BY <2>2 DEF Stage, Steps, Settled, NoneAlive
<1> QED BY <1>1, <1>2

LEMMA ProcessStep ==
  ASSUME DInv, NEW p \in Pid,
         \/ ServeByHand(p) \/ Build(p) \/ BuildFails(p) \/ ListenAndServe(p)
         \/ Die(p) \/ DaemonCrash(p) \/ Reuse(p)
  PROVE  DInv'
<1>0. DaemonTypes
  BY DEF DInv
<1>1. CASE ServeByHand(p)
  <2>1. "building" \in ProcState /\ mishaps' \in 0..MaxMishaps
    BY <1>1, MishapCounts DEF ServeByHand, ProcState
  <2>2. ~calm' /\ calm' \in BOOLEAN
    BY <1>1 DEF ServeByHand
  <2> QED BY <1>0, <1>1, <2>1, <2>2, ProcessMoves DEF ServeByHand, DaemonTypes
<1>2. CASE Build(p)
  <2>1. "built" \in ProcState /\ Alive(p) /\ ~Settled
    BY <1>2 DEF Build, ProcState, Alive, Settled
  <2>2. calm => ~Healthy /\ ~intruded
    <3>1. ASSUME calm, Healthy PROVE FALSE
      <4>1. PICK q \in Pid : proc[q] = "serving"
        BY <3>1 DEF Healthy
      <4>2. p = q
        BY <3>1, <4>1, <2>1, OneAlive DEF Alive
      <4> QED BY <1>2, <4>1, <4>2 DEF Build
    <3> QED BY <3>1 DEF DInv, Orderly
  <2>3. intruded' \in BOOLEAN /\ (calm => ~intruded')
    BY <1>2, <2>2, Zenon DEF Build
  <2> QED BY <1>0, <1>2, <2>1, <2>3, ProcessMoves DEF Build, DaemonTypes
<1>3. CASE ListenAndServe(p)
  <2>1. PICK s \in {"gone", "serving"} : proc' = [proc EXCEPT ![p] = s]
    BY <1>3 DEF ListenAndServe
  <2>2. s \in ProcState /\ s # "other" /\ Alive(p) /\ ~Settled
    BY <1>3, <2>1 DEF ListenAndServe, ProcState, Alive, Settled
  <2>3. calm => ~intruded
    BY DEF DInv, Orderly
  <2> QED BY <1>0, <1>3, <2>1, <2>2, <2>3, ProcessMoves DEF ListenAndServe, DaemonTypes
<1>4. CASE BuildFails(p) \/ DaemonCrash(p)
  <2>1. /\ proc' = [proc EXCEPT ![p] = "gone"] /\ mishaps' \in 0..MaxMishaps
        /\ UNCHANGED <<pidfile, cmd, signalled, commands, calm, intruded, strays>>
    BY <1>4, MishapCounts DEF BuildFails, DaemonCrash
  <2>2. "gone" \in ProcState /\ (Settled => Settled')
    BY <1>0, <2>1 DEF ProcState, Settled, Alive, DaemonTypes
  <2>3. calm => ~intruded
    BY DEF DInv, Orderly
  <2> QED BY <1>0, <2>1, <2>2, <2>3, ProcessMoves DEF DaemonTypes
<1>5. CASE Die(p)
  <2>1. PICK s : s = IF isProcessAlive(p) THEN "gone" ELSE proc[p]
    OBVIOUS
  <2>2. /\ proc' = [proc EXCEPT ![p] = s] /\ s \in ProcState
        /\ UNCHANGED <<pidfile, cmd, commands, mishaps, calm, intruded, strays>>
        /\ signalled' \subseteq Pid
    BY <1>0, <1>5, <2>1 DEF Die, DaemonTypes, ProcState
  <2>3. s \notin {"building", "built", "serving", "other"} /\ (Settled => Settled')
    BY <1>0, <2>1, <2>2 DEF ProcState, Settled, Alive, DaemonTypes, isProcessAlive
  <2>4. calm => ~intruded
    BY DEF DInv, Orderly
  <2> QED BY <1>0, <2>2, <2>3, <2>4, ProcessMoves DEF DaemonTypes
<1>6. CASE Reuse(p)
  <2>1. /\ proc' = [proc EXCEPT ![p] = "other"] /\ mishaps' \in 0..MaxMishaps /\ AllIdle
        /\ UNCHANGED <<pidfile, cmd, signalled, commands, calm, intruded, strays>>
    BY <1>6, MishapCounts DEF Reuse
  <2>2. "other" \in ProcState /\ (Settled => Settled')
    BY <1>0, <2>1 DEF ProcState, Settled, Alive, DaemonTypes
  <2>3. calm => ~intruded
    BY DEF DInv, Orderly
  <2> QED BY <1>0, <2>1, <2>2, <2>3, ProcessMoves DEF DaemonTypes
<1> QED BY <1>1, <1>2, <1>3, <1>4, <1>5, <1>6

LEMMA DaemonStepKeeps == DInv /\ [Next]_consoleVars => DInv'
<1> SUFFICES ASSUME DInv, [Next]_consoleVars PROVE DInv'
  OBVIOUS
<1>1. CASE DaemonNext
  <2>1. CASE \E p \in Pid : \/ ServeByHand(p) \/ Build(p) \/ BuildFails(p) \/ ListenAndServe(p)
                            \/ Die(p) \/ DaemonCrash(p) \/ Reuse(p)
    BY <2>1, ProcessStep
  <2>2. ASSUME NEW c \in Shell,
               \/ \E op \in Ops : Command(c, op)
               \/ ReadInfo(c) \/ DropInfo(c)
               \/ Health(c, TRUE) \/ Health(c, FALSE)
               \/ RemoveStale(c) \/ StopDaemon(c) \/ AwaitDeath(c) \/ Stopped(c)
               \/ Spawn(c) \/ OpenInfo(c) \/ WriteInfo(c) \/ WaitForHealthy(c) \/ Interrupt(c)
        PROVE  DInv'
    <3>1. Health(c, TRUE) => DInv'
      BY HealthStep, Zenon
    <3>2. Health(c, FALSE) => DInv'
      BY HealthStep, Zenon
    <3> QED BY <2>2, <3>1, <3>2, CommandStep, ReadInfoStep, FileGoes, RemoveStaleStep,
               StopDaemonStep, AwaitDeathStep, SpawnStep, WriteSteps, WaitStep, InterruptStep
  <2> QED BY <1>1, <2>1, <2>2, Zenon DEF DaemonNext
<1>2. CASE UNCHANGED daemonVars
  BY <1>2 DEF daemonVars, DInv, DaemonTypes, Orderly, Settled, Stage, Alive, NoneAlive, AllIdle
<1> QED BY <1>1, <1>2 DEF Next, consoleVars, DaemonStep, SettingsStep, TurnStep, StreamStep,
        HarnessStep

\* The command lines manage one daemon and nothing else: while commands do not
\* overlap, are not interrupted and wait for what they started, the only daemon
\* is the one in state/daemon.json, no daemon runs Recover while another one
\* serves, and SIGTERM goes to daemons only (daemon.go:35-330).
THEOREM OneDaemonHolds == Spec => []OneDaemon
<1>1. DInv => OneDaemon
  <2> SUFFICES ASSUME DInv PROVE OneDaemon
    OBVIOUS
  <2>1. DaemonTypeOK
    BY DEF DInv, DaemonTypes, DaemonTypeOK, CmdOK, CmdType
  <2>2. calm /\ AllIdle => Daemons \subseteq {pidfile}
    BY DEF DInv, Orderly, Settled, Alive, Daemons
  <2>3. calm => ~intruded /\ strays = {}
    BY DEF DInv, Orderly
  <2> QED BY <2>1, <2>2, <2>3, Zenon
      DEF OneDaemon, DaemonTracked, RecoverAlone, OnlyDaemonsStopped
<1> QED BY <1>1, DaemonInitial, DaemonStepKeeps, PTL DEF Spec

-----------------------------------------------------------------------------
(***************************************************************************)
(* ModelConfig: what normalising, the environment and the form make of a   *)
(* configuration                                                           *)
(***************************************************************************)

\* A configuration: its fields are there, its limits are integers.
Cfg(a, k, b, m, t, u) ==
  [provider |-> a, key |-> k, base |-> b, model |-> m, tokens |-> t, temp |-> u]
Table(f) == f = [p \in Profile |-> f[p]]
IsConfig(c) ==
  /\ c = Cfg(c.provider, c.key, c.base, c.model, c.tokens, c.temp)
  /\ Table(c.model) /\ Table(c.tokens) /\ Table(c.temp)
  /\ \A p \in Profile : c.tokens[p] \in Int /\ c.temp[p] \in Int

LEMMA Defaults ==
  \A p \in Profile : /\ TokenDefault[p] \in 1..TokenLimit /\ TempDefault[p] \in 0..TempLimit
                     /\ p # "routing" => TempDefault[p] > 0
                     /\ TokenDefault[p] \in Int /\ TempDefault[p] \in Int
<1>1. TokenDefault["conversation"] = 1600 /\ TokenDefault["routing"] = 220 /\ TokenDefault["skills"] = 1200
  BY DEF TokenDefault
<1>2. TempDefault["conversation"] = 2 /\ TempDefault["routing"] = 0 /\ TempDefault["skills"] = 2
  BY DEF TempDefault
<1> QED BY <1>1, <1>2 DEF Profile, TokenLimit, TempLimit

Keyed(c, k) == [c EXCEPT !.key = k]

LEMMA CfgKeyed ==
  \A a, k, b, m, t, u, x : Keyed(Cfg(a, k, b, m, t, u), x) = Cfg(a, x, b, m, t, u)
BY DEF Cfg, Keyed

LEMMA TableEqual ==
  ASSUME NEW f, NEW g, Table(f), Table(g), \A p \in Profile : f[p] = g[p]
  PROVE  f = g
BY DEF Table

LEMMA ConfigEqual ==
  ASSUME NEW c, NEW d, IsConfig(c), IsConfig(d),
         c.provider = d.provider, c.key = d.key, c.base = d.base,
         \A p \in Profile : c.model[p] = d.model[p] /\ c.tokens[p] = d.tokens[p] /\ c.temp[p] = d.temp[p]
  PROVE  c = d
<1>1. c.model = d.model /\ c.tokens = d.tokens /\ c.temp = d.temp
  BY TableEqual DEF IsConfig
<1> QED BY <1>1, Zenon DEF IsConfig

LEMMA NoneFacts ==
  /\ IsConfig(None) /\ None.provider = "none" /\ None.key = "" /\ None.base = ""
  /\ \A p \in Profile : None.model[p] = "" /\ None.tokens[p] = 0 /\ None.temp[p] = 0
<1>1. PICK m : m = [p \in Profile |-> ""]
  OBVIOUS
<1>2. PICK t : t = [p \in Profile |-> 0]
  OBVIOUS
<1>3. None = Cfg("none", "", "", m, t, t)
  BY <1>1, <1>2, Zenon DEF None, Cfg
<1>4. Table(m) /\ Table(t) /\ \A p \in Profile : m[p] = "" /\ t[p] = 0
  <2>1. \A p \in Profile : m[p] = "" /\ t[p] = 0
    BY <1>1, <1>2
  <2>2. Table(m)
    BY <1>1 DEF Table
  <2>3. Table(t)
    BY <1>2 DEF Table
  <2> QED BY <2>1, <2>2, <2>3
<1>5. None.provider = "none" /\ None.key = "" /\ None.base = "" /\ None.model = m /\ None.tokens = t /\ None.temp = t
  BY <1>3 DEF Cfg
<1>6. None = Cfg(None.provider, None.key, None.base, None.model, None.tokens, None.temp)
  BY <1>3, <1>5, Zenon
<1>7. \A p \in Profile : None.model[p] = "" /\ None.tokens[p] = 0 /\ None.temp[p] = 0
  BY <1>4, <1>5, Zenon
<1>8. \A p \in Profile : None.tokens[p] \in Int /\ None.temp[p] \in Int
  <2>1. 0 \in Int
    OBVIOUS
  <2> QED BY <1>7, <2>1, Zenon
<1> QED BY <1>4, <1>5, <1>6, <1>7, <1>8, Zenon DEF IsConfig

\* What normalizeConfig needs of its argument.
Shaped(c) == \A p \in Profile : c.tokens[p] \in Int /\ c.temp[p] \in Int

\* The limits of a configuration with a provider.
Limits(c) ==
  \A p \in Profile : /\ c.tokens[p] \in 1..TokenLimit /\ c.temp[p] \in 0..TempLimit
                     /\ (p = "routing" => c.temp[p] = 0) /\ (p # "routing" => c.temp[p] > 0)

\* A provider is named.
Provided(c) == c.provider \notin {"", "none"}
BaseFor(p) == IF p \in Hosted THEN DefaultBase[p] ELSE ""
ModelFor(p) == IF p \in Hosted THEN DefaultModel[p] ELSE ""

LEMMA TokensIn ==
  ASSUME NEW v \in Int, NEW f \in 1..TokenLimit
  PROVE  /\ normalizeMaxTokens(v, f) \in 1..TokenLimit /\ normalizeMaxTokens(v, f) \in Int
         /\ v \in 1..TokenLimit => normalizeMaxTokens(v, f) = v
BY DEF normalizeMaxTokens, TokenLimit

LEMMA TempIn ==
  ASSUME NEW v \in Int, NEW f \in 0..TempLimit, f > 0
  PROVE  /\ normalizeTemperature(v, f) \in 1..TempLimit /\ normalizeTemperature(v, f) \in Int
         /\ normalizeTemperature(v, f) > 0 /\ normalizeTemperature(v, f) \in 0..TempLimit
         /\ v \in 1..TempLimit => normalizeTemperature(v, f) = v
BY DEF normalizeTemperature, TempLimit

LEMMA NormalProvider ==
  ASSUME NEW c, Shaped(c), Provided(c), NEW n, n = normalizeConfig(c)
  PROVE  /\ IsConfig(n) /\ Limits(n)
         /\ n.provider = IF c.provider \in Hosted THEN c.provider ELSE Compatible
         /\ n.key = c.key
         /\ n.base = firstNonEmpty(c.base, BaseFor(c.provider))
         /\ \A p \in Profile :
              /\ n.model[p] = firstNonEmpty(c.model[p], firstNonEmpty(c.model["conversation"], ModelFor(c.provider)))
              /\ n.tokens[p] = normalizeMaxTokens(c.tokens[p], TokenDefault[p])
              /\ n.temp[p] = IF p = "routing" THEN 0
                             ELSE normalizeTemperature(c.temp[p], TempDefault[p])
<1>1. PICK v : v = firstNonEmpty(c.model["conversation"], ModelFor(c.provider))
  OBVIOUS
<1>2. PICK b : b = firstNonEmpty(c.base, BaseFor(c.provider))
  OBVIOUS
<1>3. PICK m : m = [p \in Profile |-> firstNonEmpty(c.model[p], v)]
  OBVIOUS
<1>4. PICK t : t = [p \in Profile |-> normalizeMaxTokens(c.tokens[p], TokenDefault[p])]
  OBVIOUS
<1>5. PICK u : u = [p \in Profile |-> IF p = "routing" THEN 0
                        ELSE normalizeTemperature(c.temp[p], TempDefault[p])]
  OBVIOUS
<1>6. PICK a : a = IF c.provider \in Hosted THEN c.provider ELSE Compatible
  OBVIOUS
<1>7. n = Cfg(a, c.key, b, m, t, u)
  BY <1>1, <1>2, <1>3, <1>4, <1>5, <1>6, Zenon DEF normalizeConfig, Cfg, BaseFor, ModelFor, Provided
<1>8. n.provider = a /\ n.key = c.key /\ n.base = b /\ n.model = m /\ n.tokens = t /\ n.temp = u
  BY <1>7 DEF Cfg
<1>9. n = Cfg(n.provider, n.key, n.base, n.model, n.tokens, n.temp)
  BY <1>7, <1>8, Zenon
<1>10. \A p \in Profile : m[p] = firstNonEmpty(c.model[p], v)
  BY <1>3, Zenon
<1>11. \A p \in Profile : t[p] = normalizeMaxTokens(c.tokens[p], TokenDefault[p])
  BY <1>4, Zenon
<1>12. \A p \in Profile : u[p] = IF p = "routing" THEN 0
                        ELSE normalizeTemperature(c.temp[p], TempDefault[p])
  BY <1>5, Zenon
<1>13. Table(m)
  BY <1>3 DEF Table
<1>14. Table(t)
  BY <1>4 DEF Table
<1>15. Table(u)
  BY <1>5 DEF Table
<1>16. ASSUME NEW p \in Profile PROVE t[p] \in Int /\ t[p] \in 1..TokenLimit
  <2>1. normalizeMaxTokens(c.tokens[p], TokenDefault[p]) \in 1..TokenLimit
        /\ normalizeMaxTokens(c.tokens[p], TokenDefault[p]) \in Int
    BY Defaults, TokensIn DEF Shaped
  <2> QED BY <2>1, <1>11, Zenon
<1>17. ASSUME NEW p \in Profile
       PROVE  /\ u[p] \in Int /\ u[p] \in 0..TempLimit
              /\ (p = "routing" => u[p] = 0) /\ (p # "routing" => u[p] > 0)
  <2>1. CASE p = "routing"
    <3>1. 0 \in Int /\ 0 \in 0..TempLimit
      BY DEF TempLimit
    <3>2. u[p] = 0
      BY <2>1, <1>12, Zenon
    <3> QED BY <2>1, <3>1, <3>2, Zenon
  <2>2. CASE p # "routing"
    <3>1. u[p] = normalizeTemperature(c.temp[p], TempDefault[p])
      BY <2>2, <1>12
    <3>2. PICK x : x = normalizeTemperature(c.temp[p], TempDefault[p])
      OBVIOUS
    <3>3. x \in Int /\ x \in 0..TempLimit /\ x > 0
      BY <3>2, <2>2, Defaults, TempIn DEF Shaped
    <3> QED BY <3>1, <3>2, <3>3, <2>2, Zenon
  <2> QED BY <2>1, <2>2
<1>18. IsConfig(n) /\ Limits(n)
  BY <1>8, <1>9, <1>13, <1>14, <1>15, <1>16, <1>17, Zenon DEF IsConfig, Limits
<1> QED BY <1>1, <1>2, <1>6, <1>8, <1>10, <1>11, <1>12, <1>18, Zenon

LEMMA WithKey ==
  ASSUME NEW c, IsConfig(c), NEW k, NEW d, d = Keyed(c, k)
  PROVE  /\ IsConfig(d) /\ d.key = k /\ d.provider = c.provider /\ d.base = c.base
         /\ d.model = c.model /\ d.tokens = c.tokens /\ d.temp = c.temp
<1>1. PICK a, x, b, m, t, u : /\ c = Cfg(a, x, b, m, t, u) /\ a = c.provider /\ x = c.key
                              /\ b = c.base /\ m = c.model /\ t = c.tokens /\ u = c.temp
  BY Zenon DEF IsConfig
<1>2. d = Cfg(a, k, b, m, t, u)
  <2>1. Keyed(Cfg(a, x, b, m, t, u), k) = Cfg(a, k, b, m, t, u)
    BY CfgKeyed
  <2>2. PICK y : y = Cfg(a, x, b, m, t, u)
    OBVIOUS
  <2>3. Keyed(y, k) = Cfg(a, k, b, m, t, u) /\ c = y
    BY <1>1, <2>1, <2>2
  <2> QED BY <2>3
<1>3. d.provider = a /\ d.key = k /\ d.base = b /\ d.model = m /\ d.tokens = t /\ d.temp = u
  BY <1>2 DEF Cfg
<1>4. IsConfig(d)
  BY <1>1, <1>2, <1>3, Zenon DEF IsConfig
<1> QED BY <1>1, <1>3, <1>4, Zenon

LEMMA NormalNone ==
  ASSUME NEW c, ~Provided(c), NEW n, n = normalizeConfig(c)
  PROVE  /\ n = Keyed(None, c.key) /\ IsConfig(n) /\ ~Provided(n)
         /\ n.provider = "none" /\ n.key = c.key /\ n.base = None.base /\ n.model = None.model
         /\ n.tokens = None.tokens /\ n.temp = None.temp
<1>1. n = Keyed(None, c.key)
  BY Zenon DEF normalizeConfig, Provided, Keyed
<1>2. /\ IsConfig(n) /\ n.key = c.key /\ n.provider = None.provider /\ n.base = None.base
      /\ n.model = None.model /\ n.tokens = None.tokens /\ n.temp = None.temp
  <2>1. IsConfig(None)
    BY NoneFacts
  <2> QED BY <1>1, <2>1, WithKey
<1>3. n.provider = "none"
  BY <1>2, NoneFacts, Zenon
<1> QED BY <1>1, <1>2, <1>3, Zenon DEF Provided

LEMMA NormalIsConfig ==
  ASSUME NEW c, Shaped(c), NEW n, n = normalizeConfig(c)
  PROVE  IsConfig(n) /\ n.key = c.key /\ (Provided(n) <=> Provided(c))
<1>1. CASE Provided(c)
  <2>1. /\ IsConfig(n) /\ n.key = c.key
        /\ n.provider = IF c.provider \in Hosted THEN c.provider ELSE Compatible
    BY <1>1, NormalProvider
  <2>2. Compatible \notin {"", "none"}
    BY Zenon DEF Compatible
  <2>3. Provided(n)
    BY <2>1, <2>2, <1>1, Zenon DEF Provided
  <2> QED BY <1>1, <2>1, <2>3
<1>2. CASE ~Provided(c)
  BY <1>2, NormalNone, Zenon
<1> QED BY <1>1, <1>2

LEMMA ConfigShaped ==
  ASSUME NEW c, IsConfig(c)
  PROVE  Shaped(c)
BY Zenon DEF IsConfig, Shaped

\* Normalising again changes nothing.
LEMMA Idempotent ==
  ASSUME NEW c, Shaped(c), NEW n, n = normalizeConfig(c)
  PROVE  normalizeConfig(n) = n
<1>1. PICK m : m = normalizeConfig(n)
  OBVIOUS
<1>2. IsConfig(n) /\ Shaped(n) /\ (Provided(n) <=> Provided(c)) /\ n.key = c.key
  BY NormalIsConfig, ConfigShaped, Zenon
<1>3. IsConfig(m) /\ m.key = n.key
  BY <1>1, <1>2, NormalIsConfig, Zenon
<1>4. CASE ~Provided(c)
  <2>1. n.provider = "none" /\ n.base = None.base /\ n.model = None.model
         /\ n.tokens = None.tokens /\ n.temp = None.temp
    BY <1>4, NormalNone, Zenon
  <2>2. m.provider = "none" /\ m.base = None.base /\ m.model = None.model
         /\ m.tokens = None.tokens /\ m.temp = None.temp
    BY <1>1, <1>2, <1>4, NormalNone, Zenon
  <2> QED BY <1>1, <1>2, <1>3, <2>1, <2>2, ConfigEqual, Zenon
<1>5. CASE Provided(c)
  <2>1. /\ n.provider = IF c.provider \in Hosted THEN c.provider ELSE Compatible
        /\ n.base = firstNonEmpty(c.base, BaseFor(c.provider)) /\ Limits(n)
        /\ \A p \in Profile : n.model[p] = firstNonEmpty(c.model[p], firstNonEmpty(c.model["conversation"], ModelFor(c.provider)))
    BY <1>5, NormalProvider, Zenon
  <2>2. /\ m.provider = IF n.provider \in Hosted THEN n.provider ELSE Compatible
        /\ m.base = firstNonEmpty(n.base, BaseFor(n.provider))
        /\ \A p \in Profile :
              /\ m.model[p] = firstNonEmpty(n.model[p], firstNonEmpty(n.model["conversation"], ModelFor(n.provider)))
              /\ m.tokens[p] = normalizeMaxTokens(n.tokens[p], TokenDefault[p])
              /\ m.temp[p] = IF p = "routing" THEN 0
                             ELSE normalizeTemperature(n.temp[p], TempDefault[p])
    BY <1>1, <1>2, <1>5, NormalProvider, ZenonT(40)
  <2>3. Compatible \notin Hosted
    BY ConfigAssumption, Zenon
  <2>4. m.provider = n.provider /\ BaseFor(n.provider) = BaseFor(c.provider)
                                /\ ModelFor(n.provider) = ModelFor(c.provider)
    BY <2>1, <2>2, <2>3, Zenon DEF BaseFor, ModelFor
  <2>5. m.base = n.base
    BY <2>1, <2>2, <2>4, Zenon DEF firstNonEmpty
  <2>6. ASSUME NEW p \in Profile PROVE m.model[p] = n.model[p]
    <3>1. "conversation" \in Profile
      BY Zenon DEF Profile
    <3> QED BY <2>1, <2>2, <2>4, <3>1, Zenon DEF firstNonEmpty
  <2>7. ASSUME NEW p \in Profile PROVE m.tokens[p] = n.tokens[p]
    <3>1. n.tokens[p] \in Int /\ n.tokens[p] \in 1..TokenLimit
      BY <2>1, <1>2, Zenon DEF Limits, Shaped
    <3> QED BY <2>2, <3>1, Defaults, TokensIn
  <2>8. ASSUME NEW p \in Profile PROVE m.temp[p] = n.temp[p]
    <3>1. CASE p = "routing"
      BY <3>1, <2>1, <2>2, Zenon DEF Limits
    <3>2. CASE p # "routing"
      <4>1. n.temp[p] \in 0..TempLimit /\ n.temp[p] > 0 /\ n.temp[p] \in Int
        BY <2>1, <3>2, <1>2, Zenon DEF Limits, Shaped
      <4>2. n.temp[p] \in 1..TempLimit
        BY <4>1 DEF TempLimit
      <4>3. m.temp[p] = normalizeTemperature(n.temp[p], TempDefault[p])
        BY <2>2, <3>2, Zenon
      <4> QED BY <4>1, <4>2, <4>3, <3>2, Defaults, TempIn
    <3> QED BY <3>1, <3>2
  <2> QED BY <1>1, <1>2, <1>3, <2>4, <2>5, <2>6, <2>7, <2>8, ConfigEqual, Zenon
<1> QED BY <1>4, <1>5

\* Normalising does not look at the key.
LEMMA KeyApart ==
  ASSUME NEW c, IsConfig(c), c = normalizeConfig(c), NEW k, NEW d, d = Keyed(c, k)
  PROVE  normalizeConfig(d) = d
<1>1. PICK m : m = normalizeConfig(d)
  OBVIOUS
<1>2. /\ IsConfig(d) /\ Shaped(d) /\ Shaped(c) /\ d.key = k /\ d.provider = c.provider /\ d.base = c.base
      /\ d.model = c.model /\ d.tokens = c.tokens /\ d.temp = c.temp /\ (Provided(d) <=> Provided(c))
  <2>1. /\ IsConfig(d) /\ d.key = k /\ d.provider = c.provider /\ d.base = c.base
        /\ d.model = c.model /\ d.tokens = c.tokens /\ d.temp = c.temp
    BY WithKey
  <2>2. Shaped(c) /\ Shaped(d)
    BY <2>1, ConfigShaped, Zenon
  <2>3. Provided(d) <=> Provided(c)
    BY <2>1, Zenon DEF Provided
  <2> QED BY <2>1, <2>2, <2>3
<1>3. IsConfig(m) /\ m.key = d.key
  BY <1>1, <1>2, NormalIsConfig, Zenon
<1>4. CASE ~Provided(c)
  <2>1. /\ c.provider = "none" /\ c.base = None.base /\ c.model = None.model
        /\ c.tokens = None.tokens /\ c.temp = None.temp
    BY <1>4, NormalNone, Zenon
  <2>2. /\ m.provider = "none" /\ m.base = None.base /\ m.model = None.model
        /\ m.tokens = None.tokens /\ m.temp = None.temp
    BY <1>1, <1>2, <1>4, NormalNone, Zenon
  <2> QED BY <1>1, <1>2, <1>3, <2>1, <2>2, ConfigEqual, Zenon
<1>5. CASE Provided(c)
  <2>1. /\ c.provider = IF c.provider \in Hosted THEN c.provider ELSE Compatible
        /\ c.base = firstNonEmpty(c.base, BaseFor(c.provider))
        /\ \A p \in Profile :
              /\ c.model[p] = firstNonEmpty(c.model[p], firstNonEmpty(c.model["conversation"], ModelFor(c.provider)))
              /\ c.tokens[p] = normalizeMaxTokens(c.tokens[p], TokenDefault[p])
              /\ c.temp[p] = IF p = "routing" THEN 0
                             ELSE normalizeTemperature(c.temp[p], TempDefault[p])
    BY <1>2, <1>5, NormalProvider, Zenon
  <2>2. /\ m.provider = IF d.provider \in Hosted THEN d.provider ELSE Compatible
        /\ m.base = firstNonEmpty(d.base, BaseFor(d.provider))
        /\ \A p \in Profile :
              /\ m.model[p] = firstNonEmpty(d.model[p], firstNonEmpty(d.model["conversation"], ModelFor(d.provider)))
              /\ m.tokens[p] = normalizeMaxTokens(d.tokens[p], TokenDefault[p])
              /\ m.temp[p] = IF p = "routing" THEN 0
                             ELSE normalizeTemperature(d.temp[p], TempDefault[p])
    BY <1>1, <1>2, <1>5, NormalProvider, ZenonT(40)
  <2>3. m.provider = d.provider /\ m.base = d.base
    BY <2>1, <2>2, <1>2, Zenon
  <2>4. ASSUME NEW p \in Profile
        PROVE  m.model[p] = d.model[p] /\ m.tokens[p] = d.tokens[p] /\ m.temp[p] = d.temp[p]
    <3>1. m.model[p] = d.model[p]
      BY <2>1, <2>2, <1>2, ZenonT(40)
    <3>2. m.tokens[p] = d.tokens[p]
      BY <2>1, <2>2, <1>2, ZenonT(40)
    <3>3. m.temp[p] = d.temp[p]
      BY <2>1, <2>2, <1>2, ZenonT(40)
    <3> QED BY <3>1, <3>2, <3>3
  <2> QED BY <1>1, <1>2, <1>3, <2>3, <2>4, ConfigEqual, Zenon
<1> QED BY <1>4, <1>5

Merged(c, m, t, u) == [c EXCEPT !.model = m, !.tokens = t, !.temp = u]
Placed(c, a, b, k) == [c EXCEPT !.provider = a, !.base = b, !.key = k]
Addressed(c, b, k) == [c EXCEPT !.base = b, !.key = k]
Named(c, m) == [c EXCEPT !.model = m]
Tokened(c, t) == [c EXCEPT !.tokens = t]
Temped(c, u) == [c EXCEPT !.temp = u]
Based(c, b) == [c EXCEPT !.base = b]
From(c, a) == [c EXCEPT !.provider = a]

\* Several fields are changed one after the other.
LEMMA OneByOne ==
  /\ \A c, x, y, z : Merged(c, x, y, z) = Temped(Tokened(Named(c, x), y), z)
  /\ \A c, x, y, z : Placed(c, x, y, z) = Keyed(Based(From(c, x), y), z)
  /\ \A c, x, y : Addressed(c, x, y) = Keyed(Based(c, x), y)
<1>1. \A c, x, y, z : Merged(c, x, y, z) = Temped(Tokened(Named(c, x), y), z)
  BY DEF Merged, Temped, Tokened, Named
<1>2. \A c, x, y, z : Placed(c, x, y, z) = Keyed(Based(From(c, x), y), z)
  BY DEF Placed, Keyed, Based, From
<1>3. \A c, x, y : Addressed(c, x, y) = Keyed(Based(c, x), y)
  BY DEF Addressed, Keyed, Based
<1> QED BY <1>1, <1>2, <1>3, Zenon

LEMMA CfgChanges ==
  \A a, k, b, m, t, u, x :
    /\ Named(Cfg(a, k, b, m, t, u), x) = Cfg(a, k, b, x, t, u)
    /\ Tokened(Cfg(a, k, b, m, t, u), x) = Cfg(a, k, b, m, x, u)
    /\ Temped(Cfg(a, k, b, m, t, u), x) = Cfg(a, k, b, m, t, x)
    /\ Based(Cfg(a, k, b, m, t, u), x) = Cfg(a, k, x, m, t, u)
    /\ From(Cfg(a, k, b, m, t, u), x) = Cfg(x, k, b, m, t, u)
<1> TAKE a, k, b, m, t, u, x
<1>1. Named(Cfg(a, k, b, m, t, u), x) = Cfg(a, k, b, x, t, u)
  BY DEF Cfg, Named
<1>2. Tokened(Cfg(a, k, b, m, t, u), x) = Cfg(a, k, b, m, x, u)
  BY DEF Cfg, Tokened
<1>3. Temped(Cfg(a, k, b, m, t, u), x) = Cfg(a, k, b, m, t, x)
  BY DEF Cfg, Temped
<1>4. Based(Cfg(a, k, b, m, t, u), x) = Cfg(a, k, x, m, t, u)
  BY DEF Cfg, Based
<1>5. From(Cfg(a, k, b, m, t, u), x) = Cfg(x, k, b, m, t, u)
  BY DEF Cfg, From
<1> QED BY <1>1, <1>2, <1>3, <1>4, <1>5

LEMMA ConfigChanges ==
  ASSUME NEW c, IsConfig(c)
  PROVE  /\ \A x, y, z : Merged(c, x, y, z) = Cfg(c.provider, c.key, c.base, x, y, z)
         /\ \A x, y, z : Placed(c, x, y, z) = Cfg(x, z, y, c.model, c.tokens, c.temp)
         /\ \A x, y : Addressed(c, x, y) = Cfg(c.provider, y, x, c.model, c.tokens, c.temp)
         /\ \A x : Named(c, x) = Cfg(c.provider, c.key, c.base, x, c.tokens, c.temp)
<1>1. PICK a, k, b, m, t, u : a = c.provider /\ k = c.key /\ b = c.base /\ m = c.model /\ t = c.tokens /\ u = c.temp
  OBVIOUS
<1>2. PICK y : y = Cfg(a, k, b, m, t, u)
  OBVIOUS
<1>3. c = y
  BY <1>1, <1>2, Zenon DEF IsConfig
<1>4. /\ \A x, v, z : Merged(y, x, v, z) = Cfg(a, k, b, x, v, z)
      /\ \A x, v, z : Placed(y, x, v, z) = Cfg(x, z, v, m, t, u)
      /\ \A x, v : Addressed(y, x, v) = Cfg(a, v, x, m, t, u)
      /\ \A x : Named(y, x) = Cfg(a, k, b, x, t, u)
  BY <1>2, CfgChanges, CfgKeyed, OneByOne
<1>5. /\ \A x, v, z : Merged(c, x, v, z) = Cfg(a, k, b, x, v, z)
      /\ \A x, v, z : Placed(c, x, v, z) = Cfg(x, z, v, m, t, u)
      /\ \A x, v : Addressed(c, x, v) = Cfg(a, v, x, m, t, u)
      /\ \A x : Named(c, x) = Cfg(a, k, b, x, t, u)
  BY <1>3, <1>4
<1> QED BY <1>1, <1>5

LEMMA CfgIsConfig ==
  ASSUME NEW a, NEW k, NEW b, NEW m, NEW t, NEW u, Table(m), Table(t), Table(u),
         \A p \in Profile : t[p] \in Int /\ u[p] \in Int,
         NEW c, c = Cfg(a, k, b, m, t, u)
  PROVE  /\ IsConfig(c) /\ c.provider = a /\ c.key = k /\ c.base = b /\ c.model = m
         /\ c.tokens = t /\ c.temp = u
<1>1. c.provider = a /\ c.key = k /\ c.base = b /\ c.model = m /\ c.tokens = t /\ c.temp = u
  BY DEF Cfg
<1>2. c = Cfg(c.provider, c.key, c.base, c.model, c.tokens, c.temp)
  BY <1>1, Zenon
<1> QED BY <1>1, <1>2, Zenon DEF IsConfig

LEMMA EnvConfig ==
  ASSUME NEW e, NEW c, c = configFromEnv(e)
  PROVE  /\ IsConfig(c)
         /\ e.provider \notin Providers => c = None
<1>1. CASE e.provider \notin Providers
  <2>1. c = None
    BY <1>1, Zenon DEF configFromEnv
  <2> QED BY <2>1, NoneFacts, Zenon
<1>2. CASE e.provider \in Providers
  <2>1. PICK a, k, b, v : /\ a = e.provider /\ k = e.key[a]
             /\ v = firstNonEmpty(e.name, IF a \in Hosted THEN DefaultModel[a] ELSE "")
             /\ b = firstNonEmpty(e.base[a], IF a \in Hosted THEN DefaultBase[a] ELSE "")
    OBVIOUS
  <2>2. PICK m : m = [q \in Profile |-> v]
    OBVIOUS
  <2>3. PICK x : x = [provider |-> a, key |-> k, base |-> b, model |-> m, tokens |-> TokenDefault,
                      temp |-> TempDefault]
    OBVIOUS
  <2>4. c = normalizeConfig(x)
    BY <1>2, <2>1, <2>2, <2>3, Zenon DEF configFromEnv
  <2>5. x.tokens = TokenDefault /\ x.temp = TempDefault
    BY <2>3
  <2>6. Shaped(x)
    <3>1. ASSUME NEW p \in Profile PROVE TokenDefault[p] \in Int /\ TempDefault[p] \in Int
      BY Defaults, Zenon
    <3> QED BY <2>5, <3>1, Zenon DEF Shaped
  <2> QED BY <1>2, <2>4, <2>6, NormalIsConfig, Zenon
<1> QED BY <1>1, <1>2, Zenon

LEMMA MergeIsConfig ==
  ASSUME NEW c, IsConfig(c), NEW o, IsConfig(o), NEW d, d = mergeProfileConfig(c, o)
  PROVE  IsConfig(d)
<1>1. PICK m : m = [p \in Profile |-> firstNonEmpty(o.model[p], c.model[p])]
  OBVIOUS
<1>2. PICK t : t = [p \in Profile |-> IF o.tokens[p] > 0 THEN o.tokens[p] ELSE c.tokens[p]]
  OBVIOUS
<1>3. PICK u : u = [p \in Profile |-> IF o.temp[p] > 0 THEN o.temp[p] ELSE c.temp[p]]
  OBVIOUS
<1>4. d = Merged(c, m, t, u)
  BY <1>1, <1>2, <1>3, Zenon DEF mergeProfileConfig, Merged
<1>5. d = Cfg(c.provider, c.key, c.base, m, t, u)
  BY <1>4, ConfigChanges
<1>6. Table(m)
  BY <1>1 DEF Table
<1>7. Table(t)
  BY <1>2 DEF Table
<1>8. Table(u)
  BY <1>3 DEF Table
<1>9. \A p \in Profile : t[p] \in Int
  BY <1>2 DEF IsConfig
<1>10. \A p \in Profile : u[p] \in Int
  BY <1>3 DEF IsConfig
<1> QED BY <1>5, <1>6, <1>7, <1>8, <1>9, <1>10, CfgIsConfig

LEMMA ChangesAreConfigs ==
  ASSUME NEW c, IsConfig(c)
  PROVE  /\ \A x, y, z : IsConfig(Placed(c, x, y, z))
         /\ \A x, y : IsConfig(Addressed(c, x, y))
         /\ \A x : Table(x) => IsConfig(Named(c, x))
<1>1. /\ Table(c.model) /\ Table(c.tokens) /\ Table(c.temp)
      /\ \A p \in Profile : c.tokens[p] \in Int /\ c.temp[p] \in Int
  BY Zenon DEF IsConfig
<1> QED BY <1>1, ConfigChanges, CfgIsConfig

\* What the environment is laid over is in normal form afterwards.
LEMMA OverlayNormal ==
  ASSUME NEW c, IsConfig(c), NEW e, NEW d, d = applyModelEnvOverlay(c, e)
  PROVE  IsConfig(d) /\ d = normalizeConfig(d)
<1>1. PICK n, over : n = normalizeConfig(c) /\ over = configFromEnv(e)
  OBVIOUS
<1>2. IsConfig(n) /\ IsConfig(over)
  BY <1>1, ConfigShaped, NormalIsConfig, EnvConfig, Zenon
<1>3. PICK g : g = mergeProfileConfig(n, over)
  OBVIOUS
<1>4. PICK c1 : c1 = overlayProvider(n, over)
  OBVIOUS
<1>5. IsConfig(c1)
  <2>1. IsConfig(g)
    BY <1>2, <1>3, MergeIsConfig
  <2>2. PICK x, y, z : /\ x = over.provider /\ y = firstNonEmpty(over.base, n.base)
                       /\ z = firstNonEmpty(over.key, n.key)
    OBVIOUS
  <2>3. c1 = n \/ c1 = Placed(g, x, y, z)
    BY <1>3, <1>4, <2>2, Zenon DEF overlayProvider, Placed
  <2> QED BY <1>2, <2>1, <2>3, ChangesAreConfigs
<1>6. PICK c2 : c2 = overlayAddress(c1, e)
  OBVIOUS
<1>7. IsConfig(c2)
  <2>1. PICK x, y : /\ x = firstNonEmpty(e.base[c1.provider], c1.base)
                    /\ y = firstNonEmpty(e.key[c1.provider], c1.key)
    OBVIOUS
  <2>2. c2 = c1 \/ c2 = Addressed(c1, x, y)
    BY <1>6, <2>1, Zenon DEF overlayAddress, Addressed
  <2> QED BY <1>5, <2>2, ChangesAreConfigs
<1>8. PICK y : y = overlayName(c2, e)
  OBVIOUS
<1>9. IsConfig(y)
  <2>1. PICK m : m = [p \in Profile |-> e.name]
    OBVIOUS
  <2>2. y = c2 \/ y = Named(c2, m)
    BY <1>8, <2>1, Zenon DEF overlayName, Named
  <2>3. Table(m)
    BY <2>1 DEF Table
  <2> QED BY <1>7, <2>2, <2>3, ChangesAreConfigs
<1>10. d = normalizeConfig(y)
  BY <1>1, <1>4, <1>6, <1>8, Zenon DEF applyModelEnvOverlay
<1> QED BY <1>9, <1>10, ConfigShaped, NormalIsConfig, Idempotent, Zenon

\* An environment that says nothing leaves a configuration in normal form alone.
LEMMA OverlaySilent ==
  ASSUME NEW c, IsConfig(c), c = normalizeConfig(c), NEW e, Silent(e)
  PROVE  applyModelEnvOverlay(c, e) = c
<1>1. PICK n, over : n = normalizeConfig(c) /\ over = configFromEnv(e)
  OBVIOUS
<1>2. over.provider = "none"
  BY <1>1, EnvConfig, NoneFacts, Zenon DEF Silent
<1>3. PICK b, k : b = firstNonEmpty(e.base[c.provider], c.base) /\ k = firstNonEmpty(e.key[c.provider], c.key)
  OBVIOUS
<1>4. c.provider \in Providers => Addressed(c, b, k) = c
  <2> SUFFICES ASSUME c.provider \in Providers PROVE Addressed(c, b, k) = c
    OBVIOUS
  <2>1. b = c.base /\ k = c.key
    BY <1>3, Zenon DEF Silent, firstNonEmpty
  <2>2. Addressed(c, b, k) = Cfg(c.provider, k, b, c.model, c.tokens, c.temp)
    BY ConfigChanges
  <2>3. c = Cfg(c.provider, c.key, c.base, c.model, c.tokens, c.temp)
    BY Zenon DEF IsConfig
  <2> QED BY <2>1, <2>2, <2>3, Zenon
<1>5. overlayProvider(c, over) = c /\ overlayAddress(c, e) = c
  BY <1>2, <1>3, <1>4, Zenon DEF overlayProvider, overlayAddress, Addressed
<1>6. overlayName(c, e) = c
  BY Zenon DEF Silent, overlayName
<1> QED BY <1>1, <1>5, <1>6, Zenon DEF applyModelEnvOverlay

LEMMA FormShaped ==
  ASSUME NEW f \in Forms, NEW c, IsConfig(c), NEW x, x = modelConfigFromForm(f, c)
  PROVE  Shaped(x)
<1>1. CASE f.provider \in {"", "none"}
  <2>1. x = None
    BY <1>1, Zenon DEF modelConfigFromForm
  <2> QED BY <2>1, NoneFacts, ConfigShaped, Zenon
<1>2. CASE f.provider \notin {"", "none"}
  <2>1. PICK t : t = [p \in Profile |-> IF c.tokens[p] <= 0 THEN TokenDefault[p] ELSE c.tokens[p]]
    OBVIOUS
  <2>2. PICK u : u = [p \in Profile |-> IF c.temp[p] = 0 THEN TempDefault[p] ELSE c.temp[p]]
    OBVIOUS
  <2>3. PICK d : d = defaultModelConfig(c)
    OBVIOUS
  <2>4. d.tokens = t /\ d.temp = u
    <3>1. d = [c EXCEPT !.tokens = t, !.temp = u]
      BY <2>1, <2>2, <2>3, Zenon DEF defaultModelConfig
    <3>2. c = Cfg(c.provider, c.key, c.base, c.model, c.tokens, c.temp)
      BY Zenon DEF IsConfig
    <3>3. DOMAIN c = {"provider", "key", "base", "model", "tokens", "temp"}
      BY <3>2 DEF Cfg
    <3> QED BY <3>1, <3>3
  <2>5. \A p \in Profile : t[p] \in Int
    BY <2>1, Defaults DEF IsConfig
  <2>6. \A p \in Profile : u[p] \in Int
    BY <2>2, Defaults DEF IsConfig
  <2>7. PICK tt : tt = [p \in Profile |-> Typed(f.tokens, p, d.tokens)]
    OBVIOUS
  <2>8. PICK uu : uu = [p \in Profile |-> IF p = "routing" THEN d.temp[p] ELSE Typed(f.temp, p, d.temp)]
    OBVIOUS
  <2>9. x.tokens = tt /\ x.temp = uu
    <3>1. PICK k : k = firstNonEmpty(f.key, c.key)
      OBVIOUS
    <3>2. x = [provider |-> f.provider, base |-> f.base, key |-> k, model |-> f.model,
               tokens |-> tt, temp |-> uu]
      BY <1>2, <2>3, <2>7, <2>8, <3>1, Zenon DEF modelConfigFromForm
    <3> HIDE <1>2
    <3> QED BY <3>2
  <2>10. ASSUME NEW p \in Profile PROVE tt[p] \in Int /\ uu[p] \in Int
    <3>1. /\ f.tokens[p] \in Int \cup {NoValue} /\ f.temp[p] \in Int \cup {NoValue}
          /\ d.tokens[p] \in Int /\ d.temp[p] \in Int
      BY <2>4, <2>5, <2>6, SettingsAssumption, Zenon
    <3>2. Typed(f.tokens, p, d.tokens) \in Int /\ Typed(f.temp, p, d.temp) \in Int
      BY <3>1, Zenon DEF Typed
    <3>3. tt[p] = Typed(f.tokens, p, d.tokens)
      BY <2>7, Zenon
    <3>4. uu[p] = IF p = "routing" THEN d.temp[p] ELSE Typed(f.temp, p, d.temp)
      BY <2>8, Zenon
    <3> QED BY <3>1, <3>2, <3>3, <3>4, Zenon
  <2> QED BY <2>9, <2>10, Zenon DEF Shaped
<1> QED BY <1>1, <1>2, Zenon

\* What a request promises.
Within(r) ==
  /\ r.model # "" /\ r.base # "" /\ r.key # ""
  /\ r.tokens \in 1..r.limit /\ r.limit <= TokenLimit
  /\ r.temp \in 0..TempLimit

LEMMA RequestWithin ==
  ASSUME NEW c, IsConfig(c), validateConfig(c), NEW q \in Asked
  PROVE  Within(resolveRequest(c, q))
<1>1. PICK n, p : n = normalizeConfig(c) /\ p = profileOf(q.profile)
  OBVIOUS
<1>2. p \in Profile
  BY <1>1, Zenon DEF profileOf, Profile
<1>3. n.provider # "none" /\ n.key # "" /\ n.base # "" /\ n.model[p] # ""
  BY <1>1, <1>2, Zenon DEF validateConfig
<1>4. Provided(c) /\ Shaped(c)
  BY <1>1, <1>3, NormalNone, ConfigShaped, Zenon
<1>5. PICK l, h : l = n.tokens[p] /\ h = n.temp[p]
  OBVIOUS
<1>6. l \in 1..TokenLimit /\ h \in 0..TempLimit
  <2>1. Limits(n)
    BY <1>1, <1>4, NormalProvider, Zenon
  <2> QED BY <2>1, <1>2, <1>5, Zenon DEF Limits
<1>7. PICK a, b : a = q.tokens /\ b = q.temp
  OBVIOUS
<1>8. a \in Int /\ b \in 0..TempLimit
  BY <1>7, SettingsAssumption
<1>9. PICK tk, tm : /\ tk = IF l > 0 /\ (a <= 0 \/ a > l) THEN l ELSE a
                    /\ tm = applyTemperature(b, h)
  OBVIOUS
<1>10. resolveRequest(c, q) = [model |-> n.model[p], base |-> n.base, key |-> n.key, limit |-> l,
                               tokens |-> tk, temp |-> tm]
  BY <1>1, <1>5, <1>7, <1>9, Zenon DEF resolveRequest
<1>11. tk \in 1..l /\ l <= TokenLimit /\ tm \in 0..TempLimit
  <2> HIDE <1>3
  <2>1. tk \in 1..l /\ l <= TokenLimit
    BY <1>6, <1>8, <1>9 DEF TokenLimit
  <2>2. tm \in 0..TempLimit
    BY <1>6, <1>8, <1>9 DEF applyTemperature, TempLimit
  <2> QED BY <2>1, <2>2
<1>12. PICK r : r = resolveRequest(c, q)
  OBVIOUS
<1>13. r.model = n.model[p] /\ r.base = n.base /\ r.key = n.key /\ r.limit = l /\ r.tokens = tk /\ r.temp = tm
  BY <1>10, <1>12
<1>14. r.model # "" /\ r.base # "" /\ r.key # ""
  BY <1>3, <1>13, Zenon
<1>15. r.tokens \in 1..r.limit /\ r.limit <= TokenLimit /\ r.temp \in 0..TempLimit
  BY <1>11, <1>13, Zenon
<1> QED BY <1>12, <1>14, <1>15, Zenon DEF Within

-----------------------------------------------------------------------------
(***************************************************************************)
(* ModelSettings                                                           *)
(***************************************************************************)

GoodConfig(c) == IsConfig(c) /\ Normal(c)
GoodProfiles(f) == \A n \in DOMAIN f : GoodConfig(f[n]) /\ validateConfig(f[n])
KeyHidden(c) == c.key # "" => secrets

\* The call of a tab, by the step it has come to.
CallOK(m) ==
  \/ m = NoCall
  \/ m = [at |-> "write", raced |-> m.raced, cfg |-> m.cfg] /\ GoodConfig(m.cfg)
  \/ m = [at |-> "set", cfg |-> m.cfg] /\ GoodConfig(m.cfg)
  \/ m = [at |-> "persist"]
  \/ m = [at |-> "probe", cfg |-> m.cfg]
  \/ m = [at |-> "record", raced |-> m.raced, test |-> m.test]
  \/ m = [at |-> "request", cfg |-> m.cfg, req |-> m.req] /\ Within(m.req)

ConfigFile(f) ==
  f \in {Absent, Cut} \/ \E v : f = Has(v) /\ GoodConfig(v) /\ KeyHidden(v)
ProfileFile(f) == f \in {Absent, Cut} \/ \E v : f = Has(v) /\ GoodProfiles(v)

SettingsTypes ==
  /\ serving \in BOOLEAN /\ secrets \in BOOLEAN /\ mixed \in BOOLEAN /\ env \in Envs
  /\ GoodConfig(cfg) /\ GoodProfiles(profiles)
  /\ ConfigFile(cfile) /\ ProfileFile(pfile)
  /\ call = [t \in Tab |-> call[t]]
  /\ \A t \in Tab : CallOK(call[t])
  /\ ~serving => \A t \in Tab : call[t] = NoCall

\* The configuration as a file may hold it.
Hidden(c) == [c EXCEPT !.key = IF secrets THEN @ ELSE ""]

\* A start would bring configuration c back.
Brings(c) == Silent(env) => cfile.is = "ok" /\ Loaded(cfile, env) = Hidden(c)

Nothing == [n \in {} |-> None]

\* The files hold what is in force, or call m is about to make it so.
InStep(m) ==
  /\ m.at \in {"write", "record"} => ~m.raced
  /\ m.at # "set" => Brings(cfg)
  /\ m.at = "set" => Brings(m.cfg)
  /\ m.at # "persist" => Stored(pfile, Nothing) = profiles
  /\ m.at # "record" => Stored(tfile, Untested) = test
  /\ m.at = "record" => m.test = test

\* No tab but t has a call under way.
Only(t) == \A u \in Tab : u # t => call[u] = NoCall

\* As long as calls do not overlap and writes succeed, one call is under way
\* at most, and the files are in step with it.
Synced ==
  serving /\ ~mixed =>
    /\ \A t, u \in Tab : call[t] # NoCall /\ call[u] # NoCall => t = u
    /\ \A t \in Tab : Only(t) => InStep(call[t])
    /\ (\A t \in Tab : call[t] = NoCall) => InStep(NoCall)

SInv == SettingsTypes /\ Synced

LEMMA NoCallAt == NoCall.at = "none"
BY DEF NoCall

LEMMA CallFacts ==
  ASSUME NEW m, CallOK(m)
  PROVE  /\ m.at \in {"none", "write", "set", "persist", "probe", "record", "request"}
         /\ m.at = "none" => m = NoCall
         /\ m.at \in {"write", "set"} => GoodConfig(m.cfg)
         /\ m.at = "request" => Within(m.req)
         /\ m.at = "write" => m = [at |-> "write", raced |-> m.raced, cfg |-> m.cfg]
         /\ m.at = "record" => m = [at |-> "record", raced |-> m.raced, test |-> m.test]
<1>1. CASE m = NoCall
  BY <1>1, NoCallAt
<1>2. CASE m = [at |-> "write", raced |-> m.raced, cfg |-> m.cfg] /\ GoodConfig(m.cfg)
  <2>1. m.at = "write"
    BY <1>2
  <2> QED BY <1>2, <2>1
<1>3. CASE m = [at |-> "set", cfg |-> m.cfg] /\ GoodConfig(m.cfg)
  <2>1. m.at = "set"
    BY <1>3
  <2> QED BY <1>3, <2>1
<1>4. CASE m = [at |-> "persist"]
  BY <1>4
<1>5. CASE m = [at |-> "probe", cfg |-> m.cfg]
  <2>1. m.at = "probe"
    BY <1>5
  <2> QED BY <2>1
<1>6. CASE m = [at |-> "record", raced |-> m.raced, test |-> m.test]
  <2>1. m.at = "record"
    BY <1>6
  <2> QED BY <1>6, <2>1
<1>7. CASE m = [at |-> "request", cfg |-> m.cfg, req |-> m.req] /\ Within(m.req)
  <2>1. m.at = "request"
    BY <1>7
  <2> QED BY <1>7, <2>1
<1> QED BY <1>1, <1>2, <1>3, <1>4, <1>5, <1>6, <1>7 DEF CallOK

\* What is to be shown of a call's step.
LEMMA CallMoves ==
  ASSUME SInv, NEW t \in Tab, serving, UNCHANGED <<serving, secrets, env>>, mixed' \in BOOLEAN,
         GoodConfig(cfg'), GoodProfiles(profiles'), ConfigFile(cfile)', ProfileFile(pfile)',
         call' = [u \in Tab |-> call'[u]], \A u \in Tab : CallOK(call'[u]),
         ~mixed' => (\A u \in Tab : u # t => call'[u] = NoCall) /\ InStep(call[t])'
  PROVE  SInv'
<1>1. SettingsTypes'
  BY DEF SInv, SettingsTypes
<1>2. ASSUME ~mixed' PROVE \A u, v \in Tab : call'[u] # NoCall /\ call'[v] # NoCall => u = v
  BY <1>2
<1>3. ASSUME ~mixed', NEW u \in Tab, Only(u)' PROVE InStep(call[u])'
  <2>1. CASE u = t
    BY <1>3, <2>1
  <2>2. CASE u # t
    <3>1. call'[t] = call'[u]
      BY <1>3, <2>2 DEF Only
    <3> QED BY <1>3, <3>1 DEF InStep
  <2> QED BY <2>1, <2>2
<1>4. ASSUME ~mixed', \A u \in Tab : call'[u] = NoCall PROVE InStep(NoCall)'
  <2>1. call'[t] = NoCall
    BY <1>4
  <2> QED BY <1>4, <2>1 DEF InStep
<1> QED BY <1>1, <1>2, <1>3, <1>4 DEF SInv, Synced

\* What a call finds, when calls have not overlapped.
LEMMA CallNow ==
  ASSUME SInv, NEW t \in Tab, serving, ~mixed, call[t] # NoCall
  PROVE  Only(t) /\ InStep(call[t])
BY DEF SInv, Synced, Only

LEMMA CallServes ==
  ASSUME SInv, NEW t \in Tab, call[t].at # "none"
  PROVE  serving /\ call[t] # NoCall
BY NoCallAt DEF SInv, SettingsTypes

LEMMA NormalGood ==
  ASSUME NEW c, Shaped(c)
  PROVE  GoodConfig(normalizeConfig(c))
<1>1. PICK n : n = normalizeConfig(c)
  OBVIOUS
<1>2. IsConfig(n) /\ normalizeConfig(n) = n
  BY <1>1, NormalIsConfig, Idempotent
<1> QED BY <1>1, <1>2 DEF GoodConfig, Normal

LEMMA NoneGood == GoodConfig(None)
<1>1. PICK n : n = normalizeConfig(None)
  OBVIOUS
<1>2. ~Provided(None)
  BY NoneFacts, Zenon DEF Provided
<1>3. /\ IsConfig(n) /\ n.provider = "none" /\ n.key = None.key /\ n.base = None.base
      /\ n.model = None.model /\ n.tokens = None.tokens /\ n.temp = None.temp
  BY <1>1, <1>2, NormalNone, Zenon
<1>4. n = None
  BY <1>3, NoneFacts, ConfigEqual, Zenon
<1> QED BY <1>1, <1>4, NoneFacts, Zenon DEF GoodConfig, Normal

\* What is written is what is in force, without the key unless the file may hold it.
LEMMA DiskGood ==
  ASSUME NEW c, GoodConfig(c), NEW d, d = diskConfig(c)
  PROVE  d = Hidden(c) /\ GoodConfig(d) /\ KeyHidden(d)
<1>1. IsConfig(c) /\ c = normalizeConfig(c)
  BY DEF GoodConfig, Normal
<1>2. CASE secrets
  <2>1. d = c
    BY <1>1, <1>2, Zenon DEF diskConfig
  <2>2. PICK h : h = Keyed(c, c.key)
    OBVIOUS
  <2>3. /\ IsConfig(h) /\ h.key = c.key /\ h.provider = c.provider /\ h.base = c.base
        /\ h.model = c.model /\ h.tokens = c.tokens /\ h.temp = c.temp
    BY <1>1, <2>2, WithKey
  <2>4. h = c
    BY <1>1, <2>3, ConfigEqual, Zenon
  <2>5. Hidden(c) = h
    BY <1>2, <2>2, Zenon DEF Hidden, Keyed
  <2> QED BY <2>1, <2>4, <2>5, <1>2, Zenon DEF KeyHidden
<1>3. CASE ~secrets
  <2>0. PICK k : k = ""
    OBVIOUS
  <2>1. PICK h : h = Keyed(c, k)
    OBVIOUS
  <2>2. d = normalizeConfig(h)
    BY <1>3, <2>0, <2>1, Zenon DEF diskConfig, Keyed
  <2>3. IsConfig(h) /\ h.key = k /\ normalizeConfig(h) = h
    BY <1>1, <2>1, WithKey, KeyApart
  <2>4. Hidden(c) = h
    BY <1>3, <2>0, <2>1, Zenon DEF Hidden, Keyed
  <2>5. d = h
    BY <2>2, <2>3
  <2>6. GoodConfig(h)
    BY <2>3 DEF GoodConfig, Normal
  <2> QED BY <2>0, <2>3, <2>4, <2>5, <2>6, Zenon DEF KeyHidden
<1> QED BY <1>2, <1>3, Zenon

LEMMA HasFacts == \A v, d : Has(v).is = "ok" /\ Has(v).value = v /\ Stored(Has(v), d) = v
BY DEF Has, Stored

LEMMA LoadedGood ==
  ASSUME NEW f, ConfigFile(f), f # Cut, NEW e
  PROVE  /\ GoodConfig(Loaded(f, e))
         /\ \A v : f = Has(v) /\ GoodConfig(v) /\ Silent(e) => Loaded(f, e) = v
<1>1. PICK s : s = Stored(f, configFromEnv(e))
  OBVIOUS
<1>2. IsConfig(s)
  <2>1. CASE f = Absent
    <3>1. s = configFromEnv(e)
      BY <1>1, <2>1 DEF Stored, Absent
    <3> QED BY <3>1, EnvConfig
  <2>2. CASE \E v : f = Has(v) /\ GoodConfig(v)
    <3>1. PICK v : f = Has(v) /\ GoodConfig(v)
      BY <2>2
    <3>2. s = v
      BY <1>1, <3>1, HasFacts
    <3> QED BY <3>1, <3>2 DEF GoodConfig
  <2> QED BY <2>1, <2>2 DEF ConfigFile
<1>3. GoodConfig(Loaded(f, e))
  <2>1. PICK d : d = applyModelEnvOverlay(s, e)
    OBVIOUS
  <2>2. IsConfig(d) /\ d = normalizeConfig(d)
    BY <1>2, <2>1, OverlayNormal
  <2> QED BY <1>1, <2>1, <2>2 DEF Loaded, GoodConfig, Normal
<1>4. ASSUME NEW v, f = Has(v), GoodConfig(v), Silent(e) PROVE Loaded(f, e) = v
  <2>1. s = v
    BY <1>1, <1>4, HasFacts
  <2>2. applyModelEnvOverlay(v, e) = v
    BY <1>4, OverlaySilent DEF GoodConfig, Normal
  <2> QED BY <1>1, <2>1, <2>2 DEF Loaded
<1> QED BY <1>3, <1>4

LEMMA SettingsInitial == Init => SInv
<1> SUFFICES ASSUME Init PROVE SInv
  OBVIOUS
<1>1. /\ serving = FALSE /\ secrets \in BOOLEAN /\ env \in Envs /\ cfg = None
      /\ profiles = [n \in {} |-> None] /\ cfile = Absent /\ pfile = Absent
      /\ call = [t \in Tab |-> NoCall] /\ mixed = FALSE
  BY Zenon DEF Init, SettingsInit
<1> HIDE DEF Init
<1>2. GoodConfig(cfg) /\ GoodProfiles(profiles)
  BY <1>1, NoneGood DEF GoodProfiles
<1>3. ConfigFile(cfile) /\ ProfileFile(pfile)
  BY <1>1 DEF ConfigFile, ProfileFile
<1>4. (\A t \in Tab : call[t] = NoCall) /\ call = [t \in Tab |-> call[t]]
  BY <1>1
<1>5. \A t \in Tab : CallOK(call[t])
  BY <1>4 DEF CallOK
<1>6. SettingsTypes
  BY <1>1, <1>2, <1>3, <1>4, <1>5 DEF SettingsTypes
<1> QED BY <1>1, <1>6 DEF SInv, Synced

LEMMA StartDaemonStep ==
  ASSUME SInv, NEW e \in Envs, StartDaemon(e)
  PROVE  SInv'
<1>1. /\ ~serving /\ cfile # Cut /\ pfile # Cut /\ serving' /\ serving' \in BOOLEAN /\ env' = e
      /\ cfg' = Loaded(cfile, e)
      /\ cfile' = IF cfile = Absent THEN Has(diskConfig(cfg')) ELSE cfile
      /\ profiles' = Stored(pfile, Nothing) /\ test' = Stored(tfile, Untested)
      /\ ~mixed' /\ mixed' \in BOOLEAN /\ UNCHANGED <<secrets, pfile, tfile, call>>
  BY Zenon DEF StartDaemon, Nothing
<1>2. SettingsTypes /\ \A t \in Tab : call[t] = NoCall
  BY <1>1 DEF SInv, SettingsTypes
<1>3. GoodConfig(cfg')
  BY <1>1, <1>2, LoadedGood DEF SettingsTypes
<1>4. PICK d : d = diskConfig(cfg')
  OBVIOUS
<1>5. d = Hidden(cfg') /\ GoodConfig(d) /\ KeyHidden(d)
  BY <1>3, <1>4, DiskGood
<1>6. ConfigFile(cfile)'
  <2>1. CASE cfile = Absent
    <3>1. cfile' = Has(d)
      BY <1>1, <1>4, <2>1
    <3>2. KeyHidden(d)'
      BY <1>1, <1>5, Zenon DEF KeyHidden
    <3> QED BY <3>1, <3>2, <1>5 DEF ConfigFile
  <2>2. CASE cfile # Absent
    <3>1. PICK v : cfile = Has(v) /\ GoodConfig(v) /\ KeyHidden(v)
      BY <1>1, <1>2, <2>2 DEF SettingsTypes, ConfigFile
    <3>2. cfile' = Has(v)
      BY <1>1, <2>2, <3>1
    <3>3. KeyHidden(v)'
      BY <1>1, <3>1, Zenon DEF KeyHidden
    <3> QED BY <3>1, <3>2, <3>3 DEF ConfigFile
  <2> QED BY <2>1, <2>2
<1>7. GoodProfiles(profiles')
  <2>1. CASE pfile = Absent
    <3>1. profiles' = Nothing
      BY <1>1, <2>1 DEF Stored, Absent
    <3> QED BY <3>1 DEF GoodProfiles, Nothing
  <2>2. CASE \E v : pfile = Has(v) /\ GoodProfiles(v)
    BY <1>1, <2>2, HasFacts
  <2> QED BY <1>1, <1>2, <2>1, <2>2 DEF SettingsTypes, ProfileFile
<1>8. SettingsTypes'
  BY <1>1, <1>2, <1>3, <1>6, <1>7 DEF SettingsTypes, ProfileFile
<1>9. Brings(cfg)'
  <2> SUFFICES ASSUME Silent(e) PROVE cfile'.is = "ok" /\ Loaded(cfile, e)' = Hidden(cfg)'
    BY <1>1 DEF Brings
  <2>0. Hidden(cfg)' = Hidden(cfg')
    BY <1>1, Zenon DEF Hidden
  <2>1. CASE cfile = Absent
    <3>1. cfile' = Has(d)
      BY <1>1, <1>4, <2>1
    <3>2. Loaded(Has(d), e) = d
      <4>1. ConfigFile(Has(d))
        BY <1>5 DEF ConfigFile
      <4>2. Has(d) # Cut
        BY DEF Has, Cut
      <4> QED BY <1>5, <4>1, <4>2, LoadedGood
    <3>3. Loaded(cfile, e)' = Loaded(Has(d), e)
      BY <3>1, Zenon DEF Loaded
    <3> QED BY <2>0, <3>1, <3>2, <3>3, <1>5, HasFacts
  <2>2. CASE cfile # Absent
    <3>1. PICK v : cfile = Has(v) /\ GoodConfig(v) /\ KeyHidden(v)
      BY <1>1, <1>2, <2>2 DEF SettingsTypes, ConfigFile
    <3>2. cfg' = v
      BY <1>1, <1>2, <3>1, LoadedGood DEF SettingsTypes
    <3>3. cfile' = cfile
      BY <1>1, <2>2
    <3>4. Loaded(cfile, e)' = v
      <4>1. Loaded(cfile, e)' = Loaded(cfile', e)
        BY Zenon DEF Loaded
      <4> QED BY <4>1, <3>2, <3>3, <1>1
    <3>5. Hidden(v) = v
      <4>1. IsConfig(v)
        BY <3>1 DEF GoodConfig
      <4>2. PICK h : h = Keyed(v, v.key)
        OBVIOUS
      <4>3. /\ IsConfig(h) /\ h.key = v.key /\ h.provider = v.provider /\ h.base = v.base
            /\ h.model = v.model /\ h.tokens = v.tokens /\ h.temp = v.temp
        BY <4>1, <4>2, WithKey
      <4>4. h = v
        BY <4>1, <4>3, ConfigEqual, Zenon
      <4>5. Hidden(v) = h
        BY <3>1, <4>2, Zenon DEF Hidden, Keyed, KeyHidden
      <4> QED BY <4>4, <4>5
    <3> QED BY <2>0, <3>1, <3>2, <3>3, <3>4, <3>5, HasFacts
  <2> QED BY <2>1, <2>2
<1>10. InStep(NoCall)'
  <2>1. Stored(pfile, Nothing)' = profiles' /\ Stored(tfile, Untested)' = test'
    BY <1>1, Zenon DEF Stored, Nothing
  <2> QED BY <1>9, <2>1, NoCallAt DEF InStep
<1>11. \A t \in Tab : InStep(call[t])'
  BY <1>1, <1>2, <1>10 DEF InStep
<1>12. \A t, u \in Tab : call'[t] # NoCall /\ call'[u] # NoCall => t = u
  BY <1>1, <1>2
<1> QED BY <1>8, <1>10, <1>11, <1>12 DEF SInv, Synced

LEMMA StopServingStep ==
  ASSUME SInv, StopServing
  PROVE  SInv'
<1>1. /\ serving' = FALSE /\ cfg' = None /\ profiles' = Nothing
      /\ cfile' \in {cfile} \cup
           UNION {Outcomes(cfile, diskConfig(call[t].cfg)) : t \in Writing("write")}
      /\ pfile' \in {pfile} \cup UNION {Outcomes(pfile, profiles) : t \in Writing("persist")}
      /\ call' = [t \in Tab |-> NoCall] /\ UNCHANGED <<secrets, env, mixed>>
  BY Zenon DEF StopServing, Nothing
<1>2. SettingsTypes
  BY DEF SInv
<1>3. ConfigFile(cfile)'
  <2>1. CASE cfile' \in {cfile, Cut}
    BY <1>1, <1>2, <2>1 DEF SettingsTypes, ConfigFile, KeyHidden
  <2>2. ASSUME NEW t \in Writing("write"), cfile' = Has(diskConfig(call[t].cfg)) PROVE ConfigFile(cfile)'
    <3>1. t \in Tab /\ call[t].at = "write"
      BY DEF Writing
    <3>2. PICK d : d = diskConfig(call[t].cfg)
      OBVIOUS
    <3>3. GoodConfig(d) /\ KeyHidden(d)
      BY <1>2, <3>1, <3>2, CallFacts, DiskGood DEF SettingsTypes
    <3>4. KeyHidden(d)'
      BY <1>1, <3>3, Zenon DEF KeyHidden
    <3> QED BY <2>2, <3>2, <3>3, <3>4 DEF ConfigFile
  <2>3. \/ cfile' \in {cfile, Cut}
        \/ \E t \in Writing("write") : cfile' = Has(diskConfig(call[t].cfg))
    BY <1>1 DEF Outcomes
  <2> QED BY <2>1, <2>2, <2>3
<1>4. ProfileFile(pfile)'
  <2>1. pfile' \in {pfile, Cut} \/ pfile' = Has(profiles)
    BY <1>1 DEF Outcomes
  <2> QED BY <1>2, <2>1 DEF SettingsTypes, ProfileFile
<1>5. GoodConfig(cfg') /\ GoodProfiles(profiles')
  BY <1>1, NoneGood DEF GoodProfiles, Nothing
<1>6. (\A t \in Tab : call'[t] = NoCall) /\ call' = [t \in Tab |-> call'[t]]
  BY <1>1
<1>7. SettingsTypes'
  BY <1>1, <1>2, <1>3, <1>4, <1>5, <1>6 DEF SettingsTypes, CallOK
<1> QED BY <1>1, <1>7 DEF SInv, Synced

\* A call begins: nothing is written yet but the profiles in force.
LEMMA BeginMoves ==
  ASSUME SInv, NEW t \in Tab, NEW m, Begin(t, m), CallOK(m),
         m.at \in {"write", "probe", "request", "persist"}, m.at = "write" => ~m.raced,
         UNCHANGED <<serving, secrets, env, cfg, test, files>>,
         GoodProfiles(profiles'), m.at # "persist" => profiles' = profiles
  PROVE  SInv'
<1>1. /\ serving /\ call[t] = NoCall /\ call' = [call EXCEPT ![t] = m]
      /\ mixed' = (mixed \/ Busy # {}) /\ mixed' \in BOOLEAN
      /\ UNCHANGED <<cfile, pfile, tfile>>
  BY DEF Begin, files
<1>2. SettingsTypes
  BY DEF SInv
<1>3. /\ call' = [u \in Tab |-> call'[u]] /\ call'[t] = m
      /\ \A u \in Tab : u # t => call'[u] = call[u]
  <2>1. DOMAIN call = Tab
    BY <1>2 DEF SettingsTypes
  <2> QED BY <1>1, <2>1
<1>4. \A u \in Tab : CallOK(call'[u])
  BY <1>2, <1>3 DEF SettingsTypes
<1>5. ConfigFile(cfile)' /\ ProfileFile(pfile)'
  BY <1>1, <1>2 DEF SettingsTypes, ConfigFile, ProfileFile, KeyHidden
<1>6. ASSUME ~mixed' PROVE (\A u \in Tab : u # t => call'[u] = NoCall) /\ InStep(call[t])'
  <2>1. ~mixed /\ \A u \in Tab : call[u] = NoCall
    BY <1>1, <1>6 DEF Busy
  <2>2. InStep(NoCall)
    BY <1>1, <2>1 DEF SInv, Synced
  <2>3. Brings(cfg) /\ Stored(pfile, Nothing) = profiles /\ Stored(tfile, Untested) = test
    BY <2>2, NoCallAt DEF InStep
  <2>4. Brings(cfg)' /\ Stored(pfile, Nothing)' = profiles /\ Stored(tfile, Untested)' = test'
    <3>1. Brings(cfg)'
      <4>1. Hidden(cfg)' = Hidden(cfg)
        BY Zenon DEF Hidden
      <4>2. Loaded(cfile, env)' = Loaded(cfile, env)
        BY <1>1, Zenon DEF Loaded
      <4> QED BY <1>1, <2>3, <4>1, <4>2 DEF Brings
    <3>2. Stored(pfile, Nothing)' = profiles
      BY <1>1, <2>3, Zenon DEF Stored, Nothing
    <3>3. Stored(tfile, Untested)' = test'
      BY <1>1, <2>3, Zenon DEF Stored, Untested
    <3> QED BY <3>1, <3>2, <3>3
  <2> QED BY <1>3, <2>1, <2>4 DEF InStep
<1>7. GoodConfig(cfg')
  BY <1>2 DEF SettingsTypes
<1> QED BY <1>1, <1>3, <1>4, <1>5, <1>6, <1>7, CallMoves

LEMMA BeginSteps ==
  ASSUME SInv, NEW t \in Tab,
         \/ \E form \in Forms : UpdateModels(t, form) \/ TestModels(t, form)
         \/ \E n \in Name : ApplyModelProfile(t, n) \/ DeleteModelProfile(t, n)
         \/ \E form \in Forms, n \in Name : SaveModelProfile(t, form, n)
         \/ \E q \in Asked : GenerateText(t, q)
  PROVE  SInv'
<1>0. SettingsTypes /\ IsConfig(cfg)
  BY DEF SInv, SettingsTypes, GoodConfig
<1>1. ASSUME NEW c, GoodConfig(c), Begin(t, [at |-> "write", raced |-> FALSE, cfg |-> c]),
             UNCHANGED <<serving, secrets, env, stores, files>>
      PROVE  SInv'
  <2>1. PICK m : m = [at |-> "write", raced |-> FALSE, cfg |-> c]
    OBVIOUS
  <2>2. m.at = "write" /\ m.raced = FALSE /\ m.cfg = c
    BY <2>1
  <2>3. CallOK(m)
    <3>1. m = [at |-> "write", raced |-> m.raced, cfg |-> m.cfg]
      BY <2>1, <2>2, Zenon
    <3> QED BY <1>1, <2>2, <3>1 DEF CallOK
  <2>4. UNCHANGED <<cfg, test, profiles>> /\ GoodProfiles(profiles')
    BY <1>0, <1>1 DEF stores, SettingsTypes
  <2>5. Begin(t, m)
    BY <1>1, <2>1, Zenon
  <2> QED BY <1>1, <2>2, <2>3, <2>4, <2>5, BeginMoves
<1>2. CASE \E form \in Forms : UpdateModels(t, form)
  <2>1. PICK form \in Forms : UpdateModels(t, form)
    BY <1>2
  <2>2. PICK c : c = normalizeConfig(modelConfigFromForm(form, cfg))
    OBVIOUS
  <2>3. GoodConfig(c)
    BY <1>0, <2>2, FormShaped, NormalGood
  <2>4. /\ Begin(t, [at |-> "write", raced |-> FALSE, cfg |-> c])
        /\ UNCHANGED <<serving, secrets, env, stores, files>>
    BY <2>1, <2>2, Zenon DEF UpdateModels
  <2> QED BY <1>1, <2>3, <2>4
<1>3. CASE \E n \in Name : ApplyModelProfile(t, n)
  <2>1. PICK n \in Name : ApplyModelProfile(t, n)
    BY <1>3
  <2>2. PICK c : c = normalizeConfig(profiles[n])
    OBVIOUS
  <2>3. GoodConfig(c)
    <3>1. IsConfig(profiles[n])
      BY <1>0, <2>1 DEF SettingsTypes, GoodProfiles, GoodConfig, ApplyModelProfile
    <3> QED BY <2>2, <3>1, ConfigShaped, NormalGood
  <2>4. /\ Begin(t, [at |-> "write", raced |-> FALSE, cfg |-> c])
        /\ UNCHANGED <<serving, secrets, env, stores, files>>
    BY <2>1, <2>2, Zenon DEF ApplyModelProfile
  <2> QED BY <1>1, <2>3, <2>4
<1>4. CASE \E form \in Forms : TestModels(t, form)
  <2>1. PICK form \in Forms : TestModels(t, form)
    BY <1>4
  <2>2. PICK c : c = modelConfigFromForm(form, cfg)
    OBVIOUS
  <2>3. PICK m : m = [at |-> "probe", cfg |-> c]
    OBVIOUS
  <2>4. m.at = "probe" /\ m = [at |-> "probe", cfg |-> m.cfg]
    BY <2>3
  <2>5. Begin(t, m) /\ UNCHANGED <<serving, secrets, env, stores, files>>
    BY <2>1, <2>2, <2>3, Zenon DEF TestModels
  <2>6. UNCHANGED <<cfg, test, profiles>> /\ GoodProfiles(profiles')
    BY <1>0, <2>5 DEF stores, SettingsTypes
  <2>7. CallOK(m)
    BY <2>4 DEF CallOK
  <2> QED BY <2>4, <2>5, <2>6, <2>7, BeginMoves
<1>5. CASE \E q \in Asked : GenerateText(t, q)
  <2>1. PICK q \in Asked : GenerateText(t, q)
    BY <1>5
  <2>2. PICK r : r = resolveRequest(cfg, q)
    OBVIOUS
  <2>3. validateConfig(cfg)
    BY <2>1 DEF GenerateText
  <2>4. Within(r)
    BY <1>0, <2>2, <2>3, RequestWithin
  <2>5. PICK m : m = [at |-> "request", cfg |-> cfg, req |-> r]
    OBVIOUS
  <2>6. m.at = "request" /\ m = [at |-> "request", cfg |-> m.cfg, req |-> m.req] /\ m.req = r
    BY <2>5
  <2>7. Begin(t, m) /\ UNCHANGED <<serving, secrets, env, stores, files>>
    BY <2>1, <2>2, <2>5, Zenon DEF GenerateText
  <2>8. UNCHANGED <<cfg, test, profiles>> /\ GoodProfiles(profiles')
    BY <1>0, <2>7 DEF stores, SettingsTypes
  <2>9. CallOK(m)
    BY <2>4, <2>6 DEF CallOK
  <2> QED BY <2>6, <2>7, <2>8, <2>9, BeginMoves
<1>6. ASSUME GoodProfiles(profiles'), Begin(t, [at |-> "persist"]),
             UNCHANGED <<serving, secrets, env, cfg, test, files>>
      PROVE  SInv'
  <2>1. PICK m : m = [at |-> "persist"]
    OBVIOUS
  <2>2. m.at = "persist" /\ CallOK(m)
    BY <2>1 DEF CallOK
  <2>3. Begin(t, m)
    BY <1>6, <2>1, Zenon
  <2> QED BY <1>6, <2>2, <2>3, BeginMoves
<1>7. CASE \E n \in Name : DeleteModelProfile(t, n)
  <2>1. PICK n \in Name : DeleteModelProfile(t, n)
    BY <1>7
  <2>2. GoodProfiles(profiles')
    BY <1>0, <2>1 DEF DeleteModelProfile, ProfileDelete, SettingsTypes, GoodProfiles
  <2> QED BY <1>6, <2>1, <2>2, Zenon DEF DeleteModelProfile
<1>8. CASE \E form \in Forms, n \in Name : SaveModelProfile(t, form, n)
  <2>1. PICK form \in Forms, n \in Name : SaveModelProfile(t, form, n)
    BY <1>8
  <2>2. PICK c : c = normalizeConfig(modelConfigFromForm(form, cfg))
    OBVIOUS
  <2>3. GoodConfig(c)
    BY <1>0, <2>2, FormShaped, NormalGood
  <2>4. ProfileSave(n, c)
    BY <2>1, <2>2, Zenon DEF SaveModelProfile
  <2>5. GoodProfiles(profiles')
    BY <1>0, <2>3, <2>4 DEF ProfileSave, SettingsTypes, GoodProfiles
  <2> QED BY <1>6, <2>1, <2>5, Zenon DEF SaveModelProfile
<1> QED BY <1>2, <1>3, <1>4, <1>5, <1>7, <1>8, Zenon

\* A call that returns leaves the others alone.
LEMMA ReturnFacts ==
  ASSUME SInv, NEW t \in Tab, Return(t)
  PROVE  /\ call' = [u \in Tab |-> call'[u]] /\ call'[t] = NoCall
         /\ \A u \in Tab : u # t => call'[u] = call[u]
         /\ \A u \in Tab : CallOK(call'[u])
<1>1. DOMAIN call = Tab /\ \A u \in Tab : CallOK(call[u])
  BY DEF SInv, SettingsTypes
<1>2. /\ call' = [u \in Tab |-> call'[u]] /\ call'[t] = NoCall
      /\ \A u \in Tab : u # t => call'[u] = call[u]
  BY <1>1 DEF Return
<1> QED BY <1>1, <1>2 DEF CallOK

\* A call that writes marks the others that write the same file.
LEMMA RaceFacts ==
  ASSUME SInv, NEW t \in Tab, NEW a \in {"write", "record"}, NEW m, CallOK(m),
         call' = [Race(t, a) EXCEPT ![t] = m]
  PROVE  /\ call' = [u \in Tab |-> call'[u]] /\ call'[t] = m
         /\ \A u \in Tab : CallOK(call'[u])
         /\ Only(t) => \A u \in Tab : u # t => call'[u] = NoCall
<1>1. \A u \in Tab : CallOK(call[u])
  BY DEF SInv, SettingsTypes
<1>2. call' = [u \in Tab |-> call'[u]] /\ call'[t] = m
  BY DEF Race
<1>3. ASSUME NEW u \in Tab, u # t
      PROVE  CallOK(call'[u]) /\ (call[u] = NoCall => call'[u] = NoCall)
  <2>1. CASE call[u].at # a
    <3>1. call'[u] = call[u]
      BY <1>3, <2>1 DEF Race
    <3> QED BY <1>1, <3>1
  <2>2. CASE call[u].at = a
    <3>1. PICK n : n = call[u]
      OBVIOUS
    <3>2. call'[u] = [n EXCEPT !.raced = TRUE] /\ n # NoCall
      BY <1>3, <2>2, <3>1, NoCallAt DEF Race
    <3>3. CASE a = "write"
      <4>1. n = [at |-> "write", raced |-> n.raced, cfg |-> n.cfg] /\ GoodConfig(n.cfg)
        BY <1>1, <2>2, <3>1, <3>3, CallFacts
      <4>2. PICK r : r = [n EXCEPT !.raced = TRUE]
        OBVIOUS
      <4>3. r = [at |-> "write", raced |-> r.raced, cfg |-> r.cfg] /\ r.cfg = n.cfg
        <5>1. PICK x, y : n = [at |-> "write", raced |-> x, cfg |-> y]
          BY <4>1
        <5>2. r = [at |-> "write", raced |-> TRUE, cfg |-> y]
          BY <4>2, <5>1
        <5> QED BY <5>1, <5>2
      <4>4. CallOK(r)
        BY <4>1, <4>3 DEF CallOK
      <4> QED BY <3>1, <3>2, <4>2, <4>4
    <3>4. CASE a = "record"
      <4>1. n = [at |-> "record", raced |-> n.raced, test |-> n.test]
        BY <1>1, <2>2, <3>1, <3>4, CallFacts
      <4>2. PICK r : r = [n EXCEPT !.raced = TRUE]
        OBVIOUS
      <4>3. r = [at |-> "record", raced |-> r.raced, test |-> r.test]
        <5>1. PICK x, y : n = [at |-> "record", raced |-> x, test |-> y]
          BY <4>1
        <5>2. r = [at |-> "record", raced |-> TRUE, test |-> y]
          BY <4>2, <5>1
        <5> QED BY <5>2
      <4>4. CallOK(r)
        BY <4>3 DEF CallOK
      <4> QED BY <3>1, <3>2, <4>2, <4>4
    <3> QED BY <3>3, <3>4
  <2> QED BY <2>1, <2>2
<1> QED BY <1>2, <1>3 DEF Only

LEMMA BringsKept ==
  ASSUME NEW c, Brings(c), UNCHANGED <<secrets, env, cfile>>, cfg' = c
  PROVE  Brings(cfg)'
<1>1. Hidden(cfg)' = Hidden(c)
  BY Zenon DEF Hidden
<1>2. Loaded(cfile, env)' = Loaded(cfile, env)
  BY Zenon DEF Loaded
<1> QED BY <1>1, <1>2 DEF Brings

LEMMA StoredKept ==
  /\ UNCHANGED pfile => Stored(pfile, Nothing)' = Stored(pfile, Nothing)
  /\ UNCHANGED tfile => Stored(tfile, Untested)' = Stored(tfile, Untested)
<1>1. ASSUME UNCHANGED pfile PROVE Stored(pfile, Nothing)' = Stored(pfile, Nothing)
  BY <1>1, Zenon DEF Stored, Nothing
<1>2. ASSUME UNCHANGED tfile PROVE Stored(tfile, Untested)' = Stored(tfile, Untested)
  BY <1>2, Zenon DEF Stored, Untested
<1> QED BY <1>1, <1>2

LEMMA FilesKept ==
  ASSUME SInv, UNCHANGED secrets
  PROVE  /\ UNCHANGED cfile => ConfigFile(cfile)'
         /\ UNCHANGED pfile => ProfileFile(pfile)'
         /\ cfile' = Cut => ConfigFile(cfile)'
         /\ pfile' = Cut => ProfileFile(pfile)'
BY DEF SInv, SettingsTypes, ConfigFile, ProfileFile, KeyHidden

LEMMA ValuesKept ==
  ASSUME SInv
  PROVE  /\ GoodConfig(cfg) /\ GoodProfiles(profiles) /\ mixed \in BOOLEAN
         /\ \A t \in Tab : CallOK(call[t])
BY DEF SInv, SettingsTypes

LEMMA SaveWriteStep ==
  ASSUME SInv, NEW t \in Tab, SaveWrite(t)
  PROVE  SInv'
<1>1. PICK n : n = call[t]
  OBVIOUS
<1>2. /\ n.at = "write" /\ cfile' \in Written(t, diskConfig(n.cfg))
      /\ call' = [Race(t, "write") EXCEPT ![t] = [at |-> "set", cfg |-> n.cfg]]
      /\ UNCHANGED <<serving, secrets, env, cfg, profiles, test, pfile, tfile, mixed>>
  BY <1>1, Zenon DEF SaveWrite, stores
<1>3. serving /\ n # NoCall /\ GoodConfig(n.cfg)
  BY <1>1, <1>2, CallServes, ValuesKept, CallFacts
<1>4. PICK m : m = [at |-> "set", cfg |-> n.cfg]
  OBVIOUS
<1>5. m.at = "set" /\ m.cfg = n.cfg /\ CallOK(m)
  <2>1. m.at = "set" /\ m.cfg = n.cfg
    BY <1>4
  <2>2. m = [at |-> "set", cfg |-> m.cfg]
    BY <1>4, <2>1, Zenon
  <2> QED BY <1>3, <2>1, <2>2 DEF CallOK
<1>6. /\ call' = [u \in Tab |-> call'[u]] /\ call'[t] = m
      /\ \A u \in Tab : CallOK(call'[u])
      /\ Only(t) => \A u \in Tab : u # t => call'[u] = NoCall
  <2>1. call' = [Race(t, "write") EXCEPT ![t] = m]
    BY <1>2, <1>4, Zenon
  <2> QED BY <1>5, <2>1, RaceFacts
<1>7. PICK d : d = diskConfig(n.cfg)
  OBVIOUS
<1>8. d = Hidden(n.cfg) /\ GoodConfig(d) /\ KeyHidden(d)
  BY <1>3, <1>7, DiskGood
<1>9. cfile' = Has(d) \/ (n.raced /\ cfile' = Cut)
  BY <1>1, <1>2, <1>7 DEF Written
<1>10. cfile' = Has(d) => ConfigFile(cfile)'
  BY <1>2, <1>8, Zenon DEF ConfigFile, KeyHidden
<1>11. ConfigFile(cfile)' /\ ProfileFile(pfile)'
  BY <1>2, <1>9, <1>10, FilesKept
<1>12. ASSUME ~mixed' PROVE (\A u \in Tab : u # t => call'[u] = NoCall) /\ InStep(call[t])'
  <2>1. Only(t) /\ InStep(n)
    BY <1>1, <1>2, <1>3, <1>12, CallNow
  <2>2. ~n.raced /\ Stored(pfile, Nothing) = profiles /\ Stored(tfile, Untested) = test
    BY <1>2, <2>1 DEF InStep
  <2>3. cfile' = Has(d)
    BY <1>9, <2>2
  <2>4. Silent(env) => Loaded(cfile', env) = d
    <3>1. PICK f : f = Has(d)
      OBVIOUS
    <3>2. ConfigFile(f) /\ f # Cut
      BY <1>8, <3>1, HasFacts DEF ConfigFile, Cut
    <3> QED BY <1>8, <2>3, <3>1, <3>2, LoadedGood
  <2>5. Brings(call[t].cfg)'
    <3>1. Hidden(call[t].cfg)' = Hidden(n.cfg)
      BY <1>2, <1>5, <1>6, Zenon DEF Hidden
    <3>2. cfile'.is = "ok"
      BY <2>3, HasFacts
    <3>3. Loaded(cfile, env)' = Loaded(cfile', env)
      BY <1>2, Zenon DEF Loaded
    <3> QED BY <1>2, <1>8, <2>4, <3>1, <3>2, <3>3 DEF Brings
  <2>6. Stored(pfile, Nothing)' = profiles' /\ Stored(tfile, Untested)' = test'
    BY <1>2, <2>2, StoredKept
  <2>7. call'[t].at = "set"
    BY <1>5, <1>6
  <2> QED BY <1>6, <2>1, <2>5, <2>6, <2>7 DEF InStep
<1>13. GoodConfig(cfg') /\ GoodProfiles(profiles') /\ mixed' \in BOOLEAN
  BY <1>2, ValuesKept
<1> QED BY <1>2, <1>3, <1>6, <1>11, <1>12, <1>13, CallMoves

LEMMA SaveSetStep ==
  ASSUME SInv, NEW t \in Tab, SaveSet(t)
  PROVE  SInv'
<1>1. PICK n : n = call[t]
  OBVIOUS
<1>2. /\ n.at = "set" /\ cfg' = n.cfg /\ Return(t)
      /\ UNCHANGED <<serving, secrets, env, profiles, test, cfile, pfile, tfile, mixed>>
  BY <1>1, Zenon DEF SaveSet, files
<1>3. serving /\ n # NoCall /\ GoodConfig(n.cfg)
  BY <1>1, <1>2, CallServes, ValuesKept, CallFacts
<1>4. /\ call' = [u \in Tab |-> call'[u]] /\ call'[t] = NoCall
      /\ \A u \in Tab : u # t => call'[u] = call[u]
      /\ \A u \in Tab : CallOK(call'[u])
  BY <1>2, ReturnFacts
<1>5. ASSUME ~mixed' PROVE (\A u \in Tab : u # t => call'[u] = NoCall) /\ InStep(call[t])'
  <2>1. Only(t) /\ InStep(n)
    BY <1>1, <1>2, <1>3, <1>5, CallNow
  <2>2. PICK c : c = n.cfg
    OBVIOUS
  <2>3. Brings(c) /\ Stored(pfile, Nothing) = profiles /\ Stored(tfile, Untested) = test
    BY <1>2, <2>1, <2>2 DEF InStep
  <2>4. Brings(cfg)'
    BY <1>2, <2>2, <2>3, BringsKept
  <2>5. Stored(pfile, Nothing)' = profiles' /\ Stored(tfile, Untested)' = test'
    BY <1>2, <2>3, StoredKept
  <2>6. call'[t].at = "none"
    BY <1>4, NoCallAt
  <2> QED BY <1>4, <2>1, <2>4, <2>5, <2>6 DEF InStep, Only
<1>6. ConfigFile(cfile)' /\ ProfileFile(pfile)'
  BY <1>2, FilesKept
<1>7. GoodConfig(cfg') /\ GoodProfiles(profiles') /\ mixed' \in BOOLEAN
  BY <1>2, <1>3, ValuesKept
<1> QED BY <1>2, <1>3, <1>4, <1>5, <1>6, <1>7, CallMoves

LEMMA PersistStep ==
  ASSUME SInv, NEW t \in Tab, persistLocked(t) \/ Answer(t)
  PROVE  SInv'
<1>1. PICK n : n = call[t]
  OBVIOUS
<1>2. /\ \/ n.at = "persist" /\ pfile' = Has(profiles)
         \/ n.at = "request" /\ pfile' = pfile
      /\ Return(t)
      /\ UNCHANGED <<serving, secrets, env, cfg, profiles, test, cfile, tfile, mixed>>
  BY <1>1 DEF persistLocked, Answer, files, stores
<1>3. serving /\ n # NoCall
  BY <1>1, <1>2, CallServes
<1>4. /\ call' = [u \in Tab |-> call'[u]] /\ call'[t] = NoCall
      /\ \A u \in Tab : u # t => call'[u] = call[u]
      /\ \A u \in Tab : CallOK(call'[u])
  BY <1>2, ReturnFacts
<1>5. ASSUME ~mixed' PROVE (\A u \in Tab : u # t => call'[u] = NoCall) /\ InStep(call[t])'
  <2>1. Only(t) /\ InStep(n)
    BY <1>1, <1>2, <1>3, <1>5, CallNow
  <2>2. PICK c : c = cfg
    OBVIOUS
  <2>3. Brings(c) /\ Stored(tfile, Untested) = test
    BY <1>2, <2>1, <2>2 DEF InStep
  <2>4. Brings(cfg)'
    BY <1>2, <2>2, <2>3, BringsKept
  <2>5. Stored(pfile, Nothing)' = profiles'
    <3>1. CASE pfile' = Has(profiles)
      BY <1>2, <3>1, HasFacts DEF Stored, Has
    <3>2. CASE n.at = "request" /\ pfile' = pfile
      <4>1. Stored(pfile, Nothing) = profiles
        BY <2>1, <3>2 DEF InStep
      <4> QED BY <1>2, <3>2, <4>1, StoredKept
    <3> QED BY <1>2, <3>1, <3>2
  <2>6. Stored(tfile, Untested)' = test'
    BY <1>2, <2>3, StoredKept
  <2>7. call'[t].at = "none"
    BY <1>4, NoCallAt
  <2> QED BY <1>4, <2>1, <2>4, <2>5, <2>6, <2>7 DEF InStep, Only
<1>6. ConfigFile(cfile)' /\ ProfileFile(pfile)'
  <2>1. pfile' = Has(profiles) => ProfileFile(pfile)'
    BY ValuesKept DEF ProfileFile
  <2> QED BY <1>2, <2>1, FilesKept
<1>7. GoodConfig(cfg') /\ GoodProfiles(profiles') /\ mixed' \in BOOLEAN
  BY <1>2, ValuesKept
<1> QED BY <1>2, <1>3, <1>4, <1>5, <1>6, <1>7, CallMoves

LEMMA TestEndsStep ==
  ASSUME SInv, NEW t \in Tab, \E ok, tools \in BOOLEAN : TestEnds(t, ok, tools)
  PROVE  SInv'
<1>1. PICK n : n = call[t]
  OBVIOUS
<1>2. PICK v : v = test'
  OBVIOUS
<1>3. PICK m : m = [at |-> "record", raced |-> FALSE, test |-> v]
  OBVIOUS
<1>4. /\ n.at = "probe" /\ call' = [call EXCEPT ![t] = m]
      /\ UNCHANGED <<serving, secrets, env, cfg, profiles, cfile, pfile, tfile, mixed>>
  BY <1>1, <1>2, <1>3, Zenon DEF TestEnds, files
<1>5. m.at = "record" /\ m.raced = FALSE /\ m.test = v /\ CallOK(m)
  <2>1. m.at = "record" /\ m.raced = FALSE /\ m.test = v
    BY <1>3
  <2>2. m = [at |-> "record", raced |-> m.raced, test |-> m.test]
    BY <1>3, <2>1, Zenon
  <2> QED BY <2>1, <2>2 DEF CallOK
<1>6. serving /\ n # NoCall
  BY <1>1, <1>4, CallServes
<1>7. /\ call' = [u \in Tab |-> call'[u]] /\ call'[t] = m
      /\ \A u \in Tab : u # t => call'[u] = call[u]
      /\ \A u \in Tab : CallOK(call'[u])
  <2>1. DOMAIN call = Tab
    BY DEF SInv, SettingsTypes
  <2>2. /\ call' = [u \in Tab |-> call'[u]] /\ call'[t] = m
        /\ \A u \in Tab : u # t => call'[u] = call[u]
    BY <1>4, <2>1
  <2> QED BY <1>5, <2>2, ValuesKept
<1>8. ASSUME ~mixed' PROVE (\A u \in Tab : u # t => call'[u] = NoCall) /\ InStep(call[t])'
  <2>1. Only(t) /\ InStep(n)
    BY <1>1, <1>4, <1>6, <1>8, CallNow
  <2>2. PICK c : c = cfg
    OBVIOUS
  <2>3. Brings(c) /\ Stored(pfile, Nothing) = profiles
    BY <1>4, <2>1, <2>2 DEF InStep
  <2>4. Brings(cfg)'
    BY <1>4, <2>2, <2>3, BringsKept
  <2>5. Stored(pfile, Nothing)' = profiles'
    BY <1>4, <2>3, StoredKept
  <2> QED BY <1>2, <1>5, <1>7, <2>1, <2>4, <2>5 DEF InStep, Only
<1>9. ConfigFile(cfile)' /\ ProfileFile(pfile)'
  BY <1>4, FilesKept
<1>10. GoodConfig(cfg') /\ GoodProfiles(profiles') /\ mixed' \in BOOLEAN
  BY <1>4, ValuesKept
<1> QED BY <1>4, <1>6, <1>7, <1>8, <1>9, <1>10, CallMoves

LEMMA RecordLastTestStep ==
  ASSUME SInv, NEW t \in Tab, RecordLastTest(t)
  PROVE  SInv'
<1>1. PICK n : n = call[t]
  OBVIOUS
<1>2. /\ n.at = "record" /\ tfile' \in Written(t, n.test)
      /\ call' = [Race(t, "record") EXCEPT ![t] = NoCall]
      /\ UNCHANGED <<serving, secrets, env, cfg, profiles, test, cfile, pfile, mixed>>
  BY <1>1, Zenon DEF RecordLastTest, stores
<1>3. serving /\ n # NoCall
  BY <1>1, <1>2, CallServes
<1>4. /\ call' = [u \in Tab |-> call'[u]] /\ call'[t] = NoCall
      /\ \A u \in Tab : CallOK(call'[u])
      /\ Only(t) => \A u \in Tab : u # t => call'[u] = NoCall
  <2>1. CallOK(NoCall)
    BY DEF CallOK
  <2> QED BY <1>2, <2>1, RaceFacts
<1>5. ASSUME ~mixed' PROVE (\A u \in Tab : u # t => call'[u] = NoCall) /\ InStep(call[t])'
  <2>1. Only(t) /\ InStep(n)
    BY <1>1, <1>2, <1>3, <1>5, CallNow
  <2>2. PICK c : c = cfg
    OBVIOUS
  <2>3. Brings(c) /\ Stored(pfile, Nothing) = profiles /\ n.test = test /\ ~n.raced
    BY <1>2, <2>1, <2>2 DEF InStep
  <2>4. Brings(cfg)'
    BY <1>2, <2>2, <2>3, BringsKept
  <2>5. Stored(pfile, Nothing)' = profiles'
    BY <1>2, <2>3, StoredKept
  <2>6. Stored(tfile, Untested)' = test'
    <3>1. tfile' = Has(test)
      BY <1>1, <1>2, <2>3 DEF Written
    <3>2. Stored(tfile, Untested)' = Stored(tfile', Untested)
      BY Zenon DEF Stored, Untested
    <3> QED BY <1>2, <3>1, <3>2, HasFacts
  <2>7. call'[t].at = "none"
    BY <1>4, NoCallAt
  <2> QED BY <1>4, <2>1, <2>4, <2>5, <2>6, <2>7 DEF InStep
<1>6. ConfigFile(cfile)' /\ ProfileFile(pfile)'
  BY <1>2, FilesKept
<1>7. GoodConfig(cfg') /\ GoodProfiles(profiles') /\ mixed' \in BOOLEAN
  BY <1>2, ValuesKept
<1> QED BY <1>2, <1>3, <1>4, <1>5, <1>6, <1>7, CallMoves

LEMMA WriteFailsStep ==
  ASSUME SInv, NEW t \in Tab, WriteFails(t)
  PROVE  SInv'
<1>1. /\ Return(t) /\ mixed' = TRUE /\ cfile' \in {cfile, Cut} /\ pfile' \in {pfile, Cut}
      /\ UNCHANGED <<serving, secrets, env, cfg, profiles>>
      /\ call[t].at \in {"write", "persist", "record"}
  BY DEF WriteFails, stores
<1>2. serving
  BY <1>1, CallServes
<1>3. call' = [u \in Tab |-> call'[u]] /\ \A u \in Tab : CallOK(call'[u])
  BY <1>1, ReturnFacts
<1>4. ConfigFile(cfile)' /\ ProfileFile(pfile)'
  BY <1>1, FilesKept
<1>5. GoodConfig(cfg') /\ GoodProfiles(profiles')
  BY <1>1, ValuesKept
<1> QED BY <1>1, <1>2, <1>3, <1>4, <1>5, CallMoves

LEMMA SettingsRest ==
  ASSUME SInv, UNCHANGED settingsVars
  PROVE  SInv'
<1>1. /\ UNCHANGED <<serving, secrets, env, cfg, profiles, test, cfile, pfile, tfile, call, mixed>>
  BY Zenon DEF settingsVars, stores, files
<1>2. SettingsTypes'
  <2>1. ConfigFile(cfile)' /\ ProfileFile(pfile)'
    BY <1>1, FilesKept
  <2> QED BY <1>1, <2>1 DEF SInv, SettingsTypes
<1>3. ASSUME NEW m, InStep(m) PROVE InStep(m)'
  <2>1. Hidden(cfg)' = Hidden(cfg) /\ Hidden(m.cfg)' = Hidden(m.cfg)
    BY <1>1, Zenon DEF Hidden
  <2>2. Loaded(cfile, env)' = Loaded(cfile, env)
    BY <1>1, Zenon DEF Loaded
  <2>3. /\ Stored(pfile, Nothing)' = Stored(pfile, Nothing)
        /\ Stored(tfile, Untested)' = Stored(tfile, Untested)
    BY <1>1, StoredKept
  <2> QED BY <1>1, <1>3, <2>1, <2>2, <2>3 DEF InStep, Brings
<1>4. ASSUME NEW t \in Tab, InStep(call[t]) PROVE InStep(call[t])'
  <2>1. PICK m : m = call[t]
    OBVIOUS
  <2>2. InStep(m)'
    BY <1>3, <1>4, <2>1
  <2>3. call'[t] = m
    BY <1>1, <2>1
  <2>4. Brings(call[t].cfg)' = Brings(m.cfg)'
    BY <2>3, Zenon DEF Brings, Hidden
  <2> QED BY <2>2, <2>3, <2>4 DEF InStep
<1>5. InStep(NoCall) => InStep(NoCall)'
  BY <1>3
<1> QED BY <1>1, <1>2, <1>4, <1>5 DEF SInv, Synced, Only

LEMMA SettingsStepKeeps == SInv /\ [Next]_consoleVars => SInv'
<1> SUFFICES ASSUME SInv, [Next]_consoleVars PROVE SInv'
  OBVIOUS
<1>1. CASE SettingsNext
  <2>1. ASSUME NEW t \in Tab,
               \/ \E form \in Forms :
                    \/ UpdateModels(t, form) \/ TestModels(t, form)
                    \/ \E n \in Name : SaveModelProfile(t, form, n)
               \/ \E n \in Name : ApplyModelProfile(t, n) \/ DeleteModelProfile(t, n)
               \/ \E req \in Asked : GenerateText(t, req)
        PROVE  SInv'
    BY <2>1, BeginSteps
  <2>2. ASSUME NEW t \in Tab,
               \/ \E ok, tools \in BOOLEAN : TestEnds(t, ok, tools)
               \/ SaveWrite(t) \/ SaveSet(t) \/ persistLocked(t) \/ RecordLastTest(t)
               \/ WriteFails(t) \/ Answer(t)
        PROVE  SInv'
    BY <2>2, TestEndsStep, SaveWriteStep, SaveSetStep, PersistStep, RecordLastTestStep,
       WriteFailsStep
  <2> QED BY <1>1, <2>1, <2>2, StartDaemonStep, StopServingStep, Zenon DEF SettingsNext
<1>2. CASE UNCHANGED settingsVars
  BY <1>2, SettingsRest
<1> QED BY <1>1, <1>2, Zenon DEF Next, consoleVars, DaemonStep, SettingsStep, TurnStep, StreamStep,
        HarnessStep

\* What was saved survives a restart: when calls neither overlapped nor failed,
\* config.json, profiles.json and last-test.json bring back the configuration in
\* force (but for a key the default file does not hold), the profiles and the
\* last test, although ConfigStore writes before it sets, LastTestStore after,
\* and loading normalises and lays the environment over what it finds
\* (runtime.go:103-196, profiles.go:27-130, lasttest.go:41-104).
THEOREM SettingsSurviveHolds == Spec => []SettingsSurvive
<1>1. SInv => SettingsSurvive
  <2> SUFFICES ASSUME SInv, serving, Busy = {}, ~mixed
               PROVE  /\ Silent(env) => cfile.is = "ok" /\ Loaded(cfile, env) = Hidden(cfg)
                      /\ Stored(pfile, Nothing) = profiles
                      /\ Stored(tfile, Untested) = test
    BY Zenon DEF SettingsSurvive, Hidden, Nothing
  <2>1. \A t \in Tab : call[t] = NoCall
    BY DEF Busy
  <2>2. InStep(NoCall)
    BY <2>1 DEF SInv, Synced
  <2> QED BY <2>2, NoCallAt DEF InStep, Brings
<1> QED BY <1>1, SettingsInitial, SettingsStepKeeps, PTL DEF Spec

\* Whatever was typed, stored or set in the environment: the configuration in
\* force, the file and every stored profile are in normal form, the file holds a
\* key only where the operator chose its path, every stored profile is valid,
\* and a request names a model, an address and a key and asks for at least one
\* token and at most what its profile and the limit allow (normalizeConfig,
\* applyModelEnvOverlay, modelConfigFromForm, resolveRequest).
THEOREM ConfigUsableHolds == Spec => []ConfigUsable
<1>1. SInv => ConfigUsable
  <2> SUFFICES ASSUME SInv PROVE ConfigUsable
    OBVIOUS
  <2>1. SettingsTypes
    BY DEF SInv
  <2>2. ASSUME cfile.is = "ok" PROVE Normal(cfile.value) /\ KeyHidden(cfile.value)
    <3>1. cfile # Absent /\ cfile # Cut
      BY <2>2 DEF Absent, Cut
    <3>2. PICK v : cfile = Has(v) /\ GoodConfig(v) /\ KeyHidden(v)
      BY <2>1, <3>1 DEF SettingsTypes, ConfigFile
    <3>3. cfile.value = v
      BY <3>2, HasFacts
    <3>4. Normal(v) /\ KeyHidden(v)
      BY <3>2 DEF GoodConfig
    <3> QED BY <3>3, <3>4, Zenon
  <2>3. \A t \in Tab : call[t].at \in
          {"none", "write", "set", "persist", "probe", "record", "request"}
    BY <2>1, CallFacts DEF SettingsTypes
  <2>4. SettingsTypeOK
    <3>1. Normal(cfg)
      BY <2>1 DEF SettingsTypes, GoodConfig
    <3>2. serving \in BOOLEAN /\ secrets \in BOOLEAN /\ mixed \in BOOLEAN /\ env \in Envs
      BY <2>1 DEF SettingsTypes
    <3> QED BY <2>2, <2>3, <3>1, <3>2, Zenon DEF SettingsTypeOK, KeyHidden
  <2>5. ProfilesUsable
    BY <2>1 DEF SettingsTypes, GoodProfiles, GoodConfig, ProfilesUsable
  <2>6. \A t \in Tab : call[t].at = "request" => Within(call[t].req)
    BY <2>1, CallFacts DEF SettingsTypes
  <2>7. RequestsWithin
    BY <2>6, Zenon DEF RequestsWithin, Within
  <2> QED BY <2>4, <2>5, <2>7 DEF ConfigUsable
<1> QED BY <1>1, SettingsInitial, SettingsStepKeeps, PTL DEF Spec

-----------------------------------------------------------------------------
(***************************************************************************)
(* AgentTurn: the tools                                                    *)
(***************************************************************************)

Due(i) == i + Len(msgs[i].calls)

Outcomes2 == {"text", "error"}
Message == [role : {"system", "user"}]
           \cup [role : {"assistant"}, calls : Seq(Calls)]
           \cup [role : {"tool"}, id : {c.id : c \in Calls}, result : Outcomes2]

\* A tool call of a stream, and those put together so far.
Whole(p) == DOMAIN p = {"id", "name", "args"}
PartialsOK(ps) == \E n \in Nat : ps = [i \in 1..n |-> ps[i]] /\ \A i \in 1..n : Whole(ps[i])

TurnTypes ==
  /\ phase \in {"ask", "tools", "stream", "retry", "done"}
  /\ rounds \in 0..maxAgentTurns
  /\ stage \in {"running", "tool_call", "tool_result", "responded"}
  /\ msgs \in Seq(Message) /\ todo \in Seq(Calls)
  /\ acted \in Seq([name : {c.name : c \in Calls}, result : Outcomes2])
  /\ received \in Seq(Chunks) /\ Len(received) <= MaxChunks
  /\ PartialsOK(partials)
  /\ phase = "tools" <=> todo # <<>>
  /\ stage = "tool_call" => phase = "tools"

\* Every message that follows the calls of an answer, as far as there are any,
\* is the result of the call.
Matched ==
  \A i \in 1..Len(msgs) : Assistant(i) =>
    \A k \in 1..Len(msgs[i].calls) : i + k <= Len(msgs) =>
      msgs[i + k].role = "tool" /\ msgs[i + k].id = msgs[i].calls[k].id

\* The calls of an answer that have no result yet are those that are to be done.
Opened ==
  \A i \in 1..Len(msgs) : Assistant(i) =>
    \/ Due(i) <= Len(msgs)
    \/ /\ Due(i) = Len(msgs) + Len(todo)
       /\ \A k \in 1..Len(todo) : todo[k] = msgs[i].calls[(Len(msgs) - i) + k]

Counted ==
  /\ Cardinality(ToolMessages) = Len(acted)
  /\ \A i \in ToolMessages :
       msgs[i].result = acted[Cardinality({j \in ToolMessages : j <= i})].result

Traced ==
  trace = IF stage = "tool_call" THEN Append(acted, [name |-> Head(todo).name, result |-> "pending"])
          ELSE acted

UInv == TurnTypes /\ Matched /\ Opened /\ Counted /\ Traced

LEMMA TurnNow ==
  ASSUME UInv
  PROVE  /\ msgs \in Seq(Message) /\ todo \in Seq(Calls)
         /\ acted \in Seq([name : {c.name : c \in Calls}, result : Outcomes2])
         /\ Len(msgs) \in Nat /\ Len(todo) \in Nat /\ Len(acted) \in Nat
         /\ DOMAIN msgs = 1..Len(msgs)
BY DEF UInv, TurnTypes

\* What the tool messages are when one message is added.
LEMMA ToolsFinite ==
  ASSUME msgs \in Seq(Message)
  PROVE  /\ ToolMessages \subseteq 1..Len(msgs) /\ IsFiniteSet(ToolMessages)
         /\ Cardinality(ToolMessages) \in Nat
         /\ \A i : IsFiniteSet({j \in ToolMessages : j <= i})
<1>1. ToolMessages \subseteq 1..Len(msgs)
  BY DEF ToolMessages
<1>2. IsFiniteSet(1..Len(msgs))
  <2>1. Len(msgs) \in Int
    OBVIOUS
  <2> QED BY <2>1, FS_Interval
<1>3. IsFiniteSet(ToolMessages)
  BY <1>1, <1>2, FS_Subset
<1>4. ASSUME NEW i PROVE IsFiniteSet({j \in ToolMessages : j <= i})
  <2>1. {j \in ToolMessages : j <= i} \in SUBSET ToolMessages
    OBVIOUS
  <2> QED BY <1>3, <2>1, FS_Subset
<1> QED BY <1>1, <1>3, <1>4, FS_CardinalityType

\* The rank of a tool message is that of an executed tool.
LEMMA RankIn ==
  ASSUME UInv, NEW i \in ToolMessages
  PROVE  Cardinality({j \in ToolMessages : j <= i}) \in 1..Len(acted)
<1>1. PICK R : R = {j \in ToolMessages : j <= i}
  OBVIOUS
<1>2. R \in SUBSET ToolMessages /\ i \in R
  BY <1>1, TurnNow, ToolsFinite
<1>3. IsFiniteSet(R) /\ Cardinality(R) <= Cardinality(ToolMessages) /\ Cardinality(R) \in Nat
  BY <1>2, TurnNow, ToolsFinite, FS_Subset, FS_CardinalityType
<1>4. Cardinality(R) # 0
  BY <1>2, <1>3, FS_EmptySet
<1>5. Cardinality(ToolMessages) = Len(acted)
  BY DEF UInv, Counted
<1> QED BY <1>1, <1>3, <1>4, <1>5, TurnNow

\* A message that is no result is added.
LEMMA SameTools ==
  ASSUME UInv, NEW m \in Message, m.role # "tool", msgs' = Append(msgs, m), UNCHANGED acted
  PROVE  Counted'
<1>1. /\ Len(msgs') = Len(msgs) + 1 /\ msgs'[Len(msgs) + 1] = m
      /\ \A i \in 1..Len(msgs) : msgs'[i] = msgs[i]
      /\ DOMAIN msgs' = 1..(Len(msgs) + 1)
  BY TurnNow
<1>2. ToolMessages' = ToolMessages
  BY <1>1, TurnNow DEF ToolMessages
<1> QED BY <1>1, <1>2, TurnNow, ToolsFinite DEF UInv, Counted

\* A result is added.
LEMMA OneMoreTool ==
  ASSUME UInv, NEW m \in Message, m.role = "tool", msgs' = Append(msgs, m),
         NEW a, acted' = Append(acted, a), a.result = m.result
  PROVE  Counted'
<1>1. PICK n \in Nat : n = Len(msgs)
  BY TurnNow
<1>2. /\ msgs'[n + 1] = m /\ DOMAIN msgs' = 1..(n + 1)
      /\ \A i \in 1..n : msgs'[i] = msgs[i]
  BY <1>1, TurnNow
<1>3. PICK T : T = ToolMessages
  OBVIOUS
<1>4. ToolMessages' = T \cup {n + 1}
  BY <1>1, <1>2, <1>3, TurnNow DEF ToolMessages
<1>5. T \subseteq 1..n /\ IsFiniteSet(T) /\ Cardinality(T) \in Nat /\ Cardinality(T) = Len(acted)
  BY <1>1, <1>3, TurnNow, ToolsFinite DEF UInv, Counted
<1>6. n + 1 \notin T
  BY <1>5
<1>7. Cardinality(ToolMessages') = Cardinality(T) + 1
  BY <1>4, <1>5, <1>6, FS_AddElement
<1>8. /\ Len(acted') = Len(acted) + 1 /\ acted'[Len(acted) + 1] = a
      /\ \A i \in 1..Len(acted) : acted'[i] = acted[i]
  BY TurnNow
<1>9. ASSUME NEW i \in ToolMessages'
      PROVE  msgs'[i].result = acted'[Cardinality({j \in ToolMessages' : j <= i})].result
  <2>1. CASE i = n + 1
    <3>0. \A j \in ToolMessages' : j <= i
      BY <1>4, <1>5, <2>1
    <3>1. {j \in ToolMessages' : j <= i} = ToolMessages'
      BY <3>0, Zenon
    <3>2. Cardinality({j \in ToolMessages' : j <= i}) = Len(acted) + 1
      BY <1>5, <1>7, <3>1
    <3>3. msgs'[i] = m /\ acted'[Cardinality({j \in ToolMessages' : j <= i})] = a
      BY <1>2, <1>8, <2>1, <3>2
    <3> QED BY <3>3
  <2>2. CASE i \in T
    <3>1. {j \in ToolMessages' : j <= i} = {j \in ToolMessages : j <= i}
      BY <1>3, <1>4, <1>5, <2>2
    <3>2. Cardinality({j \in ToolMessages : j <= i}) \in 1..Len(acted)
      BY <1>3, <2>2, RankIn
    <3>3. msgs[i].result = acted[Cardinality({j \in ToolMessages : j <= i})].result
      BY <1>3, <2>2 DEF UInv, Counted
    <3> QED BY <1>2, <1>5, <1>8, <2>2, <3>1, <3>2, <3>3
  <2> QED BY <1>4, <1>9, <2>1, <2>2
<1> QED BY <1>5, <1>7, <1>8, <1>9 DEF Counted

\* A fragment leaves every tool call with its three fields.
LEMMA NoToolCallWhole == Whole(NoToolCall)
<1>1. PICK e : e = ""
  OBVIOUS
<1>2. NoToolCall = [id |-> e, name |-> e, args |-> <<>>]
  BY <1>1, Zenon DEF NoToolCall
<1> QED BY <1>2 DEF Whole

LEMMA AccumulateOK ==
  ASSUME NEW ps, PartialsOK(ps), NEW f, f.index \in Nat
  PROVE  PartialsOK(Accumulate(ps, f))
<1>1. PICK n \in Nat : ps = [i \in 1..n |-> ps[i]] /\ \A i \in 1..n : Whole(ps[i])
  BY DEF PartialsOK
<1>2. Len(ps) = n
  <2>1. PICK X : X = {ps[i] : i \in 1..n}
    OBVIOUS
  <2>2. ps \in [1..n -> X]
    BY <1>1, <2>1
  <2> QED BY <2>2
<1>3. PICK k \in Nat \ {0} : k = f.index + 1
  OBVIOUS
<1>4. PICK z \in Nat : z = Max({Len(ps), f.index + 1})
  <2>1. \E x \in {n, k} : \A y \in {n, k} : x >= y
    BY <1>3
  <2>2. Max({n, k}) \in {n, k}
    BY <2>1, Zenon DEF Max
  <2> QED BY <1>2, <1>3, <2>2
<1>5. k <= z
  <2>1. \E x \in {n, k} : \A y \in {n, k} : x >= y
    BY <1>3
  <2>2. \A y \in {n, k} : Max({n, k}) >= y
    BY <2>1, Zenon DEF Max
  <2> QED BY <1>2, <1>3, <1>4, <2>2
<1>6. PICK g : g = [i \in 1..Max({Len(ps), f.index + 1}) |-> IF i <= Len(ps) THEN ps[i] ELSE NoToolCall]
  OBVIOUS
<1>7. DOMAIN g = 1..z /\ \A i \in 1..z : Whole(g[i])
  <2>1. g = [i \in 1..z |-> IF i <= n THEN ps[i] ELSE NoToolCall]
    BY <1>2, <1>4, <1>6
  <2>2. ASSUME NEW i \in 1..z PROVE Whole(g[i])
    BY <1>1, <2>1, NoToolCallWhole
  <2> QED BY <2>1, <2>2
<1>8. PICK a, b, c : Accumulate(ps, f) = [g EXCEPT ![k] = [id |-> a, name |-> b, args |-> c]]
  <2>1. Accumulate(ps, f) =
          [g EXCEPT ![f.index + 1] =
             [id |-> IF f.id = "" THEN g[f.index + 1].id ELSE f.id,
              name |-> IF f.name = "" THEN g[f.index + 1].name ELSE f.name,
              args |-> g[f.index + 1].args \o f.args]]
    BY <1>6, Zenon DEF Accumulate
  <2> QED BY <1>3, <2>1, Zenon
<1>9. PICK h : h = Accumulate(ps, f)
  OBVIOUS
<1>10. PICK r : r = [id |-> a, name |-> b, args |-> c]
  OBVIOUS
<1>11. Whole(r)
  BY <1>10 DEF Whole
<1>12. h = [g EXCEPT ![k] = r]
  BY <1>8, <1>9, <1>10, Zenon
<1>13. h = [i \in 1..z |-> h[i]] /\ \A i \in 1..z : h[i] = g[i] \/ h[i] = r
  BY <1>7, <1>12
<1>14. \A i \in 1..z : Whole(h[i])
  BY <1>7, <1>11, <1>13
<1>15. PartialsOK(h)
  BY <1>13, <1>14 DEF PartialsOK
<1> QED BY <1>9, <1>15

\* A set of natural numbers has a least element, and what holds at one number
\* and is handed on holds from there on.
LEMMA Least ==
  ASSUME NEW T, T \subseteq Nat, T # {}
  PROVE  \E x \in T : \A y \in T : x <= y
<1>1. PICK x \in T : \A y \in T : ~(<<y, x>> \in OpToRel(<, Nat))
  BY NatLessThanWellFounded, WFMin
<1>2. ASSUME NEW y \in T PROVE x <= y
  <2>1. <<y, x>> \in Nat \X Nat
    OBVIOUS
  <2>2. ~(y < x)
    BY <1>1, <2>1 DEF OpToRel
  <2> QED BY <2>2
<1> QED BY <1>2

LEMMA Climb ==
  ASSUME NEW S, 0 \in S, \A n \in Nat : n \in S => n + 1 \in S
  PROVE  Nat \subseteq S
<1> DEFINE T == {n \in Nat : n \notin S}
<1> SUFFICES ASSUME T # {} PROVE FALSE
  OBVIOUS
<1>1. PICK m \in T : \A y \in T : m <= y
  <2> HIDE DEF T
  <2>1. T \subseteq Nat
    BY DEF T
  <2> QED BY <2>1, Least
<1>2. m # 0 /\ m - 1 \in Nat
  BY <1>1
<1>3. m - 1 \in S
  BY <1>1, <1>2
<1>4. (m - 1) + 1 \in S
  BY <1>2, <1>3
<1> QED BY <1>1, <1>4

UpTo(ps, fs) ==
  LET upTo[k \in 0..Len(fs)] == IF k = 0 THEN ps ELSE Accumulate(upTo[k - 1], fs[k])
  IN  upTo

Solves(f, ps, fs, n) == f = [k \in 0..n |-> IF k = 0 THEN ps ELSE Accumulate(f[k - 1], fs[k])]

LEMMA UpToExists ==
  ASSUME NEW ps, NEW fs
  PROVE  \A n \in Nat : \E f : Solves(f, ps, fs, n)
<1> DEFINE S == {n \in Nat : \E f : f = [k \in 0..n |-> IF k = 0 THEN ps ELSE Accumulate(f[k - 1], fs[k])]}
<1>1. 0 \in S
  <2>1. PICK f : f = [k \in 0..0 |-> ps]
    OBVIOUS
  <2>2. f = [k \in 0..0 |-> IF k = 0 THEN ps ELSE Accumulate(f[k - 1], fs[k])]
    BY <2>1
  <2> QED BY <2>2
<1>2. ASSUME NEW n \in Nat, n \in S PROVE n + 1 \in S
  <2>1. PICK g : g = [k \in 0..n |-> IF k = 0 THEN ps ELSE Accumulate(g[k - 1], fs[k])]
    BY <1>2
  <2>2. PICK h : h = [k \in 0..(n + 1) |-> IF k = n + 1 THEN Accumulate(g[n], fs[k]) ELSE g[k]]
    OBVIOUS
  <2>3. (\A k \in 0..n : h[k] = g[k]) /\ h[n + 1] = Accumulate(g[n], fs[n + 1])
    BY <2>2
  <2>4. ASSUME NEW k \in 0..n PROVE h[k] = IF k = 0 THEN ps ELSE Accumulate(h[k - 1], fs[k])
    <3>1. CASE k = 0
      BY <2>1, <2>3, <3>1
    <3>2. CASE k # 0
      <4>1. h[k - 1] = g[k - 1]
        BY <2>3, <3>2
      <4>2. h[k] = Accumulate(g[k - 1], fs[k])
        BY <2>1, <2>3, <3>2
      <4> QED BY <3>2, <4>1, <4>2
    <3> QED BY <3>1, <3>2
  <2>5. h[n + 1] = Accumulate(h[(n + 1) - 1], fs[n + 1])
    <3>1. h[(n + 1) - 1] = g[n]
      BY <2>3
    <3> QED BY <2>3, <3>1
  <2>6. \A k \in 0..(n + 1) : h[k] = IF k = 0 THEN ps ELSE Accumulate(h[k - 1], fs[k])
    BY <2>4, <2>5
  <2>7. h = [k \in 0..(n + 1) |-> IF k = 0 THEN ps ELSE Accumulate(h[k - 1], fs[k])]
    BY <2>2, <2>6
  <2> QED BY <2>7
<1>3. Nat \subseteq S
  <2> HIDE DEF S
  <2> QED BY <1>1, <1>2, Climb
<1> QED BY <1>3 DEF Solves

\* The fragments of a chunk, one after the other.
LEMMA AccumulateAllOK ==
  ASSUME NEW ps, PartialsOK(ps), NEW X, NEW fs \in Seq(X), \A f \in X : f.index \in Nat
  PROVE  PartialsOK(AccumulateAll(ps, fs))
<1> DEFINE D == UpTo(ps, fs)
<1>1. D = CHOOSE f : f = [k \in 0..Len(fs) |-> IF k = 0 THEN ps ELSE Accumulate(f[k - 1], fs[k])]
  BY Zenon DEF UpTo
<1>2. PICK n \in Nat : n = Len(fs)
  OBVIOUS
<1>3. \E f : f = [k \in 0..Len(fs) |-> IF k = 0 THEN ps ELSE Accumulate(f[k - 1], fs[k])]
  <2>1. Len(fs) \in Nat
    OBVIOUS
  <2>2. \E f : Solves(f, ps, fs, Len(fs))
    BY <2>1, UpToExists
  <2> QED BY <2>2, Zenon DEF Solves
<1>4. D = [k \in 0..Len(fs) |-> IF k = 0 THEN ps ELSE Accumulate(D[k - 1], fs[k])]
  BY <1>1, <1>3, Zenon
<1>5. AccumulateAll(ps, fs) = D[Len(fs)]
  BY Zenon DEF AccumulateAll, UpTo
<1> HIDE DEF D
<1> DEFINE S == {k \in Nat : k <= n => PartialsOK(D[k])}
<1>6. 0 \in S
  BY <1>2, <1>4
<1>7. ASSUME NEW k \in Nat, k \in S PROVE k + 1 \in S
  <2> SUFFICES ASSUME k + 1 <= n PROVE PartialsOK(D[k + 1])
    OBVIOUS
  <2>1. PartialsOK(D[k])
    BY <1>7
  <2>2. k + 1 \in 0..Len(fs) /\ k + 1 # 0 /\ (k + 1) - 1 = k
    BY <1>2
  <2>3. D[k + 1] = Accumulate(D[k], fs[k + 1])
    BY <1>4, <2>2
  <2>4. fs[k + 1] \in X
    BY <1>2
  <2> QED BY <2>1, <2>3, <2>4, AccumulateOK
<1>8. Nat \subseteq S
  <2> HIDE DEF S
  <2> QED BY <1>6, <1>7, Climb
<1>9. PartialsOK(D[n])
  BY <1>8
<1> QED BY <1>2, <1>5, <1>9

LEMMA TurnInitial == Init => UInv
<1> SUFFICES ASSUME TurnInit PROVE UInv
  BY DEF Init
<1>1. /\ phase = "ask" /\ rounds = 0 /\ msgs = <<[role |-> "system"], [role |-> "user"]>>
      /\ todo = <<>> /\ trace = <<>> /\ acted = <<>> /\ stage = "running" /\ received = <<>>
      /\ partials = <<>>
  BY Zenon DEF TurnInit
<1>2. /\ [role |-> "system"] \in Message /\ [role |-> "user"] \in Message
  BY DEF Message
<1>3. msgs \in Seq(Message) /\ Len(msgs) = 2 /\ \A i \in 1..2 : msgs[i].role \in {"system", "user"}
  BY <1>1, <1>2
<1>4. PartialsOK(partials)
  <2>1. partials = [i \in 1..0 |-> partials[i]]
    BY <1>1
  <2>2. 0 \in Nat /\ \A i \in 1..0 : Whole(partials[i])
    OBVIOUS
  <2> QED BY <2>1, <2>2, Zenon DEF PartialsOK
<1>5. TurnTypes
  BY <1>1, <1>3, <1>4, TurnAssumption DEF TurnTypes
<1>6. Matched /\ Opened
  BY <1>3 DEF Matched, Opened, Assistant
<1>7. Counted
  <2>1. ToolMessages = {}
    BY <1>3 DEF ToolMessages
  <2>2. Cardinality(ToolMessages) = 0
    BY <2>1, FS_EmptySet
  <2> QED BY <1>1, <2>1, <2>2 DEF Counted
<1>8. Traced
  BY <1>1 DEF Traced
<1> QED BY <1>5, <1>6, <1>7, <1>8 DEF UInv

\* Steps that leave the tools and the conversation alone.
LEMMA ToolsRest ==
  ASSUME UInv, UNCHANGED <<rounds, msgs, todo, trace, acted>>,
         phase # "tools", phase' \in {"ask", "stream", "retry", "done"},
         stage' \in {"running", "tool_result", "responded"},
         received' \in Seq(Chunks), Len(received') <= MaxChunks, PartialsOK(partials')
  PROVE  UInv'
<1>1. TurnTypes'
  BY DEF UInv, TurnTypes
<1>2. Matched' /\ Opened'
  BY DEF UInv, Matched, Opened, Assistant, Due
<1>3. Counted'
  BY DEF UInv, Counted, ToolMessages
<1>4. Traced'
  BY DEF UInv, Traced, TurnTypes
<1> QED BY <1>1, <1>2, <1>3, <1>4 DEF UInv

LEMMA RespondSteps ==
  ASSUME UInv, FinalReply \/ TurnLimit \/ LoopFails \/ StreamEnds \/ StreamFails \/ RetryAnswers
  PROVE  UInv'
<1>1. /\ UNCHANGED <<rounds, msgs, todo, trace, acted, received, partials>>
      /\ phase # "tools" /\ phase' \in {"stream", "retry", "done"} /\ stage' \in {stage, "responded"}
  <2>1. CASE FinalReply \/ TurnLimit \/ LoopFails
    BY <2>1 DEF FinalReply, TurnLimit, LoopFails, Respond, streamed
  <2>2. CASE StreamEnds
    <3>1. /\ UNCHANGED <<rounds, msgs, todo, trace, acted, received, partials>> /\ phase = "stream"
          /\ \/ phase' = "done" /\ stage' = "responded"
             \/ phase' = "retry" /\ stage' = stage
      BY <2>2, Zenon DEF StreamEnds, Respond
    <3> QED BY <3>1
  <2>3. CASE StreamFails \/ RetryAnswers
    BY <2>3 DEF StreamFails, RetryAnswers, Respond, streamed
  <2> QED BY <2>1, <2>2, <2>3
<1>2. stage \in {"running", "tool_result", "responded"}
  BY <1>1 DEF UInv, TurnTypes
<1>3. received \in Seq(Chunks) /\ Len(received) <= MaxChunks /\ PartialsOK(partials)
  BY DEF UInv, TurnTypes
<1> QED BY <1>1, <1>2, <1>3, ToolsRest

LEMMA ReceiveStep ==
  ASSUME UInv, NEW c \in Chunks, NEW flush \in BOOLEAN, Receive(c, flush)
  PROVE  UInv'
<1>1. /\ phase = "stream" /\ phase' = phase /\ UNCHANGED <<rounds, msgs, todo, trace, acted>>
      /\ received' = Append(received, c) /\ Len(received) < MaxChunks
      /\ partials' = AccumulateAll(partials, c.calls)
      /\ (stage' = "running" \/ stage' = stage)
  BY Zenon DEF Receive
<1>2. stage \in {"running", "tool_result", "responded"}
  BY <1>1 DEF UInv, TurnTypes
<1>3. received' \in Seq(Chunks) /\ Len(received') <= MaxChunks
  BY <1>1, TurnAssumption DEF UInv, TurnTypes
<1>4. PICK X, fs : fs = c.calls /\ fs \in Seq(X) /\ \A f \in X : f.index \in Nat
  BY TurnAssumption
<1>5. PartialsOK(partials')
  BY <1>1, <1>4, AccumulateAllOK DEF UInv, TurnTypes
<1> QED BY <1>1, <1>2, <1>3, <1>5, ToolsRest

LEMMA ToolCallsStep ==
  ASSUME UInv, NEW n \in 1..MaxParallel, NEW cs \in [1..n -> Calls], ToolCalls(cs)
  PROVE  UInv'
<1>1. PICK m : m = [role |-> "assistant", calls |-> cs]
  OBVIOUS
<1>2. cs \in Seq(Calls) /\ Len(cs) = n /\ cs # <<>> /\ n \in Nat
  BY TurnAssumption
<1>3. m \in Message /\ m.role = "assistant" /\ m.calls = cs
  BY <1>1, <1>2 DEF Message
<1>4. /\ phase = "ask" /\ rounds < maxAgentTurns /\ phase' = "tools" /\ rounds' = rounds + 1
      /\ msgs' = Append(msgs, m) /\ todo' = cs
      /\ UNCHANGED <<trace, stage, acted, received, partials>>
  BY <1>1 DEF ToolCalls, streamed
<1>5. /\ Len(msgs') = Len(msgs) + 1 /\ msgs'[Len(msgs) + 1] = m /\ msgs' \in Seq(Message)
      /\ \A i \in 1..Len(msgs) : msgs'[i] = msgs[i]
  BY <1>3, <1>4, TurnNow
<1>6. TurnTypes'
  BY <1>2, <1>4, <1>5, TurnAssumption DEF UInv, TurnTypes
<1>7. todo = <<>> /\ Len(todo) = 0 /\ stage # "tool_call"
  BY <1>4 DEF UInv, TurnTypes
<1>8. \A i \in 1..Len(msgs) : Assistant(i) => Due(i) <= Len(msgs)
  BY <1>7, TurnNow DEF UInv, Opened
<1>9. ASSUME NEW i \in 1..Len(msgs), Assistant(i)
      PROVE  msgs[i].calls \in Seq(Calls) /\ Len(msgs[i].calls) \in Nat
  <2>1. msgs[i] \in Message
    BY TurnNow
  <2> QED BY <1>9, <2>1 DEF Message, Assistant
<1>10. Matched'
  <2> SUFFICES ASSUME NEW i \in 1..Len(msgs'), msgs'[i].role = "assistant",
                      NEW k \in 1..Len(msgs'[i].calls), i + k <= Len(msgs')
               PROVE  msgs'[i + k].role = "tool" /\ msgs'[i + k].id = msgs'[i].calls[k].id
    BY DEF Matched, Assistant
  <2>1. CASE i = Len(msgs) + 1
    BY <1>2, <1>3, <1>5, <2>1, TurnNow
  <2>2. CASE i \in 1..Len(msgs)
    <3>1. Assistant(i) /\ msgs'[i] = msgs[i]
      BY <1>5, <2>2 DEF Assistant
    <3>2. i + Len(msgs[i].calls) <= Len(msgs) /\ Len(msgs[i].calls) \in Nat
      BY <1>8, <1>9, <2>2, <3>1 DEF Due
    <3>3. i + k <= Len(msgs) /\ i + k \in 1..Len(msgs) /\ k \in 1..Len(msgs[i].calls)
      BY <2>2, <3>1, <3>2, TurnNow
    <3> QED BY <1>5, <2>2, <3>1, <3>3 DEF UInv, Matched
  <2> QED BY <1>5, <2>1, <2>2, TurnNow
<1>11. Opened'
  <2> SUFFICES ASSUME NEW i \in 1..Len(msgs'), msgs'[i].role = "assistant"
               PROVE  \/ i + Len(msgs'[i].calls) <= Len(msgs')
                      \/ /\ i + Len(msgs'[i].calls) = Len(msgs') + Len(todo')
                         /\ \A k \in 1..Len(todo') :
                              todo'[k] = msgs'[i].calls[(Len(msgs') - i) + k]
    BY DEF Opened, Assistant, Due
  <2>1. CASE i = Len(msgs) + 1
    <3>1. msgs'[i].calls = cs /\ Len(msgs') = i
      BY <1>3, <1>5, <2>1
    <3>2. \A k \in 1..n : (i - i) + k = k
      BY <1>2
    <3> QED BY <1>2, <1>4, <3>1, <3>2
  <2>2. CASE i \in 1..Len(msgs)
    <3>1. Assistant(i) /\ msgs'[i] = msgs[i]
      BY <1>5, <2>2 DEF Assistant
    <3>2. i + Len(msgs[i].calls) <= Len(msgs) /\ Len(msgs[i].calls) \in Nat
      BY <1>8, <1>9, <2>2, <3>1 DEF Due
    <3> QED BY <1>5, <3>1, <3>2, TurnNow
  <2> QED BY <1>5, <2>1, <2>2, TurnNow
<1>12. Counted'
  BY <1>3, <1>4, SameTools
<1>13. Traced'
  BY <1>4, <1>7 DEF UInv, Traced
<1> QED BY <1>6, <1>10, <1>11, <1>12, <1>13 DEF UInv

LEMMA AnnounceStep ==
  ASSUME UInv, AnnounceTool
  PROVE  UInv'
<1>1. /\ phase = "tools" /\ stage # "tool_call" /\ stage' = "tool_call"
      /\ trace' = Append(trace, [name |-> Head(todo).name, result |-> "pending"])
      /\ UNCHANGED <<phase, rounds, msgs, todo, received, partials, acted>>
  BY DEF AnnounceTool, streamed
<1>2. TurnTypes'
  BY <1>1 DEF UInv, TurnTypes
<1>3. Matched' /\ Opened'
  BY <1>1 DEF UInv, Matched, Opened, Assistant, Due
<1>4. Counted'
  BY <1>1 DEF UInv, Counted, ToolMessages
<1>5. Traced'
  BY <1>1 DEF UInv, Traced
<1> QED BY <1>2, <1>3, <1>4, <1>5 DEF UInv

LEMMA ToolResultStep ==
  ASSUME UInv, NEW out \in Outcomes2, ToolResult(out)
  PROVE  UInv'
<1>1. /\ phase = "tools" /\ stage = "tool_call"
      /\ acted' = Append(acted, [name |-> Head(todo).name, result |-> out])
      /\ trace' = [trace EXCEPT ![Len(trace)].result = out]
      /\ msgs' = Append(msgs, [role |-> "tool", id |-> Head(todo).id, result |-> out])
      /\ todo' = Tail(todo)
      /\ phase' = IF Len(todo) = 1 THEN "ask" ELSE "tools"
      /\ stage' = "tool_result"
      /\ UNCHANGED <<rounds, received, partials>>
  BY DEF ToolResult, streamed
<1>2. /\ todo \in Seq(Calls) /\ todo # <<>> /\ Head(todo) = todo[1] /\ todo[1] \in Calls
      /\ Len(todo) \in Nat /\ Len(todo) >= 1
  BY <1>1, TurnNow DEF UInv, TurnTypes
<1>3. /\ todo' \in Seq(Calls) /\ Len(todo') = Len(todo) - 1
      /\ \A k \in 1..Len(todo') : todo'[k] = todo[k + 1]
  BY <1>1, <1>2
<1>4. PICK h : h = todo[1]
  OBVIOUS
<1>5. PICK m : m = [role |-> "tool", id |-> h.id, result |-> out]
  OBVIOUS
<1>6. PICK a : a = [name |-> h.name, result |-> out]
  OBVIOUS
<1>7. m \in Message /\ m.role = "tool" /\ m.id = h.id /\ m.result = out
  BY <1>2, <1>4, <1>5 DEF Message
<1>8. a \in [name : {c.name : c \in Calls}, result : Outcomes2] /\ a.result = out
  BY <1>2, <1>4, <1>6
<1>9. msgs' = Append(msgs, m) /\ acted' = Append(acted, a)
  BY <1>1, <1>2, <1>4, <1>5, <1>6, Zenon
<1>10. /\ Len(msgs') = Len(msgs) + 1 /\ msgs'[Len(msgs) + 1] = m /\ msgs' \in Seq(Message)
       /\ \A i \in 1..Len(msgs) : msgs'[i] = msgs[i]
  BY <1>7, <1>9, TurnNow
<1>11. acted' \in Seq([name : {c.name : c \in Calls}, result : Outcomes2])
  BY <1>8, <1>9, TurnNow
<1>12. TurnTypes'
  <2>1. phase' = "tools" <=> todo' # <<>>
    <3>1. CASE Len(todo) = 1
      <4>1. Len(todo') = 0
        BY <1>3, <3>1
      <4>2. todo' = <<>>
        BY <1>3, <4>1
      <4> QED BY <1>1, <3>1, <4>2
    <3>2. CASE Len(todo) # 1
      <4>1. Len(todo') # 0
        BY <1>2, <1>3, <3>2
      <4>2. todo' # <<>>
        BY <4>1
      <4> QED BY <1>1, <3>2, <4>2
    <3> QED BY <3>1, <3>2
  <2>2. phase' \in {"ask", "tools"}
    BY <1>1
  <2> QED BY <1>1, <1>3, <1>10, <1>11, <2>1, <2>2 DEF UInv, TurnTypes
<1>13. ASSUME NEW i \in 1..Len(msgs), Assistant(i)
       PROVE  /\ msgs[i].calls \in Seq(Calls) /\ Len(msgs[i].calls) \in Nat
              /\ \/ i + Len(msgs[i].calls) <= Len(msgs)
                 \/ /\ i + Len(msgs[i].calls) = Len(msgs) + Len(todo)
                    /\ \A k \in 1..Len(todo) : todo[k] = msgs[i].calls[(Len(msgs) - i) + k]
  <2>1. msgs[i] \in Message
    BY TurnNow
  <2>2. msgs[i].calls \in Seq(Calls)
    BY <1>13, <2>1 DEF Message, Assistant
  <2> QED BY <1>13, <2>2 DEF UInv, Opened, Due
<1>14. Matched'
  <2> SUFFICES ASSUME NEW i \in 1..Len(msgs'), msgs'[i].role = "assistant",
                      NEW k \in 1..Len(msgs'[i].calls), i + k <= Len(msgs')
               PROVE  msgs'[i + k].role = "tool" /\ msgs'[i + k].id = msgs'[i].calls[k].id
    BY DEF Matched, Assistant
  <2>1. i \in 1..Len(msgs)
    BY <1>7, <1>10, TurnNow
  <2>2. Assistant(i) /\ msgs'[i] = msgs[i]
    BY <1>10, <2>1 DEF Assistant
  <2>3. PICK L \in Nat, C \in Nat, D \in Nat :
          L = Len(msgs) /\ C = Len(msgs[i].calls) /\ D = Len(todo)
    BY <1>2, <1>13, <2>1, <2>2, TurnNow
  <2>4. k \in 1..C /\ i \in 1..L /\ i + k <= L + 1
    BY <1>10, <2>1, <2>2, <2>3
  <2>5. CASE i + k <= L
    <3>1. i + k \in 1..L
      BY <2>4, <2>5
    <3> QED BY <1>10, <2>1, <2>2, <2>3, <2>4, <2>5, <3>1 DEF UInv, Matched
  <2>6. CASE i + k = L + 1
    <3>1. ~(i + C <= L)
      BY <2>4, <2>6
    <3>2. \A q \in 1..Len(todo) : todo[q] = msgs[i].calls[(Len(msgs) - i) + q]
      BY <1>13, <2>1, <2>2, <2>3, <3>1
    <3>3. 1 \in 1..Len(todo)
      BY <1>2
    <3>4. todo[1] = msgs[i].calls[(Len(msgs) - i) + 1]
      BY <3>2, <3>3
    <3>5. (Len(msgs) - i) + 1 = k
      BY <2>3, <2>4, <2>6
    <3>6. h = msgs[i].calls[k]
      BY <1>4, <3>4, <3>5
    <3>7. msgs'[i + k] = m
      BY <1>10, <2>3, <2>6
    <3> QED BY <1>7, <2>2, <3>6, <3>7
  <2> QED BY <2>4, <2>5, <2>6
<1>15. Opened'
  <2> SUFFICES ASSUME NEW i \in 1..Len(msgs'), msgs'[i].role = "assistant"
               PROVE  \/ i + Len(msgs'[i].calls) <= Len(msgs')
                      \/ /\ i + Len(msgs'[i].calls) = Len(msgs') + Len(todo')
                         /\ \A k \in 1..Len(todo') :
                              todo'[k] = msgs'[i].calls[(Len(msgs') - i) + k]
    BY DEF Opened, Assistant, Due
  <2>1. i \in 1..Len(msgs)
    BY <1>7, <1>10, TurnNow
  <2>2. Assistant(i) /\ msgs'[i] = msgs[i]
    BY <1>10, <2>1 DEF Assistant
  <2>3. PICK L \in Nat, C \in Nat, D \in Nat :
          L = Len(msgs) /\ C = Len(msgs[i].calls) /\ D = Len(todo)
    BY <1>2, <1>13, <2>1, <2>2, TurnNow
  <2>4. Len(msgs') = L + 1 /\ Len(todo') = D - 1 /\ i \in 1..L /\ D >= 1
    BY <1>2, <1>3, <1>10, <2>1, <2>3
  <2>5. CASE i + C <= L
    BY <2>2, <2>3, <2>4, <2>5
  <2>6. CASE i + C = L + D /\ \A k \in 1..D : todo[k] = msgs[i].calls[(L - i) + k]
    <3>1. i + C = (L + 1) + (D - 1)
      BY <2>3, <2>4, <2>6
    <3>2. ASSUME NEW k \in 1..(D - 1) PROVE todo'[k] = msgs[i].calls[((L + 1) - i) + k]
      <4>1. todo'[k] = todo[k + 1]
        BY <1>3, <2>4
      <4>2. k + 1 \in 1..D /\ (L - i) + (k + 1) = ((L + 1) - i) + k
        BY <2>3, <2>4
      <4>3. todo[k + 1] = msgs[i].calls[(L - i) + (k + 1)]
        BY <2>6, <4>2
      <4> QED BY <4>1, <4>2, <4>3
    <3> QED BY <2>2, <2>3, <2>4, <3>1, <3>2
  <2> QED BY <1>13, <2>1, <2>2, <2>3, <2>5, <2>6
<1>16. Counted'
  BY <1>7, <1>8, <1>9, OneMoreTool
<1>17. Traced'
  <2>1. PICK q : q = [name |-> h.name, result |-> "pending"]
    OBVIOUS
  <2>2. trace = Append(acted, q)
    BY <1>1, <1>2, <1>4, <2>1 DEF UInv, Traced
  <2>3. PICK n \in Nat : n = Len(acted)
    BY TurnNow
  <2>4. PICK r : r = [q EXCEPT !.result = out]
    OBVIOUS
  <2>5. r = a
    BY <1>6, <2>1, <2>4
  <2>6. Len(trace) = n + 1 /\ trace[n + 1] = q
    BY <2>2, <2>3, TurnNow
  <2>7. trace' = [trace EXCEPT ![n + 1] = a]
    BY <1>1, <2>4, <2>5, <2>6
  <2>8. trace' = Append(acted, a)
    <3>1. PICK X : acted \in Seq(X) /\ a \in X
      BY <1>8, TurnNow
    <3>2. PICK U : U = X \cup {q}
      OBVIOUS
    <3>3. acted \in Seq(U) /\ q \in U /\ a \in U
      <4>1. X \subseteq U
        BY <3>2
      <4> QED BY <3>1, <3>2, <4>1, SeqMonotonic
    <3>4. PICK s : s = Append(acted, q)
      OBVIOUS
    <3>5. s \in Seq(U) /\ Len(s) = n + 1 /\ \A i \in 1..n : s[i] = acted[i]
      BY <2>3, <3>3, <3>4
    <3>6. PICK t : t = Append(acted, a)
      OBVIOUS
    <3>7. t \in Seq(U) /\ Len(t) = n + 1 /\ t[n + 1] = a /\ \A i \in 1..n : t[i] = acted[i]
      BY <2>3, <3>3, <3>6
    <3>8. PICK v : v = [s EXCEPT ![n + 1] = a]
      OBVIOUS
    <3>9. v \in Seq(U) /\ Len(v) = n + 1 /\ v[n + 1] = a /\ \A i \in 1..n : v[i] = s[i]
      <4>1. n + 1 \in 1..Len(s)
        BY <3>5
      <4>2. /\ [s EXCEPT ![n + 1] = a] \in Seq(U) /\ Len([s EXCEPT ![n + 1] = a]) = Len(s)
            /\ \A j \in 1..Len(s) : [s EXCEPT ![n + 1] = a][j] = IF j = n + 1 THEN a ELSE s[j]
        BY <3>3, <3>5, <4>1, ExceptSeq
      <4> QED BY <3>5, <3>8, <4>1, <4>2
    <3>10. \A i \in 1..Len(v) : v[i] = t[i]
      BY <3>5, <3>7, <3>9
    <3>11. v = t
      BY <3>7, <3>9, <3>10, SeqEqual
    <3> QED BY <2>2, <2>7, <3>4, <3>6, <3>8, <3>11
  <2>9. trace' = acted' /\ stage' # "tool_call"
    BY <1>1, <1>9, <2>8
  <2> QED BY <2>9 DEF Traced
<1> QED BY <1>12, <1>14, <1>15, <1>16, <1>17 DEF UInv

LEMMA TurnStepKeeps == UInv /\ [Next]_consoleVars => UInv'
<1> SUFFICES ASSUME UInv, [Next]_consoleVars PROVE UInv'
  OBVIOUS
<1>1. CASE TurnNext
  <2>1. CASE FinalReply \/ TurnLimit \/ LoopFails \/ StreamEnds \/ StreamFails \/ RetryAnswers
    BY <2>1, RespondSteps
  <2>2. CASE \E n \in 1..MaxParallel : \E cs \in [1..n -> Calls] : ToolCalls(cs)
    BY <2>2, ToolCallsStep
  <2>3. CASE AnnounceTool
    BY <2>3, AnnounceStep
  <2>4. CASE \E out \in {"text", "error"} : ToolResult(out)
    BY <2>4, ToolResultStep DEF Outcomes2
  <2>5. CASE \E c \in Chunks, flush \in BOOLEAN : Receive(c, flush)
    BY <2>5, ReceiveStep
  <2> QED BY <1>1, <2>1, <2>2, <2>3, <2>4, <2>5, Zenon DEF TurnNext
<1>2. CASE UNCHANGED turnVars
  BY <1>2 DEF turnVars, UInv, TurnTypes, Matched, Opened, Counted, Traced, Assistant, Due, ToolMessages
<1> QED BY <1>1, <1>2, Zenon DEF Next, consoleVars, DaemonStep, SettingsStep, TurnStep, StreamStep,
        HarnessStep

\* The provider and the user are told the same of the tools, and what happened:
\* every request of the agent loop answers each tool call by one tool message
\* with its id, in order, whatever became of the tool, and the results are those
\* of the tools that were executed; the trace of the message shows the same
\* tools and results, also when the answer comes from the stream in the end
\* (agent_loop.go, composeAgentDirectReply, streamWithProfile).
THEOREM ToolsHonestHolds == Spec => []ToolsHonest
<1>1. UInv => ToolsHonest
  <2> SUFFICES ASSUME UInv PROVE ToolsHonest
    OBVIOUS
  <2>1. TurnTypeOK
    <3>1. \A i \in DOMAIN msgs : msgs[i].role \in {"system", "user", "assistant", "tool"}
      <4> SUFFICES ASSUME NEW i \in DOMAIN msgs
                   PROVE  msgs[i].role \in {"system", "user", "assistant", "tool"}
        OBVIOUS
      <4>1. msgs[i] \in Message
        BY TurnNow
      <4> QED BY <4>1 DEF Message
    <3>2. \A i \in DOMAIN partials : DOMAIN partials[i] = {"id", "name", "args"}
      <4>1. PICK n \in Nat : /\ partials = [i \in 1..n |-> partials[i]]
                             /\ \A i \in 1..n : Whole(partials[i])
        BY DEF UInv, TurnTypes, PartialsOK
      <4>2. DOMAIN partials = 1..n
        BY <4>1
      <4> QED BY <4>1, <4>2 DEF Whole
    <3> QED BY <3>1, <3>2 DEF UInv, TurnTypes, TurnTypeOK
  <2>2. ConversationWellFormed
    <3> SUFFICES ASSUME phase = "ask" PROVE ConversationWellFormed
      BY DEF ConversationWellFormed
    <3>1. todo = <<>> /\ Len(todo) = 0
      BY DEF UInv, TurnTypes
    <3>2. ASSUME NEW i \in DOMAIN msgs, Assistant(i), NEW k \in DOMAIN msgs[i].calls
          PROVE  /\ i + k \in DOMAIN msgs
                 /\ msgs[i + k].role = "tool" /\ msgs[i + k].id = msgs[i].calls[k].id
      <4>1. i \in 1..Len(msgs) /\ msgs[i] \in Message
        BY TurnNow
      <4>2. msgs[i].calls \in Seq(Calls)
        BY <3>2, <4>1 DEF Message, Assistant
      <4>3. k \in 1..Len(msgs[i].calls) /\ Len(msgs[i].calls) \in Nat
        BY <4>2
      <4>4. i + Len(msgs[i].calls) <= Len(msgs)
        BY <3>1, <3>2, <4>1, TurnNow DEF UInv, Opened, Due
      <4>5. i + k \in 1..Len(msgs) /\ i + k <= Len(msgs)
        BY <4>1, <4>3, <4>4, TurnNow
      <4> QED BY <3>2, <4>1, <4>3, <4>5, TurnNow DEF UInv, Matched
    <3>3. Counted
      BY DEF UInv
    <3> QED BY <3>2, <3>3 DEF ConversationWellFormed, Counted
  <2>3. TraceHonest
    BY DEF UInv, TurnTypes, Traced, TraceHonest
  <2> QED BY <2>1, <2>2, <2>3 DEF ToolsHonest
<1> QED BY <1>1, TurnInitial, TurnStepKeeps, PTL DEF Spec

-----------------------------------------------------------------------------
(***************************************************************************)
(* AgentTurn: the streamed answer                                          *)
(***************************************************************************)

\* What FlattenSeq gives when a sequence is added.
Joined(a, b) == a \o b
Flattens(f, s, n) == f = [i \in 1..n |-> IF i = 1 THEN s[i] ELSE Joined(f[i - 1], s[i])]

LEMMA FlattensExists ==
  ASSUME NEW s
  PROVE  \A n \in Nat : \E f : Flattens(f, s, n)
<1> DEFINE S == {n \in Nat : \E f : f = [i \in 1..n |-> IF i = 1 THEN s[i] ELSE Joined(f[i - 1], s[i])]}
<1>1. 0 \in S
  <2>1. PICK f : f = [i \in 1..0 |-> s[i]]
    OBVIOUS
  <2>2. f = [i \in 1..0 |-> IF i = 1 THEN s[i] ELSE Joined(f[i - 1], s[i])]
    BY <2>1
  <2> QED BY <2>2
<1>2. ASSUME NEW n \in Nat, n \in S PROVE n + 1 \in S
  <2>1. PICK g : g = [i \in 1..n |-> IF i = 1 THEN s[i] ELSE Joined(g[i - 1], s[i])]
    BY <1>2
  <2>0. PICK v : v = IF n = 0 THEN s[n + 1] ELSE Joined(g[n], s[n + 1])
    OBVIOUS
  <2>2. PICK h : h = [i \in 1..(n + 1) |->
                        IF i = n + 1 THEN v ELSE g[i]]
    OBVIOUS
  <2>3. (\A i \in 1..n : h[i] = g[i]) /\ h[n + 1] = v
    BY <2>2
  <2>4. ASSUME NEW i \in 1..n PROVE h[i] = IF i = 1 THEN s[i] ELSE Joined(h[i - 1], s[i])
    <3>1. CASE i = 1
      BY <2>1, <2>3, <3>1
    <3>2. CASE i # 1
      <4>1. h[i - 1] = g[i - 1]
        BY <2>3, <3>2
      <4>2. h[i] = Joined(g[i - 1], s[i])
        BY <2>1, <2>3, <3>2
      <4> QED BY <3>2, <4>1, <4>2
    <3> QED BY <3>1, <3>2
  <2>5. h[n + 1] = IF n + 1 = 1 THEN s[n + 1] ELSE Joined(h[(n + 1) - 1], s[n + 1])
    <3>1. CASE n = 0
      BY <2>0, <2>3, <3>1
    <3>2. CASE n # 0
      <4>1. h[(n + 1) - 1] = g[n]
        BY <2>3, <3>2
      <4> QED BY <2>0, <2>3, <3>2, <4>1
    <3> QED BY <3>1, <3>2
  <2>6. \A i \in 1..(n + 1) : h[i] = IF i = 1 THEN s[i] ELSE Joined(h[i - 1], s[i])
    BY <2>4, <2>5
  <2>7. h = [i \in 1..(n + 1) |-> IF i = 1 THEN s[i] ELSE Joined(h[i - 1], s[i])]
    BY <2>2, <2>6
  <2> QED BY <2>7
<1>3. Nat \subseteq S
  <2> HIDE DEF S
  <2> QED BY <1>1, <1>2, Climb
<1> QED BY <1>3 DEF Flattens

LEMMA FlattenIs ==
  ASSUME NEW s, Len(s) \in Nat, Len(s) # 0
  PROVE  \E f : Flattens(f, s, Len(s)) /\ FlattenSeq(s) = f[Len(s)]
<1> DEFINE D == CHOOSE f : f = [i \in 1..Len(s) |-> IF i = 1 THEN s[i] ELSE Joined(f[i - 1], s[i])]
<1>1. \E f : f = [i \in 1..Len(s) |-> IF i = 1 THEN s[i] ELSE Joined(f[i - 1], s[i])]
  <2>1. \E f : Flattens(f, s, Len(s))
    BY FlattensExists
  <2> QED BY <2>1, Zenon DEF Flattens
<1>2. D = [i \in 1..Len(s) |-> IF i = 1 THEN s[i] ELSE Joined(D[i - 1], s[i])]
  BY <1>1, Zenon
<1>3. FlattenSeq(s) = D[Len(s)]
  BY Zenon DEF FlattenSeq, Joined
<1> HIDE DEF D
<1> QED BY <1>2, <1>3 DEF Flattens

LEMMA FlattenEmpty == FlattenSeq(<<>>) = <<>>
BY DEF FlattenSeq

LEMMA FlattensTypes ==
  ASSUME NEW X, NEW s \in Seq(Seq(X)), NEW n \in Nat, n <= Len(s), NEW f, Flattens(f, s, n)
  PROVE  \A k \in 1..n : f[k] \in Seq(X)
<1> DEFINE S == {k \in Nat : k + 1 <= n => f[k + 1] \in Seq(X)}
<1>0. f = [i \in 1..n |-> IF i = 1 THEN s[i] ELSE Joined(f[i - 1], s[i])]
  BY DEF Flattens
<1>1. \A i \in 1..n : s[i] \in Seq(X)
  OBVIOUS
<1>2. 0 \in S
  BY <1>0, <1>1
<1>3. ASSUME NEW k \in Nat, k \in S PROVE k + 1 \in S
  <2> SUFFICES ASSUME (k + 1) + 1 <= n PROVE f[(k + 1) + 1] \in Seq(X)
    OBVIOUS
  <2>1. f[k + 1] \in Seq(X)
    BY <1>3
  <2>2. PICK j \in 1..n : j = (k + 1) + 1 /\ j # 1 /\ j - 1 = k + 1
    OBVIOUS
  <2>3. f[j] = Joined(f[j - 1], s[j])
    BY <1>0, <2>2
  <2> QED BY <1>1, <2>1, <2>2, <2>3 DEF Joined
<1>4. Nat \subseteq S
  <2> HIDE DEF S
  <2> QED BY <1>2, <1>3, Climb
<1>5. ASSUME NEW k \in 1..n PROVE f[k] \in Seq(X)
  <2>1. PICK j \in Nat : j + 1 = k
    OBVIOUS
  <2>2. j \in S
    BY <1>4
  <2> QED BY <2>1, <2>2, SMTT(30)
<1> QED BY <1>5

LEMMA FlattenType ==
  ASSUME NEW X, NEW s \in Seq(Seq(X))
  PROVE  FlattenSeq(s) \in Seq(X)
<1>1. CASE Len(s) = 0
  <2>1. s = <<>>
    BY <1>1
  <2>2. FlattenSeq(s) = <<>>
    BY <2>1, FlattenEmpty, Zenon
  <2> QED BY <2>2
<1>2. CASE Len(s) # 0
  <2>1. PICK f : Flattens(f, s, Len(s)) /\ FlattenSeq(s) = f[Len(s)]
    BY <1>2, FlattenIs
  <2>2. Len(s) \in 1..Len(s)
    BY <1>2
  <2> QED BY <2>1, <2>2, FlattensTypes
<1> QED BY <1>1, <1>2

LEMMA FlattenAppend ==
  ASSUME NEW X, NEW s \in Seq(Seq(X)), NEW x \in Seq(X)
  PROVE  FlattenSeq(Append(s, x)) = FlattenSeq(s) \o x
<1>0. PICK n \in Nat : n = Len(s)
  OBVIOUS
<1>1. PICK t : n = Len(s) /\ t = Append(s, x)
  BY <1>0
<1>2. t \in Seq(Seq(X)) /\ Len(t) = n + 1 /\ t[n + 1] = x /\ \A i \in 1..n : t[i] = s[i]
  BY <1>1
<1>3. PICK g : Flattens(g, t, n + 1) /\ FlattenSeq(t) = g[n + 1]
  <2>1. Len(t) \in Nat /\ Len(t) # 0
    BY <1>2
  <2>2. PICK g : Flattens(g, t, Len(t)) /\ FlattenSeq(t) = g[Len(t)]
    BY <2>1, FlattenIs
  <2> QED BY <1>2, <2>2, Zenon
<1>4. g = [i \in 1..(n + 1) |-> IF i = 1 THEN t[i] ELSE Joined(g[i - 1], t[i])]
  BY <1>3 DEF Flattens
<1>5. CASE n = 0
  <2>1. s = <<>> /\ g[n + 1] = x
    BY <1>1, <1>2, <1>4, <1>5
  <2>2. <<>> \o x = x
    OBVIOUS
  <2> QED BY <1>1, <1>3, <2>1, <2>2, FlattenEmpty
<1>6. CASE n # 0
  <2>1. PICK f : Flattens(f, s, n) /\ FlattenSeq(s) = f[n]
    BY <1>1, <1>6, FlattenIs
  <2>2. f = [i \in 1..n |-> IF i = 1 THEN s[i] ELSE Joined(f[i - 1], s[i])]
    BY <2>1 DEF Flattens
  <2> DEFINE S == {k \in Nat : k + 1 <= n => g[k + 1] = f[k + 1]}
  <2>3. 0 \in S
    BY <1>2, <1>4, <2>2
  <2>4. ASSUME NEW k \in Nat, k \in S PROVE k + 1 \in S
    <3> SUFFICES ASSUME (k + 1) + 1 <= n PROVE g[(k + 1) + 1] = f[(k + 1) + 1]
      OBVIOUS
    <3>1. g[k + 1] = f[k + 1]
      BY <2>4
    <3>2. PICK j \in 1..n : j = (k + 1) + 1 /\ j # 1 /\ j - 1 = k + 1
      OBVIOUS
    <3>3. f[j] = Joined(f[j - 1], s[j])
      BY <2>2, <3>2
    <3>4. g[j] = Joined(g[j - 1], t[j])
      BY <1>4, <3>2
    <3>5. s[j] = t[j]
      BY <1>2
    <3> QED BY <3>1, <3>2, <3>3, <3>4, <3>5
  <2>5. Nat \subseteq S
    <3> HIDE DEF S
    <3> QED BY <2>3, <2>4, Climb
  <2>6. g[n] = f[n]
    <3>1. PICK j \in Nat : j + 1 = n
      BY <1>6
    <3>2. j \in S
      BY <2>5
    <3> QED BY <3>1, <3>2
  <2>7. g[n + 1] = Joined(g[n], x)
    <3>1. n + 1 \in 1..(n + 1) /\ n + 1 # 1 /\ (n + 1) - 1 = n
      BY <1>6
    <3> QED BY <1>2, <1>4, <3>1
  <2> QED BY <1>1, <1>3, <2>1, <2>6, <2>7, Zenon DEF Joined
<1> QED BY <1>5, <1>6

\* A bounded set that is not empty has its least and its greatest element.
LEMMA EndsOf ==
  ASSUME NEW n \in Nat, NEW S, S \subseteq 1..n, S # {}
  PROVE  /\ Min(S) \in S /\ \A i \in S : Min(S) <= i
         /\ Max(S) \in S /\ \A i \in S : i <= Max(S)
<1>1. \E x \in S : \A y \in S : x <= y
  <2>1. S \subseteq Nat
    OBVIOUS
  <2> QED BY <2>1, Least
<1>2. Min(S) \in S /\ \A y \in S : Min(S) <= y
  BY <1>1, Zenon DEF Min
<1>3. \E x \in S : \A y \in S : x >= y
  <2> DEFINE T == {k \in Nat : \A y \in S : y <= k}
  <2>2. n \in T
    OBVIOUS
  <2>3. PICK x \in T : \A y \in T : x <= y
    <3> HIDE DEF T
    <3>1. T \subseteq Nat
      BY DEF T
    <3> QED BY <2>2, <3>1, Least
  <2>4. x \in S
    <3> SUFFICES ASSUME x \notin S PROVE FALSE
      OBVIOUS
    <3>1. \A y \in S : y <= x /\ y # x /\ y \in Nat
      BY <2>3
    <3>2. PICK y \in S : TRUE
      OBVIOUS
    <3>3. x \in Nat /\ x # 0
      BY <2>3, <3>1, <3>2
    <3>4. x - 1 \in T
      BY <3>1, <3>3
    <3> QED BY <2>3, <3>3, <3>4
  <2> QED BY <2>3, <2>4
<1>4. Max(S) \in S /\ \A y \in S : Max(S) >= y
  BY <1>3, Zenon DEF Max
<1> QED BY <1>2, <1>4

\* The fragments of tool calls, their arguments, ids and names.
Silence == ""
Frags == UNION {Range(c.calls) : c \in Chunks}
ArgPieces == UNION {Range(f.args) : f \in Frags}
Sayings == {f.id : f \in Frags} \cup {f.name : f \in Frags} \cup {Silence}
Said(s) == {n \in 1..Len(s) : s[n] # Silence}

LEMMA SeqIn ==
  ASSUME NEW A, NEW B, A \subseteq B, NEW s \in Seq(A)
  PROVE  s \in Seq(B)
OBVIOUS

LEMMA FragTypes ==
  /\ \A c \in Chunks : c.calls \in Seq(Frags)
  /\ \A f \in Frags : /\ f.index \in Nat /\ f.args \in Seq(ArgPieces)
                      /\ f.id \in Sayings /\ f.name \in Sayings
<1>1. ASSUME NEW c \in Chunks PROVE c.calls \in Seq(Frags)
  <2>1. PICK A, s : A = Range(c.calls) /\ s = c.calls
    OBVIOUS
  <2>2. A \subseteq Frags
    BY <2>1 DEF Frags
  <2>3. s \in Seq(A)
    BY <2>1, TurnAssumption
  <2> QED BY <2>1, <2>2, <2>3, SeqIn
<1>2. ASSUME NEW f \in Frags PROVE f.index \in Nat /\ f.args \in Seq(ArgPieces)
  <2>1. PICK c \in Chunks : f \in Range(c.calls)
    BY DEF Frags
  <2>2. f.index \in Nat /\ f.args \in Seq(Range(f.args))
    BY <2>1, TurnAssumption
  <2>3. PICK A, s : A = Range(f.args) /\ s = f.args
    OBVIOUS
  <2>4. A \subseteq ArgPieces
    BY <2>3 DEF ArgPieces
  <2> QED BY <2>2, <2>3, <2>4, SeqIn
<1>3. \A f \in Frags : f.id \in Sayings /\ f.name \in Sayings
  BY DEF Sayings
<1> QED BY <1>1, <1>2, <1>3

LEMMA LastSaidIs ==
  ASSUME NEW X, NEW s \in Seq(X)
  PROVE  LastSaid(s) = IF Said(s) = {} THEN Silence ELSE s[Max(Said(s))]
<1>1. DOMAIN s = 1..Len(s)
  OBVIOUS
<1> QED BY <1>1, Zenon DEF LastSaid, Said, Silence

LEMMA LastSaidAppend ==
  ASSUME NEW X, NEW s \in Seq(X), NEW x \in X
  PROVE  LastSaid(Append(s, x)) = IF x = Silence THEN LastSaid(s) ELSE x
<1>1. PICK n \in Nat : n = Len(s)
  OBVIOUS
<1>2. PICK t : t = Append(s, x)
  OBVIOUS
<1>3. t \in Seq(X) /\ Len(t) = n + 1 /\ t[n + 1] = x /\ \A i \in 1..n : t[i] = s[i]
  BY <1>1, <1>2
<1>4. PICK S, T : S = Said(s) /\ T = Said(t)
  OBVIOUS
<1>5. /\ LastSaid(s) = IF S = {} THEN Silence ELSE s[Max(S)]
      /\ LastSaid(t) = IF T = {} THEN Silence ELSE t[Max(T)]
  BY <1>3, <1>4, LastSaidIs
<1>6. S \subseteq 1..n
  BY <1>1, <1>4 DEF Said
<1>7. CASE x = Silence
  <2>1. S = T
    BY <1>1, <1>3, <1>4, <1>7 DEF Said
  <2>2. S # {} => Max(S) \in 1..n
    BY <1>6, EndsOf
  <2>3. LastSaid(t) = LastSaid(s)
    BY <1>3, <1>5, <2>1, <2>2
  <2> QED BY <1>2, <1>7, <2>3
<1>8. CASE x # Silence
  <2>1. T = S \cup {n + 1}
    BY <1>1, <1>3, <1>4, <1>8 DEF Said
  <2>2. T \subseteq 1..(n + 1) /\ T # {}
    BY <1>6, <2>1
  <2>3. PICK v : v = Max(T) /\ v \in T /\ \A i \in T : i <= v
    <3>1. n + 1 \in Nat
      OBVIOUS
    <3> QED BY <2>2, <3>1, EndsOf
  <2>4. v = n + 1
    <3>1. n + 1 <= v /\ v \in 1..(n + 1)
      BY <2>1, <2>2, <2>3
    <3> QED BY <3>1
  <2> QED BY <1>2, <1>3, <1>5, <1>8, <2>2, <2>3, <2>4
<1> QED BY <1>7, <1>8

LEMMA LastSaidNothing == LastSaid(<<>>) = Silence
<1>1. <<>> \in Seq({}) /\ Len(<<>>) = 0
  OBVIOUS
<1>2. Said(<<>>) = {}
  BY <1>1 DEF Said
<1>3. LastSaid(<<>>) = IF Said(<<>>) = {} THEN Silence ELSE <<>>[Max(Said(<<>>))]
  BY <1>1, LastSaidIs
<1> QED BY <1>2, <1>3

\* What one more fragment adds to each call.
Grew(F, f, G, i) ==
  /\ ArgsOf(F, i) \in Seq(ArgPieces)
  /\ ArgsOf(G, i) = ArgsOf(F, i) \o (IF f.index = i THEN f.args ELSE <<>>)
  /\ LastSaid(IdsOf(G, i)) =
       IF f.index = i /\ f.id # Silence THEN f.id ELSE LastSaid(IdsOf(F, i))
  /\ LastSaid(NamesOf(G, i)) =
       IF f.index = i /\ f.name # Silence THEN f.name ELSE LastSaid(NamesOf(F, i))

\* One more fragment.
LEMMA OfAppend ==
  ASSUME NEW F \in Seq(Frags), NEW f \in Frags, NEW i, NEW G, G = Append(F, f)
  PROVE  Grew(F, f, G, i)
<1>1. PICK n \in Nat : n = Len(F)
  OBVIOUS
<1>2. /\ DOMAIN F = 1..n /\ DOMAIN G = 1..(n + 1) /\ G[n + 1] = f
      /\ \A k \in 1..n : G[k] = F[k] /\ F[k] \in Frags
  BY <1>1
<1>3. /\ ArgsOf(F, i) \in Seq(ArgPieces)
      /\ ArgsOf(G, i) = ArgsOf(F, i) \o (IF f.index = i THEN f.args ELSE <<>>)
  <2>1. PICK s, t, x : /\ s = [k \in DOMAIN F |-> IF F[k].index = i THEN F[k].args ELSE <<>>]
                       /\ t = [k \in DOMAIN G |-> IF G[k].index = i THEN G[k].args ELSE <<>>]
                       /\ x = IF f.index = i THEN f.args ELSE <<>>
    OBVIOUS
  <2>2. x \in Seq(ArgPieces)
    BY <2>1, FragTypes
  <2>3. \A k \in 1..n : s[k] \in Seq(ArgPieces)
    BY <1>2, <2>1, FragTypes
  <2>4. s \in Seq(Seq(ArgPieces)) /\ Len(s) = n
    BY <1>2, <2>1, <2>3
  <2>5. t = Append(s, x)
    <3>1. t = [k \in 1..(n + 1) |-> IF k = n + 1 THEN x ELSE s[k]]
      BY <1>2, <2>1
    <3> QED BY <2>4, <3>1
  <2>6. ArgsOf(F, i) = FlattenSeq(s) /\ ArgsOf(G, i) = FlattenSeq(t)
    BY <2>1, Zenon DEF ArgsOf
  <2>7. FlattenSeq(s) \in Seq(ArgPieces)
    BY <2>4, FlattenType
  <2>8. FlattenSeq(Append(s, x)) = FlattenSeq(s) \o x
    BY <2>2, <2>4, FlattenAppend
  <2> QED BY <2>1, <2>5, <2>6, <2>7, <2>8
<1>4. LastSaid(IdsOf(G, i)) = IF f.index = i /\ f.id # Silence THEN f.id ELSE LastSaid(IdsOf(F, i))
  <2>1. PICK s, t, x : /\ s = [k \in DOMAIN F |-> IF F[k].index = i THEN F[k].id ELSE Silence]
                       /\ t = [k \in DOMAIN G |-> IF G[k].index = i THEN G[k].id ELSE Silence]
                       /\ x = IF f.index = i THEN f.id ELSE Silence
    OBVIOUS
  <2>2. x \in Sayings /\ Silence \in Sayings
    BY <2>1, FragTypes DEF Sayings
  <2>3. \A k \in 1..n : s[k] \in Sayings
    BY <1>2, <2>1, <2>2, FragTypes
  <2>4. s \in Seq(Sayings) /\ Len(s) = n
    BY <1>2, <2>1, <2>3
  <2>5. t = Append(s, x)
    <3>1. t = [k \in 1..(n + 1) |-> IF k = n + 1 THEN x ELSE s[k]]
      BY <1>2, <2>1
    <3> QED BY <2>4, <3>1
  <2>6. IdsOf(F, i) = s /\ IdsOf(G, i) = t
    BY <2>1, Zenon DEF IdsOf, Silence
  <2>7. LastSaid(Append(s, x)) = IF x = Silence THEN LastSaid(s) ELSE x
    BY <2>2, <2>4, LastSaidAppend
  <2> QED BY <2>1, <2>5, <2>6, <2>7
<1>5. LastSaid(NamesOf(G, i)) =
        IF f.index = i /\ f.name # Silence THEN f.name ELSE LastSaid(NamesOf(F, i))
  <2>1. PICK s, t, x : /\ s = [k \in DOMAIN F |-> IF F[k].index = i THEN F[k].name ELSE Silence]
                       /\ t = [k \in DOMAIN G |-> IF G[k].index = i THEN G[k].name ELSE Silence]
                       /\ x = IF f.index = i THEN f.name ELSE Silence
    OBVIOUS
  <2>2. x \in Sayings /\ Silence \in Sayings
    BY <2>1, FragTypes DEF Sayings
  <2>3. \A k \in 1..n : s[k] \in Sayings
    BY <1>2, <2>1, <2>2, FragTypes
  <2>4. s \in Seq(Sayings) /\ Len(s) = n
    BY <1>2, <2>1, <2>3
  <2>5. t = Append(s, x)
    <3>1. t = [k \in 1..(n + 1) |-> IF k = n + 1 THEN x ELSE s[k]]
      BY <1>2, <2>1
    <3> QED BY <2>4, <3>1
  <2>6. NamesOf(F, i) = s /\ NamesOf(G, i) = t
    BY <2>1, Zenon DEF NamesOf, Silence
  <2>7. LastSaid(Append(s, x)) = IF x = Silence THEN LastSaid(s) ELSE x
    BY <2>2, <2>4, LastSaidAppend
  <2> QED BY <2>1, <2>5, <2>6, <2>7
<1> QED BY <1>3, <1>4, <1>5, Zenon DEF Grew

\* What has been put together of each call, when these fragments were received.
CallAt(ps, n, i) == IF i <= n THEN ps[i] ELSE NoToolCall
Put3(p, F, i) ==
  /\ p.args = ArgsOf(F, i - 1) /\ p.id = LastSaid(IdsOf(F, i - 1))
  /\ p.name = LastSaid(NamesOf(F, i - 1))
BuiltTo(ps, F, n) ==
  /\ ps = [i \in 1..n |-> ps[i]]
  /\ \A i \in Nat \ {0} : Put3(CallAt(ps, n, i), F, i)
  /\ \A k \in DOMAIN F : F[k].index + 1 <= n
Built(ps, F) == \E n \in Nat : BuiltTo(ps, F, n)

LEMMA NoToolCallFields ==
  NoToolCall.args = <<>> /\ NoToolCall.id = Silence /\ NoToolCall.name = Silence
<1>1. PICK e : e = Silence
  OBVIOUS
<1>2. NoToolCall = [id |-> e, name |-> e, args |-> <<>>]
  BY <1>1, Zenon DEF NoToolCall, Silence
<1>3. NoToolCall.args = <<>> /\ NoToolCall.id = e /\ NoToolCall.name = e
  BY <1>2
<1> QED BY <1>1, <1>3

LEMMA BuiltNone == Built(<<>>, <<>>)
<1>1. <<>> = [i \in 1..0 |-> <<>>[i]] /\ DOMAIN <<>> = {}
  OBVIOUS
<1>2. ASSUME NEW i \in Nat \ {0} PROVE Put3(CallAt(<<>>, 0, i), <<>>, i)
  <2>1. CallAt(<<>>, 0, i) = NoToolCall
    BY DEF CallAt
  <2>2. ArgsOf(<<>>, i - 1) = <<>>
    <3>1. [n \in DOMAIN <<>> |-> IF <<>>[n].index = i - 1 THEN <<>>[n].args ELSE <<>>] = <<>>
      BY <1>1
    <3> QED BY <3>1, FlattenEmpty, Zenon DEF ArgsOf
  <2>3. IdsOf(<<>>, i - 1) = <<>> /\ NamesOf(<<>>, i - 1) = <<>>
    <3>1. \A e : [n \in DOMAIN <<>> |-> IF <<>>[n].index = i - 1 THEN <<>>[n].id ELSE e] = <<>>
      BY <1>1
    <3>2. \A e : [n \in DOMAIN <<>> |-> IF <<>>[n].index = i - 1 THEN <<>>[n].name ELSE e] = <<>>
      BY <1>1
    <3> QED BY <3>1, <3>2, Zenon DEF IdsOf, NamesOf
  <2> QED BY <2>1, <2>2, <2>3, NoToolCallFields, LastSaidNothing, Zenon DEF Put3
<1>3. BuiltTo(<<>>, <<>>, 0)
  BY <1>1, <1>2, Zenon DEF BuiltTo
<1> QED BY <1>3 DEF Built

\* One more fragment.
LEMMA BuiltOne ==
  ASSUME NEW F \in Seq(Frags), NEW f \in Frags, NEW ps, Built(ps, F), NEW G, G = Append(F, f)
  PROVE  Built(Accumulate(ps, f), G)
<1>1. PICK n \in Nat : BuiltTo(ps, F, n)
  BY DEF Built
<1>2. ps = [i \in 1..n |-> ps[i]] /\ (\A k \in DOMAIN F : F[k].index + 1 <= n)
  BY <1>1 DEF BuiltTo
<1>3. Len(ps) = n
  <2>1. PICK X : X = {ps[i] : i \in 1..n}
    OBVIOUS
  <2>2. ps \in [1..n -> X]
    BY <1>2, <2>1
  <2> QED BY <2>2
<1>4. PICK k \in Nat \ {0} : k = f.index + 1 /\ k - 1 = f.index
  BY FragTypes
<1>5. PICK z \in Nat : z = Max({Len(ps), f.index + 1}) /\ k <= z /\ n <= z
  <2>1. \E x \in {n, k} : \A y \in {n, k} : x >= y
    BY <1>4
  <2>2. Max({n, k}) \in {n, k} /\ \A y \in {n, k} : Max({n, k}) >= y
    BY <2>1, Zenon DEF Max
  <2>3. PICK z : z = Max({n, k}) /\ z \in {n, k} /\ \A y \in {n, k} : z >= y
    BY <2>2
  <2> QED BY <1>3, <1>4, <2>3
<1>6. PICK g : g = [i \in 1..Max({Len(ps), f.index + 1}) |-> IF i <= Len(ps) THEN ps[i] ELSE NoToolCall]
  OBVIOUS
<1>7. g = [i \in 1..z |-> CallAt(ps, n, i)]
  <2>1. g = [i \in 1..z |-> IF i <= n THEN ps[i] ELSE NoToolCall]
    BY <1>3, <1>5, <1>6
  <2> QED BY <2>1, Zenon DEF CallAt
<1>8. PICK q : q = CallAt(ps, n, k)
  OBVIOUS
<1>9. g[k] = q
  BY <1>4, <1>5, <1>7, <1>8
<1>10. PICK h : h = Accumulate(ps, f)
  OBVIOUS
<1>11. PICK a, b, c : /\ a = IF f.id = Silence THEN q.id ELSE f.id
                      /\ b = IF f.name = Silence THEN q.name ELSE f.name
                      /\ c = q.args \o f.args
  OBVIOUS
<1>12. PICK r : r = [id |-> a, name |-> b, args |-> c]
  OBVIOUS
<1>13. h = [g EXCEPT ![k] = r]
  <2>1. h = [g EXCEPT ![f.index + 1] =
               [id |-> IF f.id = "" THEN g[f.index + 1].id ELSE f.id,
                name |-> IF f.name = "" THEN g[f.index + 1].name ELSE f.name,
                args |-> g[f.index + 1].args \o f.args]]
    BY <1>6, <1>10, Zenon DEF Accumulate
  <2> QED BY <1>4, <1>9, <1>11, <1>12, <2>1, Zenon DEF Silence
<1>14. r.id = a /\ r.name = b /\ r.args = c
  BY <1>12
<1>15. h = [i \in 1..z |-> h[i]] /\ h[k] = r /\ \A i \in 1..z : i # k => h[i] = CallAt(ps, n, i)
  <2>1. k \in 1..z /\ DOMAIN g = 1..z
    BY <1>4, <1>5, <1>7
  <2>2. h = [i \in 1..z |-> IF i = k THEN r ELSE g[i]]
    BY <1>13, <2>1
  <2>3. DOMAIN h = 1..z /\ h[k] = r
    BY <2>1, <2>2
  <2>4. h = [i \in 1..z |-> h[i]]
    BY <2>2, <2>3
  <2>5. ASSUME NEW i \in 1..z, i # k PROVE h[i] = CallAt(ps, n, i)
    <3>1. h[i] = g[i]
      BY <2>2, <2>5
    <3>2. g[i] = CallAt(ps, n, i)
      BY <1>7
    <3> QED BY <3>1, <3>2
  <2> QED BY <2>3, <2>4, <2>5
<1>16. ASSUME NEW i \in Nat \ {0} PROVE Put3(CallAt(h, z, i), G, i)
  <2>1. /\ ArgsOf(F, i - 1) \in Seq(ArgPieces)
        /\ ArgsOf(G, i - 1) = ArgsOf(F, i - 1) \o (IF f.index = i - 1 THEN f.args ELSE <<>>)
        /\ LastSaid(IdsOf(G, i - 1)) =
             IF f.index = i - 1 /\ f.id # Silence THEN f.id ELSE LastSaid(IdsOf(F, i - 1))
        /\ LastSaid(NamesOf(G, i - 1)) =
             IF f.index = i - 1 /\ f.name # Silence THEN f.name ELSE LastSaid(NamesOf(F, i - 1))
    <3>1. PICK j : j = i - 1
      OBVIOUS
    <3>2. Grew(F, f, G, j)
      BY OfAppend
    <3> QED BY <3>1, <3>2, Zenon DEF Grew
  <2>2. Put3(CallAt(ps, n, i), F, i)
    BY <1>1 DEF BuiltTo
  <2>3. CASE i = k
    <3>1. CallAt(h, z, i) = r
      BY <1>5, <1>15, <2>3 DEF CallAt
    <3>2. q.args = ArgsOf(F, i - 1) /\ q.id = LastSaid(IdsOf(F, i - 1)) /\ q.name = LastSaid(NamesOf(F, i - 1))
      BY <1>8, <2>2, <2>3 DEF Put3
    <3>3. f.index = i - 1
      BY <1>4, <2>3
    <3>4. r.args = ArgsOf(G, i - 1) /\ r.id = LastSaid(IdsOf(G, i - 1)) /\ r.name = LastSaid(NamesOf(G, i - 1))
      BY <1>11, <1>14, <2>1, <3>2, <3>3, Zenon
    <3> QED BY <3>1, <3>4 DEF Put3
  <2>4. CASE i # k
    <3>1. CallAt(h, z, i) = CallAt(ps, n, i)
      <4>1. CASE i <= z
        <5>1. CallAt(h, z, i) = h[i] /\ i \in 1..z
          BY <4>1 DEF CallAt
        <5> QED BY <1>15, <2>4, <5>1
      <4>2. CASE ~(i <= z)
        <5>1. ~(i <= n)
          BY <1>5, <4>2
        <5> QED BY <4>2, <5>1 DEF CallAt
      <4> QED BY <4>1, <4>2
    <3>2. f.index # i - 1
      BY <1>4, <2>4
    <3>3. ArgsOf(F, i - 1) \o <<>> = ArgsOf(F, i - 1)
      BY <2>1
    <3>4. /\ ArgsOf(G, i - 1) = ArgsOf(F, i - 1) /\ LastSaid(IdsOf(G, i - 1)) = LastSaid(IdsOf(F, i - 1))
          /\ LastSaid(NamesOf(G, i - 1)) = LastSaid(NamesOf(F, i - 1))
      BY <2>1, <3>2, <3>3, Zenon
    <3> QED BY <2>2, <3>1, <3>4, Zenon DEF Put3
  <2> QED BY <2>3, <2>4
<1>17. \A j \in DOMAIN G : G[j].index + 1 <= z
  <2>1. PICK m \in Nat : m = Len(F)
    OBVIOUS
  <2>2. DOMAIN G = 1..(m + 1) /\ G[m + 1] = f /\ (\A j \in 1..m : G[j] = F[j] /\ j \in DOMAIN F /\ F[j] \in Frags)
    BY <2>1
  <2>3. ASSUME NEW j \in 1..m PROVE G[j].index + 1 <= z
    <3>1. F[j].index + 1 <= n /\ F[j].index \in Nat
      BY <1>2, <2>2, FragTypes
    <3> QED BY <1>5, <2>2, <3>1
  <2>4. G[m + 1].index + 1 <= z
    BY <1>4, <1>5, <2>2
  <2> QED BY <2>2, <2>3, <2>4
<1>18. BuiltTo(h, G, z)
  BY <1>15, <1>16, <1>17 DEF BuiltTo
<1> QED BY <1>10, <1>18 DEF Built

\* The fragments of a chunk.
LEMMA BuiltAll ==
  ASSUME NEW F \in Seq(Frags), NEW fs \in Seq(Frags), NEW ps, Built(ps, F)
  PROVE  Built(AccumulateAll(ps, fs), F \o fs)
<1> DEFINE D == UpTo(ps, fs)
<1>1. D = CHOOSE f : f = [k \in 0..Len(fs) |-> IF k = 0 THEN ps ELSE Accumulate(f[k - 1], fs[k])]
  BY Zenon DEF UpTo
<1>2. PICK n \in Nat : n = Len(fs)
  OBVIOUS
<1>3. \E f : f = [k \in 0..Len(fs) |-> IF k = 0 THEN ps ELSE Accumulate(f[k - 1], fs[k])]
  <2>1. Len(fs) \in Nat
    OBVIOUS
  <2>2. \E f : Solves(f, ps, fs, Len(fs))
    BY <2>1, UpToExists
  <2> QED BY <2>2, Zenon DEF Solves
<1>4. D = [k \in 0..Len(fs) |-> IF k = 0 THEN ps ELSE Accumulate(D[k - 1], fs[k])]
  BY <1>1, <1>3, Zenon
<1>5. AccumulateAll(ps, fs) = D[Len(fs)]
  BY Zenon DEF AccumulateAll, UpTo
<1> HIDE DEF D
<1> DEFINE H(k) == F \o SubSeq(fs, 1, k)
<1> DEFINE S == {k \in Nat : k <= n => Built(D[k], H(k))}
<1>6. 0 \in S
  <2>1. SubSeq(fs, 1, 0) = <<>>
    OBVIOUS
  <2>2. F \o <<>> = F
    OBVIOUS
  <2>3. H(0) = F
    BY <2>1, <2>2
  <2>4. D[0] = ps
    BY <1>2, <1>4
  <2>5. Built(D[0], H(0))
    BY <2>3, <2>4, Zenon
  <2> QED BY <2>5
<1>7. ASSUME NEW k \in Nat, k \in S PROVE k + 1 \in S
  <2> SUFFICES ASSUME k + 1 <= n PROVE Built(D[k + 1], H(k + 1))
    OBVIOUS
  <2>1. PICK E : E = H(k)
    OBVIOUS
  <2>2. Built(D[k], E)
    BY <1>7, <2>1
  <2>3. k + 1 \in 0..Len(fs) /\ k + 1 # 0 /\ (k + 1) - 1 = k
    BY <1>2
  <2>4. D[k + 1] = Accumulate(D[k], fs[k + 1])
    BY <1>4, <2>3
  <2>5. fs[k + 1] \in Frags
    BY <1>2
  <2>6. E \in Seq(Frags)
    BY <1>2, <2>1
  <2>7. H(k + 1) = Append(E, fs[k + 1])
    <3>1. PICK m \in Nat : m = Len(F)
      OBVIOUS
    <3>2. PICK u, v : u = SubSeq(fs, 1, k) /\ v = SubSeq(fs, 1, k + 1)
      OBVIOUS
    <3>3. u \in Seq(Frags) /\ Len(u) = k /\ (\A i \in 1..k : u[i] = fs[i])
      BY <1>2, <3>2
    <3>4. v \in Seq(Frags) /\ Len(v) = k + 1 /\ (\A i \in 1..(k + 1) : v[i] = fs[i])
      BY <1>2, <3>2
    <3>5. v = Append(u, fs[k + 1])
      BY <2>5, <3>3, <3>4
    <3>6. F \o Append(u, fs[k + 1]) = Append(F \o u, fs[k + 1])
      BY <2>5, <3>3
    <3> QED BY <2>1, <3>2, <3>5, <3>6
  <2>8. Built(Accumulate(D[k], fs[k + 1]), Append(E, fs[k + 1]))
    BY <2>2, <2>5, <2>6, BuiltOne
  <2> QED BY <2>4, <2>7, <2>8, Zenon
<1>8. Nat \subseteq S
  <2> HIDE DEF S
  <2> QED BY <1>6, <1>7, Climb
<1>9. Built(D[n], H(n))
  BY <1>8
<1>10. H(n) = F \o fs
  <2>1. SubSeq(fs, 1, n) = fs
    BY <1>2
  <2> QED BY <2>1
<1> QED BY <1>2, <1>5, <1>9, <1>10, Zenon

-----------------------------------------------------------------------------
\* The text and the fragments of these chunks.
Chars == UNION {Range(c.text) : c \in Chunks}
TextOf(r) == FlattenSeq([k \in DOMAIN r |-> r[k].text])
FragmentsOf(r) == FlattenSeq([k \in DOMAIN r |-> r[k].calls])

LEMMA TextNow == SentText = TextOf(received) /\ Fragments = FragmentsOf(received)
BY Zenon DEF SentText, Fragments, TextOf, FragmentsOf

LEMMA TextType == \A c \in Chunks : c.text \in Seq(Chars)
<1> SUFFICES ASSUME NEW c \in Chunks PROVE c.text \in Seq(Chars)
  OBVIOUS
<1>1. PICK t : t = c.text
  OBVIOUS
<1>2. t \in Seq(Range(t))
  BY <1>1, TurnAssumption
<1>3. Range(t) \subseteq Chars
  BY <1>1, Zenon DEF Chars
<1>4. t \in Seq(Chars)
  BY <1>2, <1>3
<1> QED BY <1>1, <1>4

LEMMA NothingReceived == TextOf(<<>>) = <<>> /\ FragmentsOf(<<>>) = <<>>
<1>1. [k \in DOMAIN <<>> |-> <<>>[k].text] = <<>> /\ [k \in DOMAIN <<>> |-> <<>>[k].calls] = <<>>
  OBVIOUS
<1> QED BY <1>1, FlattenEmpty, Zenon DEF TextOf, FragmentsOf

\* One more chunk.
LEMMA TextAppend ==
  ASSUME NEW r \in Seq(Chunks), NEW c \in Chunks
  PROVE  TextOf(r) \in Seq(Chars) /\ TextOf(Append(r, c)) = TextOf(r) \o c.text
<1>1. PICK n \in Nat : n = Len(r)
  OBVIOUS
<1>2. PICK v : v = Append(r, c)
  OBVIOUS
<1>3. /\ DOMAIN r = 1..n /\ DOMAIN v = 1..(n + 1) /\ v[n + 1] = c
      /\ \A k \in 1..n : v[k] = r[k] /\ r[k] \in Chunks
  BY <1>1, <1>2
<1>4. PICK s, t, x : /\ s = [k \in DOMAIN r |-> r[k].text]
                     /\ t = [k \in DOMAIN v |-> v[k].text]
                     /\ x = c.text
  OBVIOUS
<1>5. x \in Seq(Chars) /\ \A k \in 1..n : s[k] \in Seq(Chars)
  BY <1>3, <1>4, TextType
<1>6. s \in Seq(Seq(Chars)) /\ Len(s) = n
  BY <1>3, <1>4, <1>5
<1>7. t = Append(s, x)
  <2>1. t = [k \in 1..(n + 1) |-> IF k = n + 1 THEN x ELSE s[k]]
    BY <1>3, <1>4
  <2> QED BY <1>6, <2>1
<1>8. TextOf(r) = FlattenSeq(s) /\ TextOf(v) = FlattenSeq(t)
  BY <1>4, Zenon DEF TextOf
<1>9. FlattenSeq(s) \in Seq(Chars)
  BY <1>6, FlattenType
<1>10. FlattenSeq(Append(s, x)) = FlattenSeq(s) \o x
  BY <1>5, <1>6, FlattenAppend
<1> QED BY <1>2, <1>4, <1>7, <1>8, <1>9, <1>10

\* What a text began with it still begins with when more is appended.
LEMMA PrefixesGrow ==
  ASSUME NEW s \in Seq(Chars), NEW x \in Seq(Chars), NEW t, t = s \o x
  PROVE  Prefixes(s) \subseteq Prefixes(t) /\ t \in Prefixes(t)
<1>1. PICK n \in Nat, m \in Nat : n = Len(s) /\ m = Len(t) /\ n <= m /\ t \in Seq(Chars)
  OBVIOUS
<1>2. ASSUME NEW p \in Prefixes(s) PROVE p \in Prefixes(t)
  <2>1. PICK l \in 0..n : p = SubSeq(s, 1, l)
    BY <1>1 DEF Prefixes
  <2>2. SubSeq(s, 1, l) = SubSeq(t, 1, l)
    <3>1. SubSeq(s, 1, l) = [i \in 1..l |-> s[i]]
      BY <1>1
    <3>2. SubSeq(t, 1, l) = [i \in 1..l |-> t[i]]
      BY <1>1
    <3>3. \A i \in 1..l : s[i] = t[i]
      BY <1>1
    <3> QED BY <3>1, <3>2, <3>3
  <2>3. l \in 0..m
    BY <1>1
  <2> QED BY <1>1, <2>1, <2>2, <2>3 DEF Prefixes
<1>3. t = SubSeq(t, 1, m)
  BY <1>1
<1> QED BY <1>1, <1>2, <1>3 DEF Prefixes

Shown(s) == normalizeAssistantText(Trim(s))

LEMMA FragmentsAppend ==
  ASSUME NEW r \in Seq(Chunks), NEW c \in Chunks
  PROVE  FragmentsOf(r) \in Seq(Frags) /\ FragmentsOf(Append(r, c)) = FragmentsOf(r) \o c.calls
<1>1. PICK n \in Nat : n = Len(r)
  OBVIOUS
<1>2. PICK v : v = Append(r, c)
  OBVIOUS
<1>3. /\ DOMAIN r = 1..n /\ DOMAIN v = 1..(n + 1) /\ v[n + 1] = c
      /\ \A k \in 1..n : v[k] = r[k] /\ r[k] \in Chunks
  BY <1>1, <1>2
<1>4. PICK s, t, x : /\ s = [k \in DOMAIN r |-> r[k].calls]
                     /\ t = [k \in DOMAIN v |-> v[k].calls]
                     /\ x = c.calls
  OBVIOUS
<1>5. x \in Seq(Frags) /\ \A k \in 1..n : s[k] \in Seq(Frags)
  BY <1>3, <1>4, FragTypes
<1>6. s \in Seq(Seq(Frags)) /\ Len(s) = n
  BY <1>3, <1>4, <1>5
<1>7. t = Append(s, x)
  <2>1. t = [k \in 1..(n + 1) |-> IF k = n + 1 THEN x ELSE s[k]]
    BY <1>3, <1>4
  <2> QED BY <1>6, <2>1
<1>8. FragmentsOf(r) = FlattenSeq(s) /\ FragmentsOf(v) = FlattenSeq(t)
  BY <1>4, Zenon DEF FragmentsOf
<1>9. FlattenSeq(s) \in Seq(Frags)
  BY <1>6, FlattenType
<1>10. FlattenSeq(Append(s, x)) = FlattenSeq(s) \o x
  BY <1>5, <1>6, FlattenAppend
<1> QED BY <1>2, <1>4, <1>7, <1>8, <1>9, <1>10

-----------------------------------------------------------------------------
\* What streamWithProfile has put together is what was received; nothing is
\* shown of a stream before it begins, only a part of it while it comes, and
\* all of it once it is the answer; what was returned is what had been received
\* by then.
Assembled ==
  /\ received \in Seq(Chunks)
  /\ text = TextOf(received) /\ text \in Seq(Chars)
  /\ FragmentsOf(received) \in Seq(Frags) /\ Built(partials, FragmentsOf(received))
Showing ==
  /\ phase \in {"ask", "tools"} /\ stage = "running" => content = <<>>
  /\ phase = "stream" /\ stage = "running" /\ content # <<>> =>
       \E s \in Prefixes(text) : content = Shown(s)
  /\ result # NoResult /\ Shown(text) # <<>> => phase = "done" /\ content = Shown(text)
Returned ==
  /\ phase \in {"ask", "tools", "stream"} => result = NoResult
  /\ result # NoResult => result = [text |-> Trim(text), calls |-> partials]
WInv == Assembled /\ Showing /\ Returned

LEMMA StreamInitial == Init => WInv
<1> SUFFICES ASSUME TurnInit PROVE WInv
  BY DEF Init
<1>1. /\ phase = "ask" /\ stage = "running" /\ content = <<>> /\ received = <<>>
      /\ text = <<>> /\ partials = <<>> /\ result = NoResult
  BY Zenon DEF TurnInit
<1>2. Built(partials, FragmentsOf(received))
  BY <1>1, NothingReceived, BuiltNone, Zenon
<1>3. text = TextOf(received) /\ FragmentsOf(received) = <<>>
  BY <1>1, NothingReceived, Zenon
<1>4. Assembled
  <2>1. <<>> \in Seq(Chunks) /\ <<>> \in Seq(Chars) /\ <<>> \in Seq(Frags)
    OBVIOUS
  <2> QED BY <1>1, <1>2, <1>3, <2>1, Zenon DEF Assembled
<1>5. Showing /\ Returned
  BY <1>1 DEF Showing, Returned
<1> QED BY <1>4, <1>5 DEF WInv

LEMMA StreamReceive ==
  ASSUME WInv, NEW c \in Chunks, NEW flush \in BOOLEAN, Receive(c, flush)
  PROVE  WInv'
<1>1. /\ phase = "stream" /\ phase' = phase /\ result' = result
      /\ received' = Append(received, c)
      /\ partials' = AccumulateAll(partials, c.calls)
      /\ text' = Gathered(text, c)
  BY Zenon DEF Receive
<1>2. \/ content' = Shown(text') /\ stage' = "running"
      \/ content' = content /\ stage' = stage
  BY Zenon DEF Receive, Shown
<1>3. PICK r, w : r = Append(received, c) /\ w = text'
  OBVIOUS
<1>4. received \in Seq(Chunks) /\ text \in Seq(Chars) /\ text = TextOf(received)
  BY DEF WInv, Assembled
<1>5. c.text \in Seq(Chars) /\ TextOf(r) = text \o c.text
  BY <1>3, <1>4, TextAppend, TextType
<1>6. w = TextOf(r) /\ w \in Seq(Chars) /\ w = text \o c.text
  BY <1>1, <1>3, <1>4, <1>5 DEF Gathered
<1>7. FragmentsOf(r) \in Seq(Frags) /\ Built(partials', FragmentsOf(r))
  <2>1. PICK F, fs : F = FragmentsOf(received) /\ fs = c.calls
    OBVIOUS
  <2>2. F \in Seq(Frags) /\ Built(partials, F)
    BY <2>1 DEF WInv, Assembled
  <2>3. fs \in Seq(Frags)
    BY <2>1, FragTypes
  <2>4. FragmentsOf(r) = F \o fs
    BY <1>3, <1>4, <2>1, FragmentsAppend
  <2>5. Built(AccumulateAll(partials, fs), F \o fs)
    BY <2>2, <2>3, BuiltAll
  <2>6. F \o fs \in Seq(Frags)
    BY <2>2, <2>3
  <2> QED BY <1>1, <2>1, <2>4, <2>5, <2>6, Zenon
<1>8. r \in Seq(Chunks)
  BY <1>3, <1>4
<1>9. Assembled'
  <2>1. received' = r /\ text' = w
    BY <1>1, <1>3
  <2> QED BY <1>6, <1>7, <1>8, <2>1, Zenon DEF Assembled
<1>10. Prefixes(text) \subseteq Prefixes(w) /\ w \in Prefixes(w)
  BY <1>4, <1>5, <1>6, PrefixesGrow
<1>11. result = NoResult /\ result' = NoResult
  BY <1>1 DEF WInv, Returned
<1>12. Showing'
  <2>1. CASE content' = Shown(text') /\ stage' = "running"
    <3>1. content' = Shown(w) /\ text' = w /\ phase' = "stream"
      BY <1>1, <1>3, <2>1
    <3> QED BY <1>10, <1>11, <3>1 DEF Showing
  <2>2. CASE content' = content /\ stage' = stage
    <3> SUFFICES ASSUME stage = "running", content # <<>>
                 PROVE  \E s \in Prefixes(w) : content = Shown(s)
      BY <1>1, <1>3, <1>11, <2>2 DEF Showing
    <3>1. \E s \in Prefixes(text) : content = Shown(s)
      BY <1>1 DEF WInv, Showing
    <3> QED BY <1>10, <3>1
  <2> QED BY <1>2, <2>1, <2>2
<1>13. Returned'
  BY <1>1 DEF WInv, Returned
<1> QED BY <1>9, <1>12, <1>13 DEF WInv

LEMMA StreamEndsStep ==
  ASSUME WInv, StreamEnds
  PROVE  WInv'
<1>1. /\ phase = "stream" /\ (phase' = "done" \/ phase' = "retry")
      /\ UNCHANGED <<received, text, partials>>
      /\ result' = [text |-> Trim(text), calls |-> partials]
  BY Zenon DEF StreamEnds, Respond
<1>2. Assembled'
  BY <1>1, Zenon DEF WInv, Assembled
<1>3. Showing'
  <2>1. Shown(text) # <<>> => phase' = "done" /\ content' = Shown(text)
    BY Zenon DEF StreamEnds, Respond, Shown
  <2>2. Shown(text') = Shown(text)
    BY <1>1
  <2> QED BY <1>1, <2>1, <2>2 DEF Showing
<1>4. Returned'
  <2>1. phase' \notin {"ask", "tools", "stream"}
    BY <1>1
  <2>2. result' = [text |-> Trim(text'), calls |-> partials']
    BY <1>1, Zenon
  <2> QED BY <2>1, <2>2, Zenon DEF Returned
<1> QED BY <1>2, <1>3, <1>4 DEF WInv

\* Steps of the loop and of the retry leave the stream alone.
LEMMA StreamRest ==
  ASSUME WInv, UNCHANGED <<received, text, partials, result>>,
         \/ phase # "done" /\ phase' \in {"retry", "done"}
         \/ /\ phase \in {"ask", "tools"} /\ phase' \in {"ask", "tools", "stream"}
            /\ stage' = "running" => UNCHANGED <<stage, content>>
  PROVE  WInv'
<1>1. Assembled'
  BY Zenon DEF WInv, Assembled
<1>2. Showing'
  <2>1. Shown(text') = Shown(text)
    OBVIOUS
  <2> QED BY <2>1 DEF WInv, Showing, Returned
<1>3. Returned'
  BY DEF WInv, Returned
<1> QED BY <1>1, <1>2, <1>3 DEF WInv

LEMMA StreamStepKeeps == WInv /\ [Next]_consoleVars => WInv'
<1> SUFFICES ASSUME WInv, [Next]_consoleVars PROVE WInv'
  OBVIOUS
<1>1. CASE TurnNext
  <2>1. CASE FinalReply \/ TurnLimit \/ RetryAnswers \/ StreamFails
    <3>1. /\ UNCHANGED <<received, text, partials, result>>
          /\ phase # "done" /\ phase' \in {"retry", "done"}
      BY <2>1 DEF FinalReply, TurnLimit, RetryAnswers, StreamFails, Respond, streamed
    <3> QED BY <3>1, StreamRest
  <2>2. CASE LoopFails
    <3>1. /\ UNCHANGED <<received, text, partials, result>> /\ UNCHANGED <<stage, content>>
          /\ phase = "ask" /\ phase' = "stream"
      BY <2>2 DEF LoopFails, streamed
    <3> QED BY <3>1, StreamRest
  <2>3. CASE \E n \in 1..MaxParallel : \E cs \in [1..n -> Calls] : ToolCalls(cs)
    <3>1. /\ UNCHANGED <<received, text, partials, result>> /\ UNCHANGED <<stage, content>>
          /\ phase = "ask" /\ phase' = "tools"
      BY <2>3, Zenon DEF ToolCalls, streamed
    <3> QED BY <3>1, StreamRest
  <2>4. CASE AnnounceTool
    <3>1. /\ UNCHANGED <<received, text, partials, result>> /\ stage' = "tool_call"
          /\ phase = "tools" /\ phase' = "tools"
      BY <2>4, Zenon DEF AnnounceTool, streamed
    <3> QED BY <3>1, StreamRest
  <2>5. CASE \E out \in {"text", "error"} : ToolResult(out)
    <3>1. /\ UNCHANGED <<received, text, partials, result>> /\ stage' = "tool_result"
          /\ phase = "tools" /\ (phase' = "ask" \/ phase' = "tools")
      BY <2>5, Zenon DEF ToolResult, streamed
    <3> QED BY <3>1, StreamRest
  <2>6. CASE \E c \in Chunks, flush \in BOOLEAN : Receive(c, flush)
    BY <2>6, StreamReceive
  <2>7. CASE StreamEnds
    BY <2>7, StreamEndsStep
  <2> QED BY <1>1, <2>1, <2>2, <2>3, <2>4, <2>5, <2>6, <2>7, Zenon DEF TurnNext
<1>2. CASE UNCHANGED turnVars
  BY <1>2, Zenon DEF turnVars, WInv, Assembled, Showing, Returned
<1> QED BY <1>1, <1>2, Zenon DEF Next, consoleVars, DaemonStep, SettingsStep, TurnStep, StreamStep,
        HarnessStep

\* A streamed answer is what the provider sent, while it comes and in the end:
\* the message shows an initial part of it, as it would be shown if that were
\* all, and at last the whole of it without its marks; what StreamText returns
\* holds all pieces of text in order and each tool call with its last id and
\* name and all its arguments, however text and calls were cut into chunks
\* (streamWithProfile, accumulateToolCalls, streamConversationReply,
\* normalizeAssistantText).
THEOREM StreamFaithfulHolds == Spec => []StreamFaithful
<1>1. WInv => StreamFaithful
  <2> SUFFICES ASSUME WInv PROVE StreamFaithful
    OBVIOUS
  <2>1. PICK F : F = FragmentsOf(received)
    OBVIOUS
  <2>2. text = SentText /\ F = Fragments
    BY <2>1, TextNow DEF WInv, Assembled
  <2>3. PartialIsPrefix /\ AnswerIsWhole
    BY <2>2, Zenon DEF WInv, Showing, Shown, PartialIsPrefix, AnswerIsWhole
  <2>4. ASSUME result # NoResult
        PROVE  /\ result.text = Trim(text)
               /\ \A i \in DOMAIN result.calls :
                    /\ result.calls[i].args = ArgsOf(F, i - 1)
                    /\ result.calls[i].id = LastSaid(IdsOf(F, i - 1))
                    /\ result.calls[i].name = LastSaid(NamesOf(F, i - 1))
               /\ \A n \in DOMAIN F : F[n].index + 1 \in DOMAIN result.calls
    <3>1. PICK a, b : a = Trim(text) /\ b = partials
      OBVIOUS
    <3>2. result = [text |-> a, calls |-> b]
      BY <2>4, <3>1, Zenon DEF WInv, Returned
    <3>3. result.text = a /\ result.calls = b
      BY <3>2
    <3>4. PICK n \in Nat : BuiltTo(b, F, n)
      BY <2>1, <3>1 DEF WInv, Assembled, Built
    <3>5. DOMAIN b = 1..n /\ \A k \in DOMAIN F : F[k].index + 1 <= n
      <4>1. b = [i \in 1..n |-> b[i]] /\ \A k \in DOMAIN F : F[k].index + 1 <= n
        BY <3>4 DEF BuiltTo
      <4> QED BY <4>1
    <3>6. ASSUME NEW i \in DOMAIN b
          PROVE  /\ b[i].args = ArgsOf(F, i - 1) /\ b[i].id = LastSaid(IdsOf(F, i - 1))
                 /\ b[i].name = LastSaid(NamesOf(F, i - 1))
      <4>1. i \in Nat \ {0} /\ i <= n
        BY <3>5
      <4>2. Put3(CallAt(b, n, i), F, i)
        BY <3>4, <4>1 DEF BuiltTo
      <4>3. CallAt(b, n, i) = b[i]
        BY <4>1 DEF CallAt
      <4> QED BY <4>2, <4>3, Zenon DEF Put3
    <3>7. ASSUME NEW k \in DOMAIN F PROVE F[k].index + 1 \in DOMAIN b
      <4>1. F \in Seq(Frags)
        BY <2>1 DEF WInv, Assembled
      <4>2. F[k] \in Frags
        BY <4>1
      <4>3. F[k].index \in Nat
        BY <4>2, FragTypes
      <4> QED BY <3>5, <4>3
    <3> QED BY <3>1, <3>3, <3>6, <3>7, Zenon
  <2>5. StreamWhole
    BY <2>2, <2>4, Zenon DEF StreamWhole
  <2> QED BY <2>3, <2>5 DEF StreamFaithful
<1> QED BY <1>1, StreamInitial, StreamStepKeeps, PTL DEF Spec

-----------------------------------------------------------------------------
(***************************************************************************)
(* ChatStream: the page follows the stored messages                        *)
(***************************************************************************)

\* Texts, messages, nodes, events and fetches.
PagePieces == (UNION {Range(p) : p \in Parts}) \cup {"hello", "queued", "routing", "other"}
PageText == Seq(PagePieces)
Mess == [id : Ids, role : Roles, stage : {"pending", "tool", "settled"}, text : PageText]
Node == [key : Ids \cup {NoId}, id : Ids \cup {NoId}, pend : Roles \cup {"none"}, text : PageText]
Event == [kind : {"full"}, shot : Seq(Mess)] \cup [kind : {"patch"}, m : Mess]
         \cup [kind : {"delta"}, id : Ids, delta : PageText]
Fetch == [at : {"none", "timer", "reply"}, shot : Seq(Mess)]
Draft == [stage : {"none", "pending", "tool", "settled"}, text : PageText]

PageTypes ==
  /\ store \in Seq(Mess) /\ last \in Seq(Mess) /\ view \in Seq(Node) /\ events \in Seq(Event)
  /\ sends \in [Sends -> {"idle", "posted", "user", "done"}] /\ awaited \subseteq Here
  /\ link \in {"up", "down", "refetch"} /\ fresh \in BOOLEAN /\ behind \in BOOLEAN
  /\ raw \in [Ids -> PageText] /\ fetches \in [Fetchers -> Fetch] /\ turns \in 0..MaxTurns
  /\ answers \in [Sends -> Draft] /\ displaced \in BOOLEAN

\* A list without two messages of one id; one in the order of the window; the
\* ids that were given to messages.
IdsIn(w) == {w[i].id : i \in DOMAIN w}
Once(w) == \A i, k \in DOMAIN w : w[i].id = w[k].id => i = k
InOrder(w, W) ==
  \A i, k \in DOMAIN W, o \in DOMAIN w :
    i < k /\ w[o].id = W[k].id => \E n \in 1..(o - 1) : w[n].id = W[i].id
UsedBy(sd) == {<<s, "user">> : s \in {t \in Sends : sd[t] \in {"user", "done"}}}
              \cup {<<s, "assistant">> : s \in {t \in Sends : sd[t] = "done"}}
Snap(w, W, U) == Once(w) /\ InOrder(w, W) /\ IdsIn(w) \subseteq U

\* What the events after the first n do to a message.
PatchOf(e, m) == e.kind = "patch" /\ e.m = m
Touches(e, id) == (e.kind = "patch" /\ e.m.id = id) \/ (e.kind = "delta" /\ e.id = id)
Renewed(E, n) == \E j \in DOMAIN E : j > n /\ E[j].kind = "full"

\* When the events after the first n have been applied to the nodes V, these
\* show the settled messages of the list L, in the order of the window W.
Tidy(V) == Once(V) /\ \A o \in DOMAIN V : V[o].pend = "none"
AllCome(V, E, n, L, W) ==
  \A k \in DOMAIN L : L[k].id \in IdsIn(W) =>
    L[k].id \in IdsIn(V) \/ \E j \in DOMAIN E : j > n /\ Carries(E[j], L[k])
AllRight(V, E, n, L, W) ==
  \A k \in DOMAIN L : L[k].id \in IdsIn(W) /\ L[k].stage = "settled" =>
    \/ \E j \in DOMAIN E : j > n /\ PatchOf(E[j], L[k])
    \/ \E o \in DOMAIN V : V[o].id = L[k].id /\ V[o].text = Render(L[k].text)
ComeInOrder(V, E, n, W) ==
  \A i, k \in DOMAIN W, j \in DOMAIN E : i < k /\ j > n /\ Carries(E[j], W[k]) =>
    W[i].id \in IdsIn(V) \/ \E h \in DOMAIN E : h > n /\ h < j /\ Carries(E[h], W[i])
Tracks(V, E, n, L, W) ==
  \/ Renewed(E, n)
  \/ /\ Tidy(V) /\ InOrder(V, W) /\ AllCome(V, E, n, L, W) /\ AllRight(V, E, n, L, W)
     /\ ComeInOrder(V, E, n, W)

\* An event that touches a settled message is followed by one that brings it
\* as it was sent last; what the events bring was sent.
Corrected(E, L) ==
  \A k \in DOMAIN L, j \in DOMAIN E :
    L[k].stage = "settled" /\ Touches(E[j], L[k].id) /\ ~PatchOf(E[j], L[k]) =>
      \E h \in DOMAIN E : h > j /\ (E[h].kind = "full" \/ PatchOf(E[h], L[k]))
Announced(E, L, W) ==
  \A i \in DOMAIN W, j \in DOMAIN E : Carries(E[j], W[i]) => W[i].id \in IdsIn(L)
PastEvents(E, W, U) ==
  \A j \in DOMAIN E : /\ E[j].kind = "full" => Snap(E[j].shot, W, U)
                      /\ E[j].kind = "patch" => E[j].m.id \in U

\* The order that the lists and the events keep to: none after an answer came
\* back to another place.
Order == IF displaced THEN <<>> ELSE Window

NoneAwaited(aw, fs) == aw = {} /\ \A f \in Fetchers : fs[f].at = "none"

\* Nothing is on its way when the connection is down or new.
Linked ==
  /\ fresh \/ link # "up" => events = <<>>
  /\ fresh => last = <<>>
Drafted == \A s \in Sends : answers[s].stage \in {"pending", "tool"} => sends[s] = "done"
SentBefore ==
  /\ Corrected(events, last) /\ Announced(events, last, Order)
  /\ PastEvents(events, Order, UsedBy(sends))
  /\ Snap(store, Order, UsedBy(sends)) /\ Snap(last, Order, UsedBy(sends))
  /\ \A f \in Fetchers : Snap(fetches[f].shot, Order, UsedBy(sends))
  /\ IdsIn(view) \subseteq UsedBy(sends) \cup {NoId}
Follows ==
  ~fresh /\ link = "up" =>
    /\ \A i \in DOMAIN events : events[i].kind = "full" =>
         Tracks(ChatMessages(events[i].shot), events, i, last, Order)
    /\ NoneAwaited(awaited, fetches) /\ ~behind => Tracks(view, events, 0, last, Order)

PInv == PageTypes /\ Linked /\ Drafted /\ SentBefore /\ Follows

-----------------------------------------------------------------------------
LEMMA RenderType == \A t \in PageText : Render(t) \in PageText
<1> SUFFICES ASSUME NEW t \in PageText PROVE Render(t) \in PageText
  OBVIOUS
<1>1. PICK n \in Nat : n = Len(t) /\ DOMAIN t = 1..n /\ \A i \in 1..n : t[i] \in PagePieces
  BY DEF PageText
<1>0. \E e : \A u : Render(u) = FlattenSeq([i \in DOMAIN u |-> IF u[i] = e THEN <<>> ELSE <<u[i]>>])
  BY Zenon DEF Render
<1>00. PICK e : \A u : Render(u) = FlattenSeq([i \in DOMAIN u |-> IF u[i] = e THEN <<>> ELSE <<u[i]>>])
  BY <1>0, Zenon
<1>2. PICK s : s = [i \in DOMAIN t |-> IF t[i] = e THEN <<>> ELSE <<t[i]>>] /\ Render(t) = FlattenSeq(s)
  BY <1>00, Zenon
<1>3. ASSUME NEW i \in 1..n PROVE s[i] \in Seq(PagePieces)
  <2>1. <<>> \in Seq(PagePieces) /\ <<t[i]>> \in Seq(PagePieces)
    BY <1>1
  <2> QED BY <1>1, <1>2, <2>1
<1>4. s = [i \in 1..n |-> s[i]]
  BY <1>1, <1>2
<1>5. s \in Seq(Seq(PagePieces))
  BY <1>3, <1>4
<1> QED BY <1>2, <1>5, FlattenType DEF PageText

LEMMA LimitNat == ShownLimit \in Nat /\ MaxTurns \in Nat
BY ChatStreamAssumption, Zenon

\* The window is the end of the list.
WindowOf(s) == SubSeq(s, IF Len(s) > ShownLimit THEN Len(s) - ShownLimit + 1 ELSE 1, Len(s))

Skipped(z) == IF z > ShownLimit THEN z - ShownLimit ELSE 0
EndOf(w, s, z, n, a) ==
  /\ DOMAIN w = 1..n /\ n + a = z /\ a = Skipped(z)
  /\ \A i \in 1..n : w[i] = s[i + a] /\ i + a \in 1..z

LEMMA WindowIs ==
  ASSUME NEW X, NEW s \in Seq(X), NEW z \in Nat, z = Len(s)
  PROVE  /\ WindowOf(s) \in Seq(X)
         /\ \E a \in Nat : \E n \in Nat : EndOf(WindowOf(s), s, z, n, a)
<1>2. PICK a \in Nat : a = (IF z > ShownLimit THEN z - ShownLimit ELSE 0)
  <2>1. CASE z > ShownLimit
    <3>1. z - ShownLimit \in Nat
      BY <2>1, LimitNat
    <3> QED BY <2>1, <3>1, Zenon
  <2>2. CASE ~(z > ShownLimit)
    BY <2>2
  <2> QED BY <2>1, <2>2
<1>3. PICK n \in Nat : n = z - a /\ n + a = z
  BY <1>2, LimitNat
<1>4. PICK w : w = SubSeq(s, a + 1, z)
  OBVIOUS
<1>5. WindowOf(s) = w
  BY <1>2, <1>4, LimitNat DEF WindowOf
<1>6. w = [i \in 1..n |-> s[i + a]]
  BY <1>3, <1>4
<1>7. \A i \in 1..n : i + a \in 1..z /\ s[i + a] \in X
  BY <1>3
<1>8. w \in Seq(X) /\ DOMAIN w = 1..n
  <2>1. w \in [1..n -> X]
    BY <1>6, <1>7
  <2> QED BY <2>1
<1>9. EndOf(w, s, z, n, a)
  BY <1>2, <1>3, <1>6, <1>7, <1>8 DEF EndOf, Skipped
<1> QED BY <1>5, <1>8, <1>9

LEMMA WindowNow == Window = WindowOf(store) /\ (\A s : store' = s => Window' = WindowOf(s))
BY Zenon DEF Window, WindowOf

-----------------------------------------------------------------------------
\* The window goes on from W to W2: what is not new is in W, in the same order.
Slides(W, W2, U) ==
  \A k \in DOMAIN W2 : W2[k].id \in U =>
    \E b \in DOMAIN W :
      /\ W[b].id = W2[k].id
      /\ \A i \in DOMAIN W2 : i < k => \E a \in DOMAIN W : a < b /\ W[a].id = W2[i].id

LEMMA SlideSame == ASSUME NEW W, NEW U PROVE Slides(W, W, U)
BY DEF Slides

LEMMA SlideEmpty == ASSUME NEW W, NEW U PROVE Slides(W, <<>>, U)
BY DEF Slides

LEMMA SlideAppend ==
  ASSUME NEW X, NEW s \in Seq(X), NEW m \in X, NEW U, m.id \notin U
  PROVE  Slides(WindowOf(s), WindowOf(Append(s, m)), U)
<1>1. PICK t : t = Append(s, m)
  OBVIOUS
<1>2. PICK z \in Nat : z = Len(s)
  OBVIOUS
<1>3. t \in Seq(X) /\ Len(t) = z + 1 /\ t[z + 1] = m /\ \A i \in 1..z : t[i] = s[i]
  BY <1>1, <1>2
<1>4. PICK W, W2 : W = WindowOf(s) /\ W2 = WindowOf(t)
  OBVIOUS
<1>00. z + 1 \in Nat
  OBVIOUS
<1>51. PICK a \in Nat : \E n \in Nat : EndOf(W, s, z, n, a)
  BY <1>2, <1>4, WindowIs
<1>52. PICK n \in Nat : EndOf(W, s, z, n, a)
  BY <1>51
<1>5. /\ DOMAIN W = 1..n /\ n + a = z /\ a = Skipped(z)
      /\ \A i \in 1..n : W[i] = s[i + a]
  BY <1>52, Zenon DEF EndOf
<1>61. PICK a2 \in Nat : \E n2 \in Nat : EndOf(W2, t, z + 1, n2, a2)
  BY <1>00, <1>3, <1>4, WindowIs
<1>62. PICK n2 \in Nat : EndOf(W2, t, z + 1, n2, a2)
  BY <1>61
<1>6. /\ DOMAIN W2 = 1..n2 /\ n2 + a2 = z + 1 /\ a2 = Skipped(z + 1)
      /\ \A i \in 1..n2 : W2[i] = t[i + a2]
  BY <1>62, Zenon DEF EndOf
<1>70. a <= a2
  <2>1. a = Skipped(z) /\ a2 = Skipped(z + 1) /\ ShownLimit \in Nat
    BY <1>5, <1>6, LimitNat
  <2> QED BY <2>1 DEF Skipped
<1>7. PICK d \in Nat : d = a2 - a /\ a + d = a2
  BY <1>70
<1>8. ASSUME NEW k \in 1..n2, W2[k].id \in U PROVE k + a2 <= z
  <2>1. k + a2 # z + 1
    BY <1>3, <1>6, <1>8
  <2> QED BY <1>6, <2>1
<1>9. ASSUME NEW k \in 1..n2, k + a2 <= z
      PROVE  k + d \in 1..n /\ W[k + d] = W2[k]
  <2>0. n + a = z
    BY <1>5
  <2>1. k + d \in 1..n /\ (k + d) + a = k + a2 /\ k + a2 \in 1..z
    BY <1>7, <1>9, <2>0
  <2> QED BY <1>3, <1>5, <1>6, <2>1, ZenonT(40)
<1>10. ASSUME NEW k \in 1..n2, W2[k].id \in U
       PROVE  /\ k + d \in 1..n /\ W[k + d].id = W2[k].id
              /\ \A i \in 1..n2 : i < k => i + d \in 1..n /\ i + d < k + d /\ W[i + d].id = W2[i].id
  <2>1. k + a2 <= z
    BY <1>8, <1>10
  <2>2. ASSUME NEW i \in 1..n2, i < k PROVE i + d \in 1..n /\ i + d < k + d /\ W[i + d].id = W2[i].id
    <3>1. i + a2 <= z /\ i + d < k + d
      BY <2>1, <2>2
    <3> QED BY <1>9, <3>1
  <2> QED BY <1>9, <2>1, <2>2
<1>11. Slides(W, W2, U)
  <2> SUFFICES ASSUME NEW k \in DOMAIN W2, W2[k].id \in U
               PROVE  \E b \in DOMAIN W :
                        /\ W[b].id = W2[k].id
                        /\ \A i \in DOMAIN W2 : i < k => \E c \in DOMAIN W : c < b /\ W[c].id = W2[i].id
    BY Zenon DEF Slides
  <2>1. DOMAIN W = 1..n /\ DOMAIN W2 = 1..n2
    BY <1>5, <1>6
  <2>2. /\ k + d \in 1..n /\ W[k + d].id = W2[k].id
        /\ \A i \in 1..n2 : i < k => i + d \in 1..n /\ i + d < k + d /\ W[i + d].id = W2[i].id
    BY <1>10, <2>1
  <2> QED BY <2>1, <2>2, Zenon
<1> QED BY <1>1, <1>4, <1>11

LEMMA SlideUpdate ==
  ASSUME NEW X, NEW s \in Seq(X), NEW t \in Seq(X), Len(t) = Len(s),
         \A i \in 1..Len(s) : t[i].id = s[i].id, NEW U
  PROVE  Slides(WindowOf(s), WindowOf(t), U)
<1>1. PICK z \in Nat : z = Len(s)
  OBVIOUS
<1>2. PICK W, W2 : W = WindowOf(s) /\ W2 = WindowOf(t)
  OBVIOUS
<1>3. PICK a \in Nat : \E n \in Nat : EndOf(W, s, z, n, a)
  BY <1>1, <1>2, WindowIs
<1>30. PICK n \in Nat : EndOf(W, s, z, n, a)
  BY <1>3
<1>4. PICK a2 \in Nat : \E n2 \in Nat : EndOf(W2, t, z, n2, a2)
  BY <1>1, <1>2, WindowIs
<1>40. PICK n2 \in Nat : EndOf(W2, t, z, n2, a2)
  BY <1>4
<1>5. a = a2 /\ n + a = z /\ n2 + a2 = z /\ DOMAIN W = 1..n /\ DOMAIN W2 = 1..n2
  BY <1>30, <1>40, Zenon DEF EndOf
<1>50. n = n2
  BY <1>5
<1>6. \A i \in 1..n : W[i].id = W2[i].id
  <2> SUFFICES ASSUME NEW i \in 1..n PROVE W[i].id = W2[i].id
    OBVIOUS
  <2>1. W[i] = s[i + a] /\ i + a \in 1..z
    BY <1>30 DEF EndOf
  <2>2. W2[i] = t[i + a]
    BY <1>40, <1>5, <1>50 DEF EndOf
  <2> QED BY <1>1, <2>1, <2>2
<1>7. Slides(W, W2, U)
  BY <1>5, <1>50, <1>6 DEF Slides
<1> QED BY <1>2, <1>7

LEMMA KeepOrder ==
  ASSUME NEW W, NEW W2, NEW U, Slides(W, W2, U), NEW w, InOrder(w, W),
         \A x \in IdsIn(w) : x \in IdsIn(W2) => x \in U
  PROVE  InOrder(w, W2)
<1> SUFFICES ASSUME NEW i \in DOMAIN W2, NEW k \in DOMAIN W2, NEW o \in DOMAIN w,
                    i < k, w[o].id = W2[k].id
             PROVE  \E n \in 1..(o - 1) : w[n].id = W2[i].id
  BY Zenon DEF InOrder
<1>1. W2[k].id \in U
  BY DEF IdsIn
<1>2. PICK b \in DOMAIN W :
        /\ W[b].id = W2[k].id
        /\ \A j \in DOMAIN W2 : j < k => \E a \in DOMAIN W : a < b /\ W[a].id = W2[j].id
  BY <1>1, Zenon DEF Slides
<1>3. PICK a \in DOMAIN W : a < b /\ W[a].id = W2[i].id
  BY <1>2, Zenon
<1>4. PICK n \in 1..(o - 1) : w[n].id = W[a].id
  BY <1>2, <1>3, ZenonT(40) DEF InOrder
<1> QED BY <1>3, <1>4, Zenon

LEMMA KeepIn ==
  ASSUME NEW W, NEW W2, NEW U, Slides(W, W2, U), NEW x, x \in U, x \in IdsIn(W2)
  PROVE  x \in IdsIn(W)
<1>1. PICK k \in DOMAIN W2 : x = W2[k].id
  BY DEF IdsIn
<1>2. PICK b \in DOMAIN W : W[b].id = W2[k].id
  BY <1>1, Zenon DEF Slides
<1> QED BY <1>1, <1>2, Zenon DEF IdsIn

LEMMA KeepSnap ==
  ASSUME NEW W, NEW W2, NEW U, NEW U2, Slides(W, W2, U), U \subseteq U2, NEW w, Snap(w, W, U)
  PROVE  Snap(w, W2, U2)
<1>1. \A x \in IdsIn(w) : x \in U /\ x \in U2
  BY Zenon DEF Snap
<1>2. InOrder(w, W2)
  BY <1>1, KeepOrder DEF Snap
<1> QED BY <1>1, <1>2 DEF Snap

LEMMA KeepTracks ==
  ASSUME NEW W, NEW W2, NEW U, Slides(W, W2, U), NEW V, NEW E, NEW n, NEW L,
         Tracks(V, E, n, L, W), \A x \in IdsIn(V) : x \in IdsIn(W2) => x \in U,
         IdsIn(L) \subseteq U, \A j \in DOMAIN E : E[j].kind = "patch" => E[j].m.id \in U
  PROVE  Tracks(V, E, n, L, W2)
<1>1. CASE Renewed(E, n)
  BY <1>1 DEF Tracks
<1>2. CASE ~Renewed(E, n)
  <2>1. Tidy(V) /\ InOrder(V, W) /\ AllCome(V, E, n, L, W) /\ AllRight(V, E, n, L, W)
        /\ ComeInOrder(V, E, n, W)
    BY <1>2, Zenon DEF Tracks
  <2>2. InOrder(V, W2)
    BY <2>1, KeepOrder
  <2>3. \A k \in DOMAIN L : L[k].id \in IdsIn(W2) => L[k].id \in IdsIn(W)
    <3> SUFFICES ASSUME NEW k \in DOMAIN L, L[k].id \in IdsIn(W2) PROVE L[k].id \in IdsIn(W)
      OBVIOUS
    <3>1. L[k].id \in U
      BY DEF IdsIn
    <3> QED BY <3>1, KeepIn
  <2>4. AllCome(V, E, n, L, W2)
    BY <2>1, <2>3, Zenon DEF AllCome
  <2>5. AllRight(V, E, n, L, W2)
    BY <2>1, <2>3, Zenon DEF AllRight
  <2>6. ComeInOrder(V, E, n, W2)
    <3> SUFFICES ASSUME NEW i \in DOMAIN W2, NEW k \in DOMAIN W2, NEW j \in DOMAIN E,
                        i < k, j > n, Carries(E[j], W2[k])
                 PROVE  W2[i].id \in IdsIn(V)
                        \/ \E h \in DOMAIN E : h > n /\ h < j /\ Carries(E[h], W2[i])
      BY Zenon DEF ComeInOrder
    <3>1. W2[k].id \in U
      BY DEF Carries
    <3>2. PICK b \in DOMAIN W :
            /\ W[b].id = W2[k].id
            /\ \A q \in DOMAIN W2 : q < k => \E a \in DOMAIN W : a < b /\ W[a].id = W2[q].id
      BY <3>1, Zenon DEF Slides
    <3>3. PICK a \in DOMAIN W : a < b /\ W[a].id = W2[i].id
      BY <3>2, Zenon
    <3>4. Carries(E[j], W[b])
      BY <3>2, Zenon DEF Carries
    <3>5. W[a].id \in IdsIn(V) \/ \E h \in DOMAIN E : h > n /\ h < j /\ Carries(E[h], W[a])
      BY <2>1, <3>3, <3>4, Zenon DEF ComeInOrder
    <3> QED BY <3>3, <3>5, Zenon DEF Carries
  <2> QED BY <2>1, <2>2, <2>4, <2>5, <2>6, Zenon DEF Tracks
<1> QED BY <1>1, <1>2

-----------------------------------------------------------------------------
\* FlattenSeq of sequences of at most one element: where each element is from.
Spread(s, t, p) ==
  /\ \A j \in 1..Len(t) : p[j] \in 1..Len(s) /\ s[p[j]] = <<t[j]>>
  /\ \A i \in 1..Len(s) : s[i] # <<>> => \E h \in 1..Len(t) : p[h] = i
  /\ \A j \in 1..Len(t), i \in 1..Len(s) :
       i < p[j] /\ s[i] # <<>> => \E h \in 1..(j - 1) : p[h] = i
  /\ \A h, j \in 1..Len(t) : h < j => p[h] < p[j]

LEMMA SpreadOne ==
  ASSUME NEW X, NEW s \in Seq(Seq(X)), NEW t \in Seq(X), NEW p, Spread(s, t, p), NEW x \in X,
         NEW s2, s2 = Append(s, <<x>>), NEW t2, t2 = Append(t, x)
  PROVE  \E q : Spread(s2, t2, q)
<1>1. PICK n \in Nat : n = Len(s)
  OBVIOUS
<1>2. PICK m \in Nat : m = Len(t)
  OBVIOUS
<1>3. Len(s2) = n + 1 /\ s2[n + 1] = <<x>> /\ \A i \in 1..n : s2[i] = s[i]
  BY <1>1
<1>4. Len(t2) = m + 1 /\ t2[m + 1] = x /\ \A j \in 1..m : t2[j] = t[j]
  BY <1>2
<1>5. PICK q : q = [j \in 1..(m + 1) |-> IF j = m + 1 THEN n + 1 ELSE p[j]]
  OBVIOUS
<1>6. q[m + 1] = n + 1 /\ \A j \in 1..m : q[j] = p[j]
  BY <1>5
<1>7. \A j \in 1..m : p[j] \in 1..n /\ s[p[j]] = <<t[j]>>
  BY <1>1, <1>2 DEF Spread
<1>8. \A i \in 1..n : s[i] # <<>> => \E h \in 1..m : p[h] = i
  BY <1>1, <1>2, Zenon DEF Spread
<1>9. \A j \in 1..m, i \in 1..n : i < p[j] /\ s[i] # <<>> => \E h \in 1..(j - 1) : p[h] = i
  BY <1>1, <1>2, Zenon DEF Spread
<1>10. ASSUME NEW j \in 1..(m + 1) PROVE q[j] \in 1..(n + 1) /\ s2[q[j]] = <<t2[j]>>
  <2>1. CASE j = m + 1
    BY <1>3, <1>4, <1>6, <2>1
  <2>2. CASE j \in 1..m
    <3>1. q[j] = p[j] /\ p[j] \in 1..n /\ s[p[j]] = <<t[j]>> /\ t2[j] = t[j]
      BY <1>4, <1>6, <1>7, <2>2
    <3>2. s2[p[j]] = s[p[j]]
      BY <1>3, <3>1
    <3>3. p[j] \in 1..(n + 1)
      BY <3>1
    <3> QED BY <3>1, <3>2, <3>3, Zenon
  <2>3. j = m + 1 \/ j \in 1..m
    OBVIOUS
  <2> QED BY <2>1, <2>2, <2>3, Zenon
<1>11. ASSUME NEW i \in 1..(n + 1), s2[i] # <<>> PROVE \E h \in 1..(m + 1) : q[h] = i
  <2>1. CASE i = n + 1
    BY <1>6, <2>1
  <2>2. CASE i \in 1..n
    <3>1. PICK h \in 1..m : p[h] = i
      BY <1>3, <1>8, <1>11, <2>2
    <3>2. h \in 1..(m + 1) /\ q[h] = i
      BY <1>6, <3>1
    <3> QED BY <3>2, Zenon
  <2> QED BY <2>1, <2>2
<1>12. ASSUME NEW j \in 1..(m + 1), NEW i \in 1..(n + 1), i < q[j], s2[i] # <<>>
       PROVE  \E h \in 1..(j - 1) : q[h] = i
  <2>1. CASE j = m + 1
    <3>1. i \in 1..n
      BY <1>6, <1>12, <2>1
    <3>2. PICK h \in 1..m : p[h] = i
      BY <1>3, <1>8, <1>12, <3>1
    <3>3. h \in 1..(j - 1) /\ q[h] = i
      BY <1>6, <2>1, <3>2
    <3> QED BY <3>3, Zenon
  <2>2. CASE j \in 1..m
    <3>1. i \in 1..n /\ i < p[j]
      BY <1>6, <1>7, <1>12, <2>2, SMTT(30)
    <3>2. PICK h \in 1..(j - 1) : p[h] = i
      BY <1>3, <1>9, <1>12, <2>2, <3>1
    <3>3. h \in 1..m
      BY <2>2, <3>2
    <3>4. q[h] = i
      BY <1>6, <3>2, <3>3
    <3> QED BY <3>2, <3>4, Zenon
  <2> QED BY <2>1, <2>2
<1>14. ASSUME NEW h \in 1..(m + 1), NEW j \in 1..(m + 1), h < j PROVE q[h] < q[j]
  <2>1. h \in 1..m /\ q[h] = p[h] /\ p[h] \in 1..n
    BY <1>6, <1>7, <1>14
  <2>2. CASE j = m + 1
    BY <1>6, <2>1, <2>2
  <2>3. CASE j \in 1..m
    <3>1. p[h] < p[j]
      <4>1. \A a, b \in 1..m : a < b => p[a] < p[b]
        BY <1>2, Zenon DEF Spread
      <4> QED BY <1>14, <2>1, <2>3, <4>1, Zenon
    <3> QED BY <1>6, <2>1, <2>3, <3>1
  <2> QED BY <2>2, <2>3
<1>13. Spread(s2, t2, q)
  <2>1. Len(s2) = n + 1 /\ Len(t2) = m + 1
    BY <1>3, <1>4
  <2>2. \A j \in 1..Len(t2) : q[j] \in 1..Len(s2) /\ s2[q[j]] = <<t2[j]>>
    BY <1>10, <2>1, Zenon
  <2>3. \A i \in 1..Len(s2) : s2[i] # <<>> => \E h \in 1..Len(t2) : q[h] = i
    BY <1>11, <2>1, Zenon
  <2>4. \A j \in 1..Len(t2), i \in 1..Len(s2) :
          i < q[j] /\ s2[i] # <<>> => \E h \in 1..(j - 1) : q[h] = i
    BY <1>12, <2>1, Zenon
  <2>5. \A h, j \in 1..Len(t2) : h < j => q[h] < q[j]
    BY <1>14, <2>1, Zenon
  <2> QED BY <2>2, <2>3, <2>4, <2>5, Zenon DEF Spread
<1> QED BY <1>13

LEMMA SpreadNone ==
  ASSUME NEW X, NEW s \in Seq(Seq(X)), NEW t \in Seq(X), NEW p, Spread(s, t, p),
         NEW s2, s2 = Append(s, <<>>)
  PROVE  Spread(s2, t, p)
<1>1. PICK n \in Nat : n = Len(s)
  OBVIOUS
<1>2. PICK m \in Nat : m = Len(t)
  OBVIOUS
<1>3. Len(s2) = n + 1 /\ s2[n + 1] = <<>> /\ \A i \in 1..n : s2[i] = s[i]
  BY <1>1
<1>7. \A j \in 1..m : p[j] \in 1..n /\ s[p[j]] = <<t[j]>>
  BY <1>1, <1>2 DEF Spread
<1>8. \A i \in 1..n : s[i] # <<>> => \E h \in 1..m : p[h] = i
  BY <1>1, <1>2, Zenon DEF Spread
<1>9. \A j \in 1..m, i \in 1..n : i < p[j] /\ s[i] # <<>> => \E h \in 1..(j - 1) : p[h] = i
  BY <1>1, <1>2, Zenon DEF Spread
<1>10. \A i \in 1..(n + 1) : s2[i] # <<>> => i \in 1..n /\ s2[i] = s[i]
  BY <1>3
<1>11. \A j \in 1..m : p[j] \in 1..(n + 1) /\ s2[p[j]] = <<t[j]>>
  BY <1>3, <1>7
<1>12. \A i \in 1..(n + 1) : s2[i] # <<>> => \E h \in 1..m : p[h] = i
  BY <1>8, <1>10, Zenon
<1>13. \A j \in 1..m, i \in 1..(n + 1) : i < p[j] /\ s2[i] # <<>> => \E h \in 1..(j - 1) : p[h] = i
  BY <1>9, <1>10, Zenon
<1>14. Len(t) = m /\ Len(s2) = n + 1
  BY <1>2, <1>3
<1>15. \A j \in 1..Len(t) : p[j] \in 1..Len(s2) /\ s2[p[j]] = <<t[j]>>
  BY <1>11, <1>14, Zenon
<1>16. \A i \in 1..Len(s2) : s2[i] # <<>> => \E h \in 1..Len(t) : p[h] = i
  BY <1>12, <1>14, Zenon
<1>17. \A j \in 1..Len(t), i \in 1..Len(s2) :
         i < p[j] /\ s2[i] # <<>> => \E h \in 1..(j - 1) : p[h] = i
  BY <1>13, <1>14, Zenon
<1>18. \A h, j \in 1..Len(t) : h < j => p[h] < p[j]
  BY Zenon DEF Spread
<1> QED BY <1>15, <1>16, <1>17, <1>18, Zenon DEF Spread

LEMMA FlattenSpread ==
  ASSUME NEW X, NEW s \in Seq(Seq(X)), \A i \in 1..Len(s) : s[i] = <<>> \/ \E x \in X : s[i] = <<x>>
  PROVE  FlattenSeq(s) \in Seq(X) /\ \E p : Spread(s, FlattenSeq(s), p)
<1>1. PICK n \in Nat : n = Len(s)
  OBVIOUS
<1> DEFINE H(k) == SubSeq(s, 1, k)
<1> DEFINE S == {k \in Nat : k <= n => \E p : Spread(H(k), FlattenSeq(H(k)), p)}
<1>2. 0 \in S
  <2>1. H(0) = <<>>
    OBVIOUS
  <2>2. FlattenSeq(H(0)) = <<>>
    BY <2>1, FlattenEmpty, Zenon
  <2>3. Spread(<<>>, <<>>, <<>>)
    BY DEF Spread
  <2>4. \E p : Spread(H(0), FlattenSeq(H(0)), p)
    BY <2>1, <2>2, <2>3, Zenon
  <2> QED BY <2>4
<1>3. ASSUME NEW k \in Nat, k \in S PROVE k + 1 \in S
  <2> SUFFICES ASSUME k + 1 <= n PROVE \E p : Spread(H(k + 1), FlattenSeq(H(k + 1)), p)
    OBVIOUS
  <2>1. PICK u : u = H(k)
    OBVIOUS
  <2>2. PICK v : v = H(k + 1)
    OBVIOUS
  <2>3. \E p : Spread(u, FlattenSeq(u), p)
    BY <1>3, <2>1
  <2>4. k + 1 \in 1..Len(s)
    BY <1>1
  <2>5. PICK y : y = s[k + 1] /\ y \in Seq(X)
    BY <2>4
  <2>6. u \in Seq(Seq(X)) /\ Len(u) = k /\ (\A i \in 1..k : u[i] = s[i])
    BY <1>1, <2>1
  <2>7. v \in Seq(Seq(X)) /\ Len(v) = k + 1 /\ (\A i \in 1..(k + 1) : v[i] = s[i])
    BY <1>1, <2>2
  <2>8. v = Append(u, y)
    BY <2>5, <2>6, <2>7, SMTT(30)
  <2>9. PICK t : t = FlattenSeq(u) /\ t \in Seq(X)
    BY <2>6, FlattenType
  <2>10. FlattenSeq(v) = t \o y
    BY <2>5, <2>6, <2>8, <2>9, FlattenAppend
  <2>11. CASE y = <<>>
    <3>1. FlattenSeq(v) = t
      BY <2>9, <2>10, <2>11
    <3>2. PICK p : Spread(u, t, p)
      BY <2>3, <2>9
    <3>3. Spread(v, t, p)
      BY <2>6, <2>8, <2>9, <2>11, <3>2, SpreadNone
    <3> QED BY <2>2, <3>1, <3>3
  <2>12. CASE \E x \in X : y = <<x>>
    <3>1. PICK x \in X : y = <<x>>
      BY <2>12
    <3>2. PICK w : w = Append(t, x)
      OBVIOUS
    <3>3. FlattenSeq(v) = w
      BY <2>9, <2>10, <3>1, <3>2
    <3>4. PICK p : Spread(u, t, p)
      BY <2>3, <2>9
    <3>5. v = Append(u, <<x>>)
      BY <2>8, <3>1
    <3>6. \E q : Spread(v, w, q)
      BY <2>6, <2>9, <3>2, <3>4, <3>5, SpreadOne
    <3> QED BY <2>2, <3>3, <3>6, Zenon
  <2> QED BY <2>4, <2>5, <2>11, <2>12
<1>4. Nat \subseteq S
  <2> HIDE DEF S
  <2> QED BY <1>2, <1>3, Climb
<1>5. \E p : Spread(H(n), FlattenSeq(H(n)), p)
  BY <1>4
<1>6. H(n) = s
  BY <1>1
<1> QED BY <1>5, <1>6, FlattenType, Zenon

-----------------------------------------------------------------------------
\* The event for one message.
PatchEv(m) == [kind |-> "patch", m |-> m]

FirstIn(s, x) == LET I == {i \in 1..Len(s) : s[i].id = x} IN IF I # {} THEN Min(I) ELSE 0

LEMMA FirstOf ==
  ASSUME NEW X, NEW s \in Seq(X), NEW x
  PROVE  /\ x \notin IdsIn(s) => FirstIn(s, x) = 0
         /\ x \in IdsIn(s) => FirstIn(s, x) \in DOMAIN s /\ s[FirstIn(s, x)].id = x
<1> DEFINE I == {i \in 1..Len(s) : s[i].id = x}
<1>1. FirstIn(s, x) = IF I # {} THEN Min(I) ELSE 0
  BY Zenon DEF FirstIn
<1>2. DOMAIN s = 1..Len(s) /\ Len(s) \in Nat
  OBVIOUS
<1>3. x \in IdsIn(s) <=> I # {}
  BY <1>2 DEF IdsIn
<1>4. I # {} => Min(I) \in I
  BY <1>2, EndsOf
<1> QED BY <1>1, <1>2, <1>3, <1>4

LEMMA BeforeIs == \A x : Before(x) = FirstIn(last, x) /\ NodeOf(x) = FirstIn(view, x)
BY Zenon DEF Before, NodeOf, FirstIn, SelectInSeq

DeltaEv(x, d) == [kind |-> "delta", id |-> x, delta |-> d]

LEMMA EventFacts ==
  ASSUME NEW m \in Mess
  PROVE  /\ PatchEv(m) \in Event /\ PatchEv(m).kind = "patch" /\ PatchEv(m).m = m
         /\ \A x \in Ids, d \in PageText : /\ DeltaEv(x, d) \in Event
                                           /\ DeltaEv(x, d).kind = "delta" /\ DeltaEv(x, d).id = x
         /\ m.id \in Ids /\ m.text \in PageText
BY DEF PatchEv, DeltaEv, Event, Mess

LEMMA ChangeIs ==
  ASSUME last \in Seq(Mess), Once(last), NEW m \in Mess
  PROVE  /\ \/ Change(m) = <<>> \/ Change(m) = <<PatchEv(m)>>
            \/ \E d \in PageText : Change(m) = <<DeltaEv(m.id, d)>>
         /\ (\E k \in DOMAIN last : last[k] = m) => Change(m) = <<>>
         /\ m.id \notin IdsIn(last) => Change(m) = <<PatchEv(m)>>
         /\ m.stage = "settled" /\ (\A k \in DOMAIN last : last[k] # m) => Change(m) = <<PatchEv(m)>>
<1>1. PICK z : z = Before(m.id)
  OBVIOUS
<1>2. /\ m.id \notin IdsIn(last) => z = 0
      /\ m.id \in IdsIn(last) => z \in DOMAIN last /\ last[z].id = m.id
  <2>1. z = FirstIn(last, m.id)
    BY <1>1, BeforeIs, Zenon
  <2> QED BY <2>1, FirstOf
<1>3. DOMAIN last = 1..Len(last) /\ (\A k \in DOMAIN last : last[k] \in Mess)
  OBVIOUS
<1>4. PICK d : d = SubSeq(m.text, Len(last[z].text) + 1, Len(m.text))
  OBVIOUS
<1>5. Change(m) = IF z # 0 /\ last[z] = m THEN <<>>
                  ELSE IF z # 0 /\ canEmitChatDelta(last[z], m) THEN <<DeltaEv(m.id, d)>>
                  ELSE <<PatchEv(m)>>
  BY <1>1, <1>4, Zenon DEF Change, PatchEv, DeltaEv
<1>6. z # 0 => d \in PageText
  <2> SUFFICES ASSUME z # 0 PROVE d \in PageText
    OBVIOUS
  <2>1. z \in DOMAIN last
    BY <1>2
  <2>2. last[z].text \in PageText /\ m.text \in PageText
    BY <1>3, <2>1 DEF Mess
  <2>3. PICK a \in Nat, b \in Nat : a = Len(last[z].text) /\ b = Len(m.text)
    BY <2>2 DEF PageText
  <2>4. d = SubSeq(m.text, a + 1, b)
    BY <1>4, <2>3
  <2> QED BY <2>2, <2>3, <2>4 DEF PageText
<1>7. canEmitChatDelta(last[z], m) => m.stage # "settled"
  BY DEF canEmitChatDelta
<1>8. ASSUME NEW k \in DOMAIN last, last[k] = m PROVE z # 0 /\ last[z] = m
  <2>1. m.id \in IdsIn(last)
    BY <1>8 DEF IdsIn
  <2>2. z \in DOMAIN last /\ last[z].id = last[k].id
    BY <1>2, <1>8, <2>1
  <2>3. z = k
    BY <2>2 DEF Once
  <2> QED BY <1>3, <1>8, <2>2, <2>3
<1>9. ASSUME \A k \in DOMAIN last : last[k] # m PROVE ~(z # 0 /\ last[z] = m)
  <2>1. CASE m.id \in IdsIn(last)
    BY <1>2, <1>9, <2>1
  <2>2. CASE m.id \notin IdsIn(last)
    BY <1>2, <2>2
  <2> QED BY <2>1, <2>2
<1>10. \/ Change(m) = <<>> \/ Change(m) = <<PatchEv(m)>>
       \/ \E c \in PageText : Change(m) = <<DeltaEv(m.id, c)>>
  BY <1>5, <1>6, Zenon
<1>11. (\E k \in DOMAIN last : last[k] = m) => Change(m) = <<>>
  BY <1>5, <1>8, Zenon
<1>12. m.id \notin IdsIn(last) => Change(m) = <<PatchEv(m)>>
  BY <1>2, <1>5, Zenon
<1>13. m.stage = "settled" /\ (\A k \in DOMAIN last : last[k] # m) => Change(m) = <<PatchEv(m)>>
  BY <1>5, <1>7, <1>9, Zenon
<1> QED BY <1>10, <1>11, <1>12, <1>13

\* The events of one turn of the server's loop: where each is from.
Changes == FlattenSeq([i \in DOMAIN Window |-> Change(Window[i])])
IsChange(e, m) == e = PatchEv(m) \/ \E d \in PageText : e = DeltaEv(m.id, d)

LEMMA ChangesAre ==
  ASSUME last \in Seq(Mess), Once(last), Window \in Seq(Mess)
  PROVE  /\ Changes \in Seq(Event)
         /\ \E p : /\ \A j \in 1..Len(Changes) : /\ p[j] \in DOMAIN Window
                                                 /\ Change(Window[p[j]]) = <<Changes[j]>>
                                                 /\ IsChange(Changes[j], Window[p[j]])
                   /\ \A i \in DOMAIN Window : Change(Window[i]) # <<>> =>
                        \E h \in 1..Len(Changes) : p[h] = i
                   /\ \A j \in 1..Len(Changes), i \in DOMAIN Window :
                        i < p[j] /\ Change(Window[i]) # <<>> => \E h \in 1..(j - 1) : p[h] = i
<1>1. PICK n \in Nat : n = Len(Window) /\ DOMAIN Window = 1..n
  OBVIOUS
<1>2. PICK s : s = [i \in DOMAIN Window |-> Change(Window[i])]
  OBVIOUS
<1>3. ASSUME NEW i \in 1..n PROVE s[i] \in Seq(Event) /\ (s[i] = <<>> \/ \E e \in Event : s[i] = <<e>>)
                                  /\ \A e : s[i] = <<e>> => IsChange(e, Window[i])
  <2>1. s[i] = Change(Window[i])
    BY <1>1, <1>2
  <2>2. PICK m \in Mess : m = Window[i]
    BY <1>1
  <2>3. \/ s[i] = <<>> \/ s[i] = <<PatchEv(m)>> \/ \E d \in PageText : s[i] = <<DeltaEv(m.id, d)>>
    BY <2>1, <2>2, ChangeIs
  <2>4. CASE s[i] = <<>>
    BY <2>4
  <2>5. CASE s[i] = <<PatchEv(m)>>
    <3>1. PICK e \in Event : e = PatchEv(m)
      BY EventFacts
    <3>2. s[i] = <<e>> /\ s[i] \in Seq(Event)
      BY <2>5, <3>1
    <3>3. \A c : s[i] = <<c>> => c = e
      BY <3>2
    <3> QED BY <2>2, <3>1, <3>2, <3>3, Zenon DEF IsChange
  <2>6. CASE \E d \in PageText : s[i] = <<DeltaEv(m.id, d)>>
    <3>0. PICK d \in PageText : s[i] = <<DeltaEv(m.id, d)>>
      BY <2>6
    <3>1. PICK e \in Event : e = DeltaEv(m.id, d)
      BY EventFacts
    <3>2. s[i] = <<e>> /\ s[i] \in Seq(Event)
      BY <3>0, <3>1
    <3>3. \A c : s[i] = <<c>> => c = e
      BY <3>2
    <3> QED BY <2>2, <3>1, <3>2, <3>3, Zenon DEF IsChange
  <2> QED BY <2>3, <2>4, <2>5, <2>6
<1>4. s \in Seq(Seq(Event)) /\ Len(s) = n
  <2>1. s \in [1..n -> Seq(Event)]
    BY <1>1, <1>2, <1>3
  <2> QED BY <2>1
<1>5. \A i \in 1..Len(s) : s[i] = <<>> \/ \E e \in Event : s[i] = <<e>>
  BY <1>3, <1>4
<1>6. FlattenSeq(s) \in Seq(Event) /\ \E p : Spread(s, FlattenSeq(s), p)
  BY <1>4, <1>5, FlattenSpread
<1>7. PICK t : t = FlattenSeq(s)
  OBVIOUS
<1>8. Changes = t
  BY <1>2, <1>7, Zenon DEF Changes
<1>9. PICK p : Spread(s, t, p)
  BY <1>6, <1>7
<1>10. \A i \in DOMAIN Window : s[i] = Change(Window[i])
  BY <1>2
<1>11. \A j \in 1..Len(t) : p[j] \in 1..n /\ s[p[j]] = <<t[j]>>
  BY <1>4, <1>9, Zenon DEF Spread
<1>12. \A j \in 1..Len(t) : IsChange(t[j], Window[p[j]])
  BY <1>3, <1>11, Zenon
<1>13. \A j \in 1..Len(t) : p[j] \in DOMAIN Window /\ Change(Window[p[j]]) = <<t[j]>>
  BY <1>1, <1>10, <1>11, Zenon
<1>14. \A i \in DOMAIN Window : Change(Window[i]) # <<>> => \E h \in 1..Len(t) : p[h] = i
  BY <1>1, <1>4, <1>9, <1>10, Zenon DEF Spread
<1>15. \A j \in 1..Len(t), i \in DOMAIN Window :
         i < p[j] /\ Change(Window[i]) # <<>> => \E h \in 1..(j - 1) : p[h] = i
  BY <1>1, <1>4, <1>9, <1>10, Zenon DEF Spread
<1> QED BY <1>6, <1>7, <1>8, <1>12, <1>13, <1>14, <1>15, Zenon

-----------------------------------------------------------------------------
\* More events behind those on their way.
LEMMA Longer ==
  ASSUME NEW E \in Seq(Event), NEW C \in Seq(Event), NEW E2, E2 = E \o C
  PROVE  /\ E2 \in Seq(Event) /\ Len(E) \in Nat /\ Len(C) \in Nat
         /\ DOMAIN E = 1..Len(E) /\ DOMAIN E2 = 1..(Len(E) + Len(C)) /\ DOMAIN C = 1..Len(C)
         /\ \A j \in DOMAIN E : j \in DOMAIN E2 /\ E2[j] = E[j]
         /\ \A j \in DOMAIN C : Len(E) + j \in DOMAIN E2 /\ E2[Len(E) + j] = C[j]
         /\ \A j \in DOMAIN E2 : j \in DOMAIN E \/ (j > Len(E) /\ j - Len(E) \in DOMAIN C)
OBVIOUS

\* The events of a turn of the loop: what they bring, and in which order.
LEMMA ChangesBring ==
  ASSUME last \in Seq(Mess), Once(last), Window \in Seq(Mess), Once(Window)
  PROVE  /\ \A j \in DOMAIN Changes : \E k \in DOMAIN Window :
              /\ Changes[j].kind # "full" /\ Change(Window[k]) = <<Changes[j]>>
              /\ \A x : Touches(Changes[j], x) => x = Window[k].id
              /\ Changes[j].kind = "patch" => Changes[j].m = Window[k]
              /\ \A i \in DOMAIN Window : i < k /\ Window[i].id \notin IdsIn(last) =>
                   \E h \in 1..(j - 1) : Carries(Changes[h], Window[i])
         /\ \A k \in DOMAIN Window : Change(Window[k]) = <<PatchEv(Window[k])>> =>
              \E j \in DOMAIN Changes : PatchOf(Changes[j], Window[k])
<1>1. PICK p : /\ \A j \in 1..Len(Changes) : /\ p[j] \in DOMAIN Window
                                             /\ Change(Window[p[j]]) = <<Changes[j]>>
                                             /\ IsChange(Changes[j], Window[p[j]])
               /\ \A i \in DOMAIN Window : Change(Window[i]) # <<>> =>
                    \E h \in 1..Len(Changes) : p[h] = i
               /\ \A j \in 1..Len(Changes), i \in DOMAIN Window :
                    i < p[j] /\ Change(Window[i]) # <<>> => \E h \in 1..(j - 1) : p[h] = i
  BY ChangesAre
<1>2. PICK n \in Nat : n = Len(Changes) /\ DOMAIN Changes = 1..n
  BY ChangesAre
<1>3. \A k \in DOMAIN Window : Window[k] \in Mess
  OBVIOUS
<1>4. ASSUME NEW i \in DOMAIN Window, NEW h \in 1..n, p[h] = i, Change(Window[i]) = <<PatchEv(Window[i])>>
      PROVE  PatchOf(Changes[h], Window[i])
  <2>1. <<Changes[h]>> = <<PatchEv(Window[i])>>
    BY <1>1, <1>2, <1>4, Zenon
  <2>2. Changes[h] = PatchEv(Window[i])
    BY <2>1
  <2>3. PICK m \in Mess : m = Window[i]
    BY <1>3
  <2>4. PatchEv(m).kind = "patch" /\ PatchEv(m).m = m
    BY EventFacts
  <2> QED BY <2>2, <2>3, <2>4, Zenon DEF PatchOf
<1>5. ASSUME NEW k \in DOMAIN Window, Change(Window[k]) = <<PatchEv(Window[k])>>
      PROVE  \E j \in DOMAIN Changes : PatchOf(Changes[j], Window[k])
  <2>1. Change(Window[k]) # <<>>
    BY <1>5
  <2>2. PICK h \in 1..n : p[h] = k
    BY <1>1, <1>2, <2>1, Zenon
  <2> QED BY <1>2, <1>4, <1>5, <2>2
<1>6. ASSUME NEW j \in DOMAIN Changes
      PROVE  \E k \in DOMAIN Window :
              /\ Changes[j].kind # "full" /\ Change(Window[k]) = <<Changes[j]>>
              /\ \A x : Touches(Changes[j], x) => x = Window[k].id
              /\ Changes[j].kind = "patch" => Changes[j].m = Window[k]
              /\ \A i \in DOMAIN Window : i < k /\ Window[i].id \notin IdsIn(last) =>
                   \E h \in 1..(j - 1) : Carries(Changes[h], Window[i])
  <2>1. PICK k \in DOMAIN Window : k = p[j]
    BY <1>1, <1>2, <1>6, Zenon
  <2>2. PICK m \in Mess : m = Window[k]
    BY <1>3
  <2>3. IsChange(Changes[j], m) /\ Change(m) = <<Changes[j]>>
    BY <1>1, <1>2, <1>6, <2>1, <2>2, Zenon
  <2>5. /\ Changes[j].kind # "full" /\ (\A x : Touches(Changes[j], x) => x = m.id)
        /\ Changes[j].kind = "patch" => Changes[j].m = m
    <3>1. CASE Changes[j] = PatchEv(m)
      BY <3>1, EventFacts DEF Touches
    <3>2. CASE \E d \in PageText : Changes[j] = DeltaEv(m.id, d)
      <4>1. PICK d \in PageText : Changes[j] = DeltaEv(m.id, d)
        BY <3>2
      <4>2. Changes[j].kind = "delta" /\ Changes[j].id = m.id
        BY <4>1, EventFacts
      <4> QED BY <4>2 DEF Touches
    <3> QED BY <2>3, <3>1, <3>2 DEF IsChange
  <2>6. ASSUME NEW i \in DOMAIN Window, i < k, Window[i].id \notin IdsIn(last)
        PROVE  \E h \in 1..(j - 1) : Carries(Changes[h], Window[i])
    <3>1. Change(Window[i]) = <<PatchEv(Window[i])>>
      BY <1>3, <2>6, ChangeIs
    <3>2. Change(Window[i]) # <<>>
      BY <3>1
    <3>3. PICK h \in 1..(j - 1) : p[h] = i
      BY <1>1, <1>2, <1>6, <2>1, <2>6, <3>2, Zenon
    <3>4. h \in 1..n
      BY <1>2, <1>6, <3>3
    <3>5. PatchOf(Changes[h], Window[i])
      BY <1>4, <3>1, <3>3, <3>4
    <3> QED BY <3>5, Zenon DEF PatchOf, Carries
  <2> QED BY <2>2, <2>3, <2>5, <2>6, Zenon
<1> QED BY <1>5, <1>6, Zenon

LEMMA PollTracks ==
  ASSUME last \in Seq(Mess), Once(last), Window \in Seq(Mess), Once(Window),
         NEW E \in Seq(Event), NEW E2, E2 = E \o Changes,
         NEW V, NEW n \in Nat, n <= Len(E), Tracks(V, E, n, last, Window)
  PROVE  Tracks(V, E2, n, Window, Window)
<1> DEFINE e == Len(E)
<1>0. Changes \in Seq(Event)
  BY ChangesAre, Zenon
<1>1. /\ e \in Nat
      /\ \A j \in DOMAIN E : j \in DOMAIN E2 /\ E2[j] = E[j]
      /\ \A j \in DOMAIN Changes : e + j \in DOMAIN E2 /\ E2[e + j] = Changes[j]
      /\ \A j \in DOMAIN E2 : j \in DOMAIN E \/ (j > e /\ j - e \in DOMAIN Changes)
      /\ DOMAIN E = 1..e /\ DOMAIN Changes = 1..Len(Changes) /\ Len(Changes) \in Nat
  BY <1>0, Longer
<1>2. n <= e
  OBVIOUS
<1> HIDE DEF e
<1>3. CASE Renewed(E, n)
  <2>1. Renewed(E2, n)
    BY <1>1, <1>3, Zenon DEF Renewed
  <2> QED BY <2>1 DEF Tracks
<1>4. CASE ~Renewed(E, n)
  <2>1. Tidy(V) /\ InOrder(V, Window) /\ AllCome(V, E, n, last, Window)
        /\ AllRight(V, E, n, last, Window) /\ ComeInOrder(V, E, n, Window)
    BY <1>4, Zenon DEF Tracks
  <2>2. ASSUME NEW k \in DOMAIN Window, Window[k].id \in IdsIn(last)
        PROVE  Window[k].id \in IdsIn(V) \/ \E j \in DOMAIN E : j > n /\ Carries(E[j], Window[k])
    <3>1. PICK q \in DOMAIN last : last[q].id = Window[k].id
      BY <2>2 DEF IdsIn
    <3>2. last[q].id \in IdsIn(Window)
      BY <3>1 DEF IdsIn
    <3>3. last[q].id \in IdsIn(V) \/ \E j \in DOMAIN E : j > n /\ Carries(E[j], last[q])
      BY <2>1, <3>2, Zenon DEF AllCome
    <3> QED BY <3>1, <3>3, Zenon DEF Carries
  <2>3. \A j \in DOMAIN Changes : e + j > n
    BY <1>1, <1>2
  <2>4. ASSUME NEW k \in DOMAIN Window, Window[k].id \notin IdsIn(last)
        PROVE  \E j \in DOMAIN E2 : j > n /\ Carries(E2[j], Window[k])
    <3>1. Change(Window[k]) = <<PatchEv(Window[k])>>
      BY <2>4, ChangeIs
    <3>2. PICK j \in DOMAIN Changes : PatchOf(Changes[j], Window[k])
      BY <3>1, ChangesBring
    <3> QED BY <1>1, <2>3, <3>2, ZenonT(40) DEF PatchOf, Carries
  <2>5. AllCome(V, E2, n, Window, Window)
    <3> SUFFICES ASSUME NEW k \in DOMAIN Window
                 PROVE  Window[k].id \in IdsIn(V) \/ \E j \in DOMAIN E2 : j > n /\ Carries(E2[j], Window[k])
      BY Zenon DEF AllCome
    <3> QED BY <1>1, <2>2, <2>4, Zenon
  <2>6. AllRight(V, E2, n, Window, Window)
    <3> SUFFICES ASSUME NEW k \in DOMAIN Window, Window[k].stage = "settled"
                 PROVE  \/ \E j \in DOMAIN E2 : j > n /\ PatchOf(E2[j], Window[k])
                        \/ \E o \in DOMAIN V : V[o].id = Window[k].id /\ V[o].text = Render(Window[k].text)
      BY Zenon DEF AllRight
    <3>1. CASE \E q \in DOMAIN last : last[q] = Window[k]
      <4>1. PICK q \in DOMAIN last : last[q] = Window[k]
        BY <3>1
      <4>2. last[q].id \in IdsIn(Window) /\ last[q].stage = "settled"
        BY <4>1 DEF IdsIn
      <4>3. \/ \E j \in DOMAIN E : j > n /\ PatchOf(E[j], last[q])
            \/ \E o \in DOMAIN V : V[o].id = last[q].id /\ V[o].text = Render(last[q].text)
        BY <2>1, <4>2, Zenon DEF AllRight
      <4> QED BY <1>1, <4>1, <4>3, Zenon
    <3>2. CASE \A q \in DOMAIN last : last[q] # Window[k]
      <4>1. Change(Window[k]) = <<PatchEv(Window[k])>>
        BY <3>2, ChangeIs
      <4>2. PICK j \in DOMAIN Changes : PatchOf(Changes[j], Window[k])
        BY <4>1, ChangesBring
      <4> QED BY <1>1, <2>3, <4>2, Zenon
    <3> QED BY <3>1, <3>2
  <2>7. ComeInOrder(V, E2, n, Window)
    <3> SUFFICES ASSUME NEW i \in DOMAIN Window, NEW k \in DOMAIN Window, NEW j \in DOMAIN E2,
                        i < k, j > n, Carries(E2[j], Window[k])
                 PROVE  Window[i].id \in IdsIn(V)
                        \/ \E h \in DOMAIN E2 : h > n /\ h < j /\ Carries(E2[h], Window[i])
      BY Zenon DEF ComeInOrder
    <3>1. CASE j \in DOMAIN E
      <4>1. Carries(E[j], Window[k])
        BY <1>1, <3>1, Zenon
      <4>2. Window[i].id \in IdsIn(V) \/ \E h \in DOMAIN E : h > n /\ h < j /\ Carries(E[h], Window[i])
        BY <2>1, <3>1, <4>1, Zenon DEF ComeInOrder
      <4> QED BY <1>1, <4>2, Zenon
    <3>2. CASE j > e /\ j - e \in DOMAIN Changes
      <4>1. PICK c \in DOMAIN Changes : c = j - e /\ e + c = j
        BY <1>1, <3>2
      <4>2. E2[j] = Changes[c]
        BY <1>1, <4>1, Zenon
      <4>3. CASE Window[i].id \in IdsIn(last)
        <5>1. Window[i].id \in IdsIn(V) \/ \E h \in DOMAIN E : h > n /\ Carries(E[h], Window[i])
          BY <2>2, <4>3
        <5>2. \A h \in DOMAIN E : h < j
          BY <1>1, <3>2
        <5> QED BY <1>1, <5>1, <5>2, Zenon
      <4>4. CASE Window[i].id \notin IdsIn(last)
        <5>1. PICK b \in DOMAIN Window :
                /\ Changes[c].kind = "patch" => Changes[c].m = Window[b]
                /\ \A a \in DOMAIN Window : a < b /\ Window[a].id \notin IdsIn(last) =>
                     \E h \in 1..(c - 1) : Carries(Changes[h], Window[a])
          BY ChangesBring, Zenon
        <5>2. Window[b].id = Window[k].id
          BY <4>2, <5>1, Zenon DEF Carries
        <5>3. b = k
          BY <5>2 DEF Once
        <5>4. PICK h \in 1..(c - 1) : Carries(Changes[h], Window[i])
          BY <4>4, <5>1, <5>3, Zenon
        <5>5. h \in DOMAIN Changes /\ e + h < j
          BY <1>1, <4>1, <5>4, SMTT(30)
        <5> QED BY <1>1, <2>3, <5>4, <5>5, Zenon
      <4> QED BY <4>3, <4>4
    <3> QED BY <1>1, <3>1, <3>2
  <2> QED BY <2>1, <2>5, <2>6, <2>7, Zenon DEF Tracks
<1> QED BY <1>3, <1>4

LEMMA PollCorrected ==
  ASSUME last \in Seq(Mess), Once(last), Window \in Seq(Mess), Once(Window),
         NEW E \in Seq(Event), NEW E2, E2 = E \o Changes, Corrected(E, last)
  PROVE  Corrected(E2, Window)
<1> DEFINE e == Len(E)
<1>0. Changes \in Seq(Event)
  BY ChangesAre, Zenon
<1>1. /\ e \in Nat
      /\ \A j \in DOMAIN E : j \in DOMAIN E2 /\ E2[j] = E[j]
      /\ \A j \in DOMAIN Changes : e + j \in DOMAIN E2 /\ E2[e + j] = Changes[j]
      /\ \A j \in DOMAIN E2 : j \in DOMAIN E \/ (j > e /\ j - e \in DOMAIN Changes)
      /\ DOMAIN E = 1..e /\ DOMAIN Changes = 1..Len(Changes) /\ Len(Changes) \in Nat
  BY <1>0, Longer
<1> HIDE DEF e
<1> SUFFICES ASSUME NEW k \in DOMAIN Window, NEW j \in DOMAIN E2, Window[k].stage = "settled",
                    Touches(E2[j], Window[k].id), ~PatchOf(E2[j], Window[k])
             PROVE  \E h \in DOMAIN E2 : h > j /\ (E2[h].kind = "full" \/ PatchOf(E2[h], Window[k]))
  BY Zenon DEF Corrected
<1>2. CASE j \in DOMAIN E
  <2>0. \A h \in DOMAIN Changes : e + h > j
    BY <1>1, <1>2
  <2>1. CASE \E q \in DOMAIN last : last[q] = Window[k]
    <3>1. PICK q \in DOMAIN last : last[q] = Window[k]
      BY <2>1
    <3>2. E2[j] = E[j]
      BY <1>1, <1>2, Zenon
    <3>3. \E h \in DOMAIN E : h > j /\ (E[h].kind = "full" \/ PatchOf(E[h], last[q]))
      BY <1>2, <3>1, <3>2, Zenon DEF Corrected
    <3> QED BY <1>1, <3>1, <3>3, Zenon
  <2>2. CASE \A q \in DOMAIN last : last[q] # Window[k]
    <3>1. Change(Window[k]) = <<PatchEv(Window[k])>>
      BY <2>2, ChangeIs
    <3>2. PICK h \in DOMAIN Changes : PatchOf(Changes[h], Window[k])
      BY <3>1, ChangesBring
    <3> QED BY <1>1, <2>0, <3>2, Zenon
  <2> QED BY <2>1, <2>2
<1>3. CASE j > e /\ j - e \in DOMAIN Changes
  <2>1. PICK c \in DOMAIN Changes : c = j - e /\ e + c = j
    BY <1>1, <1>3
  <2>2. E2[j] = Changes[c]
    BY <1>1, <2>1, Zenon
  <2>3. PICK b \in DOMAIN Window :
          /\ Change(Window[b]) = <<Changes[c]>>
          /\ \A x : Touches(Changes[c], x) => x = Window[b].id
          /\ Changes[c].kind = "patch" => Changes[c].m = Window[b]
    BY ChangesBring, Zenon
  <2>4. Window[k].id = Window[b].id
    BY <2>2, <2>3, Zenon
  <2>5. k = b
    BY <2>4 DEF Once
  <2>6. Changes[c].kind # "patch"
    BY <2>2, <2>3, <2>5, Zenon DEF PatchOf
  <2>70. <<Changes[c]>> # <<>>
    OBVIOUS
  <2>7. Change(Window[k]) # <<>>
    BY <2>3, <2>5, <2>70, Zenon
  <2>8. \A q \in DOMAIN last : last[q] # Window[k]
    BY <2>7, ChangeIs
  <2>9. Change(Window[k]) = <<PatchEv(Window[k])>>
    BY <2>8, ChangeIs
  <2>10. <<Changes[c]>> = <<PatchEv(Window[k])>>
    BY <2>3, <2>5, <2>9, Zenon
  <2>11. Changes[c] = PatchEv(Window[k])
    BY <2>10
  <2>12. PatchEv(Window[k]).kind = "patch"
    BY EventFacts
  <2> QED BY <2>6, <2>11, <2>12
<1> QED BY <1>1, <1>2, <1>3

-----------------------------------------------------------------------------
\* The first event is applied.
LEMMA Shorter ==
  ASSUME NEW E \in Seq(Event), E # <<>>, NEW T, T = Tail(E)
  PROVE  /\ T \in Seq(Event) /\ 1 \in DOMAIN E /\ Head(E) = E[1] /\ E[1] \in Event
         /\ \A j \in DOMAIN T : j + 1 \in DOMAIN E /\ T[j] = E[j + 1] /\ j \in Nat /\ j > 0
         /\ \A j \in DOMAIN E : j \in Nat /\ (j = 1 \/ (j > 1 /\ j - 1 \in DOMAIN T /\ T[j - 1] = E[j]))
<1>1. PICK n \in Nat : n = Len(E) /\ n > 0 /\ DOMAIN E = 1..n
  OBVIOUS
<1>2. T \in Seq(Event) /\ Len(T) = n - 1 /\ DOMAIN T = 1..(n - 1) /\ \A j \in 1..(n - 1) : T[j] = E[j + 1]
  BY <1>1
<1>3. \A j \in 1..(n - 1) : j + 1 \in 1..n /\ j \in Nat /\ j > 0
  BY <1>1
<1>4. \A j \in 1..n : j \in Nat /\ (j = 1 \/ (j > 1 /\ j - 1 \in 1..(n - 1) /\ (j - 1) + 1 = j))
  BY <1>1
<1>5. 1 \in DOMAIN E /\ Head(E) = E[1] /\ E[1] \in Event
  BY <1>1
<1>6. \A j \in DOMAIN E : j \in Nat /\ (j = 1 \/ (j > 1 /\ j - 1 \in DOMAIN T /\ T[j - 1] = E[j]))
  <2> SUFFICES ASSUME NEW j \in 1..n, j # 1 PROVE j > 1 /\ j - 1 \in 1..(n - 1) /\ T[j - 1] = E[j]
    BY <1>1, <1>2, <1>4
  <2>1. PICK i \in 1..(n - 1) : i = j - 1 /\ i + 1 = j /\ j > 1
    BY <1>4
  <2>2. T[i] = E[i + 1]
    BY <1>2
  <2> QED BY <2>1, <2>2
<1> QED BY <1>1, <1>2, <1>3, <1>5, <1>6

LEMMA ShiftTracks ==
  ASSUME NEW E \in Seq(Event), E # <<>>, NEW T, T = Tail(E), NEW V, NEW n \in Nat, NEW L, NEW W,
         Tracks(V, E, n + 1, L, W)
  PROVE  Tracks(V, T, n, L, W)
<1>1. /\ \A j \in DOMAIN T : j + 1 \in DOMAIN E /\ T[j] = E[j + 1] /\ j \in Nat
      /\ \A j \in DOMAIN E : j \in Nat /\ (j = 1 \/ (j > 1 /\ j - 1 \in DOMAIN T /\ T[j - 1] = E[j]))
  BY Shorter
<1>2. ASSUME NEW j \in DOMAIN E, j > n + 1
      PROVE  \E i \in DOMAIN T : i > n /\ i + 1 = j /\ T[i] = E[j]
  <2>1. j \in Nat /\ j # 1
    BY <1>1, <1>2
  <2>2. j - 1 \in DOMAIN T /\ T[j - 1] = E[j]
    BY <1>1, <2>1
  <2>3. PICK i : i = j - 1
    OBVIOUS
  <2>4. i > n /\ i + 1 = j
    BY <1>2, <2>1, <2>3
  <2> QED BY <2>2, <2>3, <2>4, Zenon
<1>3. \A i \in DOMAIN T : i > n => i + 1 > n + 1
  BY <1>1
<1>4. CASE Renewed(E, n + 1)
  <2>1. Renewed(T, n)
    BY <1>2, <1>4, Zenon DEF Renewed
  <2> QED BY <2>1 DEF Tracks
<1>5. CASE ~Renewed(E, n + 1)
  <2>1. Tidy(V) /\ InOrder(V, W) /\ AllCome(V, E, n + 1, L, W) /\ AllRight(V, E, n + 1, L, W)
        /\ ComeInOrder(V, E, n + 1, W)
    BY <1>5, Zenon DEF Tracks
  <2>2. AllCome(V, T, n, L, W)
    BY <1>2, <2>1, Zenon DEF AllCome
  <2>3. AllRight(V, T, n, L, W)
    BY <1>2, <2>1, Zenon DEF AllRight
  <2>4. ComeInOrder(V, T, n, W)
    <3> SUFFICES ASSUME NEW i \in DOMAIN W, NEW k \in DOMAIN W, NEW j \in DOMAIN T,
                        i < k, j > n, Carries(T[j], W[k])
                 PROVE  W[i].id \in IdsIn(V)
                        \/ \E h \in DOMAIN T : h > n /\ h < j /\ Carries(T[h], W[i])
      BY Zenon DEF ComeInOrder
    <3>1. Carries(E[j + 1], W[k]) /\ j + 1 \in DOMAIN E /\ j + 1 > n + 1
      BY <1>1, <1>3, Zenon
    <3>2. W[i].id \in IdsIn(V) \/ \E h \in DOMAIN E : h > n + 1 /\ h < j + 1 /\ Carries(E[h], W[i])
      BY <2>1, <3>1, Zenon DEF ComeInOrder
    <3>3. ASSUME NEW h \in DOMAIN E, h > n + 1, h < j + 1, Carries(E[h], W[i])
          PROVE  \E g \in DOMAIN T : g > n /\ g < j /\ Carries(T[g], W[i])
      <4>1. PICK g \in DOMAIN T : g > n /\ g + 1 = h /\ T[g] = E[h]
        BY <1>2, <3>3
      <4>2. g < j
        BY <1>1, <3>3, <4>1
      <4> QED BY <3>3, <4>1, <4>2, Zenon
    <3> QED BY <3>2, <3>3, Zenon
  <2> QED BY <2>1, <2>2, <2>3, <2>4, Zenon DEF Tracks
<1> QED BY <1>4, <1>5

\* The nodes after an event for one message.
Applied(V, V2, e) ==
  /\ \A o \in DOMAIN V : /\ o \in DOMAIN V2 /\ V2[o].id = V[o].id
                         /\ V2[o].text = V[o].text \/ Touches(e, V[o].id)
  /\ e.kind = "patch" => \E o \in DOMAIN V2 : V2[o].id = e.m.id /\ V2[o].text = Render(e.m.text)

LEMMA AppliedTracks ==
  ASSUME NEW E \in Seq(Event), E # <<>>, NEW T, T = Tail(E), NEW V, NEW V2, NEW L, NEW W,
         Tracks(V, E, 0, L, W), Corrected(E, L), E[1].kind # "full", Applied(V, V2, E[1]),
         ~Renewed(E, 0) => Tidy(V2) /\ InOrder(V2, W)
  PROVE  Tracks(V2, T, 0, L, W)
<1>1. /\ \A j \in DOMAIN T : j + 1 \in DOMAIN E /\ T[j] = E[j + 1] /\ j \in Nat
      /\ \A j \in DOMAIN E : j \in Nat /\ (j = 1 \/ (j > 1 /\ j - 1 \in DOMAIN T /\ T[j - 1] = E[j]))
      /\ 1 \in DOMAIN E /\ \A j \in DOMAIN T : j > 0
  BY Shorter
<1>2. ASSUME NEW j \in DOMAIN E, j # 1
      PROVE  \E i \in DOMAIN T : i > 0 /\ i + 1 = j /\ T[i] = E[j]
  <2>1. j \in Nat /\ j - 1 \in DOMAIN T /\ T[j - 1] = E[j]
    BY <1>1, <1>2
  <2>2. PICK i : i = j - 1
    OBVIOUS
  <2>3. i + 1 = j
    BY <2>1, <2>2
  <2> QED BY <1>1, <2>1, <2>2, <2>3, Zenon
<1>3. CASE Renewed(E, 0)
  <2>1. Renewed(T, 0)
    BY <1>2, <1>3, Zenon DEF Renewed
  <2> QED BY <2>1 DEF Tracks
<1>4. CASE ~Renewed(E, 0)
  <2>1. AllCome(V, E, 0, L, W) /\ AllRight(V, E, 0, L, W) /\ ComeInOrder(V, E, 0, W)
        /\ Tidy(V2) /\ InOrder(V2, W)
    BY <1>4, Zenon DEF Tracks
  <2>2. \A x \in IdsIn(V) : x \in IdsIn(V2)
    <3> SUFFICES ASSUME NEW o \in DOMAIN V PROVE V[o].id \in IdsIn(V2)
      BY Zenon DEF IdsIn
    <3>1. o \in DOMAIN V2 /\ V2[o].id = V[o].id
      BY Zenon DEF Applied
    <3> QED BY <3>1, Zenon DEF IdsIn
  <2>3. \A m : Carries(E[1], m) => m.id \in IdsIn(V2)
    BY Zenon DEF Carries, Applied, IdsIn
  <2>4. AllCome(V2, T, 0, L, W)
    <3> SUFFICES ASSUME NEW k \in DOMAIN L, L[k].id \in IdsIn(W)
                 PROVE  L[k].id \in IdsIn(V2) \/ \E j \in DOMAIN T : j > 0 /\ Carries(T[j], L[k])
      BY Zenon DEF AllCome
    <3>1. L[k].id \in IdsIn(V) \/ \E j \in DOMAIN E : j > 0 /\ Carries(E[j], L[k])
      BY <2>1, Zenon DEF AllCome
    <3> QED BY <1>2, <2>2, <2>3, <3>1, Zenon
  <2>5. AllRight(V2, T, 0, L, W)
    <3> SUFFICES ASSUME NEW k \in DOMAIN L, L[k].id \in IdsIn(W), L[k].stage = "settled"
                 PROVE  \/ \E j \in DOMAIN T : j > 0 /\ PatchOf(T[j], L[k])
                        \/ \E o \in DOMAIN V2 : V2[o].id = L[k].id /\ V2[o].text = Render(L[k].text)
      BY Zenon DEF AllRight
    <3>1. CASE PatchOf(E[1], L[k])
      BY <3>1, Zenon DEF PatchOf, Applied
    <3>2. CASE \E j \in DOMAIN E : j # 1 /\ PatchOf(E[j], L[k])
      BY <1>2, <3>2, Zenon
    <3>3. ASSUME ~PatchOf(E[1], L[k]), NEW o \in DOMAIN V, V[o].id = L[k].id, V[o].text = Render(L[k].text)
          PROVE  \/ \E j \in DOMAIN T : j > 0 /\ PatchOf(T[j], L[k])
                 \/ \E q \in DOMAIN V2 : V2[q].id = L[k].id /\ V2[q].text = Render(L[k].text)
      <4>1. CASE Touches(E[1], L[k].id)
        <5>1. PICK h \in DOMAIN E : h > 1 /\ (E[h].kind = "full" \/ PatchOf(E[h], L[k]))
          BY <1>1, <3>3, <4>1, Zenon DEF Corrected
        <5>2. h > 0 /\ h # 1
          BY <1>1, <5>1
        <5>3. PatchOf(E[h], L[k])
          BY <1>4, <5>1, <5>2, Zenon DEF Renewed
        <5> QED BY <1>2, <5>2, <5>3, Zenon
      <4>2. CASE ~Touches(E[1], L[k].id)
        BY <3>3, <4>2, Zenon DEF Applied
      <4> QED BY <4>1, <4>2
    <3>4. \/ \E j \in DOMAIN E : j > 0 /\ PatchOf(E[j], L[k])
          \/ \E o \in DOMAIN V : V[o].id = L[k].id /\ V[o].text = Render(L[k].text)
      BY <2>1, Zenon DEF AllRight
    <3> QED BY <3>1, <3>2, <3>3, <3>4, Zenon
  <2>6. ComeInOrder(V2, T, 0, W)
    <3> SUFFICES ASSUME NEW i \in DOMAIN W, NEW k \in DOMAIN W, NEW j \in DOMAIN T,
                        i < k, j > 0, Carries(T[j], W[k])
                 PROVE  W[i].id \in IdsIn(V2)
                        \/ \E h \in DOMAIN T : h > 0 /\ h < j /\ Carries(T[h], W[i])
      BY Zenon DEF ComeInOrder
    <3>0. j \in Nat /\ j + 1 > 0
      BY <1>1
    <3>1. Carries(E[j + 1], W[k]) /\ j + 1 \in DOMAIN E
      BY <1>1, Zenon
    <3>2. W[i].id \in IdsIn(V) \/ \E h \in DOMAIN E : h > 0 /\ h < j + 1 /\ Carries(E[h], W[i])
      BY <2>1, <3>0, <3>1, Zenon DEF ComeInOrder
    <3>3. ASSUME NEW h \in DOMAIN E, h # 1, h < j + 1, Carries(E[h], W[i])
          PROVE  \E g \in DOMAIN T : g > 0 /\ g < j /\ Carries(T[g], W[i])
      <4>1. PICK g \in DOMAIN T : g > 0 /\ g + 1 = h /\ T[g] = E[h]
        BY <1>2, <3>3
      <4>2. g < j
        BY <1>1, <3>0, <3>3, <4>1
      <4> QED BY <3>3, <4>1, <4>2, Zenon
    <3> QED BY <2>2, <2>3, <3>2, <3>3, Zenon
  <2> QED BY <2>1, <2>4, <2>5, <2>6, Zenon DEF Tracks
<1> QED BY <1>3, <1>4

-----------------------------------------------------------------------------
\* The nodes: one of them is changed, or one is added.
LEMMA NodeSet ==
  ASSUME NEW V \in Seq(Node), NEW o \in DOMAIN V, NEW y \in Node, NEW V2, V2 = [V EXCEPT ![o] = y]
  PROVE  /\ V2 \in Seq(Node) /\ DOMAIN V2 = DOMAIN V /\ V2[o] = y
         /\ \A i \in DOMAIN V : i # o => V2[i] = V[i]
OBVIOUS

LEMMA NodeAdd ==
  ASSUME NEW V \in Seq(Node), NEW y \in Node, NEW V2, V2 = Append(V, y)
  PROVE  /\ V2 \in Seq(Node) /\ Len(V) \in Nat /\ DOMAIN V = 1..Len(V) /\ DOMAIN V2 = 1..(Len(V) + 1)
         /\ V2[Len(V) + 1] = y /\ \A i \in DOMAIN V : i \in DOMAIN V2 /\ V2[i] = V[i]
OBVIOUS

\* A text of a node is changed.
LEMMA TextSet ==
  ASSUME NEW V \in Seq(Node), NEW o \in DOMAIN V, NEW t \in PageText, NEW V2,
         V2 = [V EXCEPT ![o].text = t]
  PROVE  /\ V2 \in Seq(Node) /\ DOMAIN V2 = DOMAIN V /\ V2[o].text = t
         /\ \A i \in DOMAIN V : /\ V2[i].id = V[i].id /\ V2[i].pend = V[i].pend
                                /\ i # o => V2[i].text = V[i].text
<1>1. PICK y : y = [V[o] EXCEPT !.text = t]
  OBVIOUS
<1>2. V[o] \in Node
  OBVIOUS
<1>3. y \in Node /\ y.text = t /\ y.id = V[o].id /\ y.pend = V[o].pend
  BY <1>1, <1>2 DEF Node
<1>4. V2 = [V EXCEPT ![o] = y]
  BY <1>1
<1>50. V \in Seq(Node) /\ o \in DOMAIN V /\ y \in Node
  BY <1>3
<1>5. /\ V2 \in Seq(Node) /\ DOMAIN V2 = DOMAIN V /\ V2[o] = y
      /\ \A i \in DOMAIN V : i # o => V2[i] = V[i]
  BY ONLY <1>4, <1>50, NodeSet
<1> QED BY <1>3, <1>5

LEMMA SameIds ==
  ASSUME NEW V, NEW V2, DOMAIN V2 = DOMAIN V,
         \A i \in DOMAIN V : V2[i].id = V[i].id /\ V2[i].pend = V[i].pend
  PROVE  /\ IdsIn(V2) = IdsIn(V) /\ (Tidy(V) => Tidy(V2))
BY DEF IdsIn, Tidy, Once

LEMMA SameOrder ==
  ASSUME NEW V \in Seq(Node), NEW V2, DOMAIN V2 = DOMAIN V, \A i \in DOMAIN V : V2[i].id = V[i].id,
         NEW W, InOrder(V, W)
  PROVE  InOrder(V2, W)
<1> SUFFICES ASSUME NEW i \in DOMAIN W, NEW k \in DOMAIN W, NEW o \in DOMAIN V2, i < k, V2[o].id = W[k].id
             PROVE  \E n \in 1..(o - 1) : V2[n].id = W[i].id
  BY Zenon DEF InOrder
<1>1. PICK n \in 1..(o - 1) : V[n].id = W[i].id
  BY Zenon DEF InOrder
<1>2. n \in DOMAIN V
  BY <1>1
<1> QED BY <1>1, <1>2, Zenon

PendIn(s, r) == LET I == {i \in 1..Len(s) : s[i].pend = r} IN IF I # {} THEN Min(I) ELSE 0

LEMMA PendOf ==
  ASSUME NEW X, NEW s \in Seq(X), NEW r
  PROVE  PendIn(s, r) = 0 \/ (PendIn(s, r) \in DOMAIN s /\ s[PendIn(s, r)].pend = r)
<1> DEFINE I == {i \in 1..Len(s) : s[i].pend = r}
<1>1. PendIn(s, r) = IF I # {} THEN Min(I) ELSE 0
  BY Zenon DEF PendIn
<1>2. DOMAIN s = 1..Len(s) /\ Len(s) \in Nat
  OBVIOUS
<1>4. I # {} => Min(I) \in I
  BY <1>2, EndsOf
<1> QED BY <1>1, <1>2, <1>4

LEMMA ChatMessageIs ==
  ASSUME NEW m \in Mess
  PROVE  /\ ChatMessage(m) \in Node /\ ChatMessage(m).id = m.id /\ ChatMessage(m).pend = "none"
         /\ ChatMessage(m).text = Render(m.text) /\ ChatMessage(m).key = NoId
<1>1. PICK t \in PageText : t = Render(m.text)
  BY RenderType DEF Mess
<1>2. m.id \in Ids
  BY DEF Mess
<1>3. PICK y : y = [key |-> NoId, id |-> m.id, pend |-> "none", text |-> t]
  OBVIOUS
<1>4. ChatMessage(m) = y
  BY <1>1, <1>3, Zenon DEF ChatMessage
<1>5. y \in Node /\ y.id = m.id /\ y.pend = "none" /\ y.text = t /\ y.key = NoId
  BY <1>2, <1>3 DEF Node
<1> QED BY <1>1, <1>4, <1>5, Zenon

LEMMA ChatMessagesAre ==
  ASSUME NEW w \in Seq(Mess)
  PROVE  /\ ChatMessages(w) \in Seq(Node) /\ DOMAIN ChatMessages(w) = DOMAIN w
         /\ \A i \in DOMAIN w : /\ ChatMessages(w)[i].id = w[i].id /\ ChatMessages(w)[i].pend = "none"
                                /\ ChatMessages(w)[i].text = Render(w[i].text)
         /\ IdsIn(ChatMessages(w)) = IdsIn(w)
<1>1. PICK n \in Nat : n = Len(w) /\ DOMAIN w = 1..n
  OBVIOUS
<1>2. PICK v : v = ChatMessages(w)
  OBVIOUS
<1>3. v = [i \in 1..n |-> ChatMessage(w[i])]
  BY <1>1, <1>2, Zenon DEF ChatMessages
<1>4. \A i \in 1..n : /\ v[i] \in Node /\ v[i].id = w[i].id /\ v[i].pend = "none"
                      /\ v[i].text = Render(w[i].text)
  BY <1>1, <1>3, ChatMessageIs
<1>5. v \in [1..n -> Node]
  BY <1>3, <1>4
<1>6. v \in Seq(Node) /\ DOMAIN v = 1..n
  BY <1>5
<1>7. IdsIn(v) = IdsIn(w)
  BY <1>1, <1>4, <1>6 DEF IdsIn
<1> QED BY <1>1, <1>2, <1>4, <1>6, <1>7, Zenon

\* upsertMessageHTML changes the message's node, a waiting one, or adds one.
LEMMA UpsertIs ==
  ASSUME view \in Seq(Node), NEW m \in Mess, NEW V2, V2 = UpsertMessageHTML(m)
  PROVE  /\ V2 \in Seq(Node) /\ IdsIn(V2) \subseteq IdsIn(view) \cup {m.id}
         /\ \/ \E o \in DOMAIN view : view[o].id = m.id /\ V2 = [view EXCEPT ![o].text = Render(m.text)]
            \/ ~Tidy(view)
            \/ m.id \notin IdsIn(view) /\ V2 = Append(view, ChatMessage(m))
<1>1. PICK a, b, t : a = FirstIn(view, m.id) /\ b = PendIn(view, m.role) /\ t = Render(m.text)
  OBVIOUS
<1>2. V2 = IF a # 0 THEN [view EXCEPT ![a].text = t]
           ELSE IF b # 0 THEN [view EXCEPT ![b].id = m.id, ![b].pend = "none", ![b].text = t]
           ELSE Append(view, ChatMessage(m))
  <2>1. a = NodeOf(m.id)
    BY <1>1, BeforeIs, Zenon
  <2>2. b = SelectInSeq(view, LAMBDA n : n.pend = m.role)
    BY <1>1, Zenon DEF PendIn, SelectInSeq
  <2> QED BY <1>1, <2>1, <2>2, Zenon DEF UpsertMessageHTML
<1>3. t \in PageText /\ m.id \in Ids /\ m.role \in Roles
  BY <1>1, RenderType DEF Mess
<1>4. /\ m.id \notin IdsIn(view) => a = 0
      /\ m.id \in IdsIn(view) => a \in DOMAIN view /\ view[a].id = m.id
  BY <1>1, FirstOf
<1>5. b = 0 \/ (b \in DOMAIN view /\ view[b].pend = m.role)
  BY <1>1, PendOf
<1>6. CASE a # 0
  <2>1. a \in DOMAIN view /\ view[a].id = m.id /\ V2 = [view EXCEPT ![a].text = t]
    BY <1>2, <1>4, <1>6
  <2>2. /\ V2 \in Seq(Node) /\ DOMAIN V2 = DOMAIN view
        /\ \A i \in DOMAIN view : V2[i].id = view[i].id /\ V2[i].pend = view[i].pend
    BY <1>3, <2>1, TextSet
  <2>3. IdsIn(V2) = IdsIn(view)
    BY <2>2, SameIds
  <2> QED BY <1>1, <2>1, <2>2, <2>3, Zenon
<1>7. CASE a = 0 /\ b # 0
  <2>1. b \in DOMAIN view /\ view[b].pend = m.role /\ view[b] \in Node
    BY <1>5, <1>7
  <2>2. PICK y : y = [key |-> view[b].key, id |-> m.id, pend |-> "none", text |-> t]
    OBVIOUS
  <2>3. y \in Node /\ y.id = m.id
    BY <1>3, <2>1, <2>2 DEF Node
  <2>4. V2 = [view EXCEPT ![b] = y]
    BY <1>2, <1>7, <2>1, <2>2 DEF Node
  <2>5. /\ V2 \in Seq(Node) /\ DOMAIN V2 = DOMAIN view /\ V2[b] = y
        /\ \A i \in DOMAIN view : i # b => V2[i] = view[i]
    BY <2>1, <2>3, <2>4, NodeSet
  <2>6. IdsIn(V2) \subseteq IdsIn(view) \cup {m.id}
    BY <2>3, <2>5 DEF IdsIn
  <2>7. ~Tidy(view)
    BY <1>3, <2>1 DEF Tidy, Roles
  <2> QED BY <2>5, <2>6, <2>7
<1>8. CASE a = 0 /\ b = 0
  <2>1. V2 = Append(view, ChatMessage(m)) /\ m.id \notin IdsIn(view)
    <3>1. 0 \notin DOMAIN view
      OBVIOUS
    <3> QED BY <1>2, <1>4, <1>8, <3>1
  <2>2. ChatMessage(m) \in Node /\ ChatMessage(m).id = m.id
    BY ChatMessageIs
  <2>3. /\ V2 \in Seq(Node) /\ Len(view) \in Nat /\ DOMAIN view = 1..Len(view)
        /\ DOMAIN V2 = 1..(Len(view) + 1) /\ V2[Len(view) + 1] = ChatMessage(m)
        /\ \A i \in DOMAIN view : i \in DOMAIN V2 /\ V2[i] = view[i]
    BY <2>1, <2>2, NodeAdd
  <2>4. ASSUME NEW i \in DOMAIN V2 PROVE V2[i].id \in IdsIn(view) \cup {m.id}
    <3>1. i \in DOMAIN view \/ i = Len(view) + 1
      BY <2>3
    <3> QED BY <2>2, <2>3, <3>1 DEF IdsIn
  <2>5. IdsIn(V2) \subseteq IdsIn(view) \cup {m.id}
    BY <2>4, Zenon DEF IdsIn
  <2> QED BY <2>1, <2>3, <2>5
<1> QED BY <1>6, <1>7, <1>8

-----------------------------------------------------------------------------
\* A node that is added comes after those of the earlier messages.
Adds(E, m, V, W, V2) ==
  /\ E \in Seq(Event) /\ E # <<>> /\ m \in Mess /\ E[1].kind = "patch" /\ E[1].m = m
  /\ V \in Seq(Node) /\ Tidy(V) /\ InOrder(V, W) /\ ComeInOrder(V, E, 0, W)
  /\ m.id \notin IdsIn(V) /\ V2 = Append(V, ChatMessage(m))

LEMMA AddedOrder ==
  ASSUME NEW E, NEW m, NEW V, NEW W, NEW V2, Adds(E, m, V, W, V2)
  PROVE  /\ Tidy(V2) /\ InOrder(V2, W)
         /\ \A o \in DOMAIN V : o \in DOMAIN V2 /\ V2[o] = V[o]
         /\ \E o \in DOMAIN V2 : V2[o].id = m.id /\ V2[o].text = Render(m.text)
<1> USE DEF Adds
<1>1. PICK y \in Node : y = ChatMessage(m) /\ y.id = m.id /\ y.pend = "none" /\ y.text = Render(m.text)
  BY ChatMessageIs, Zenon
<1>2. PICK z \in Nat : z = Len(V)
  OBVIOUS
<1>3. /\ DOMAIN V = 1..z /\ DOMAIN V2 = 1..(z + 1) /\ V2[z + 1] = y
      /\ \A i \in DOMAIN V : i \in DOMAIN V2 /\ V2[i] = V[i]
  BY <1>1, <1>2, NodeAdd
<1>4. \A o \in DOMAIN V2 : o \in DOMAIN V \/ o = z + 1
  BY <1>3
<1>5. \A o \in DOMAIN V : V[o].id # m.id
  BY DEF IdsIn
<1>6. Once(V2)
  <2> SUFFICES ASSUME NEW i \in DOMAIN V2, NEW k \in DOMAIN V2, V2[i].id = V2[k].id PROVE i = k
    BY DEF Once
  <2>1. i \in DOMAIN V /\ k \in DOMAIN V => i = k
    BY <1>3 DEF Tidy, Once
  <2> QED BY <1>1, <1>3, <1>4, <1>5, <2>1
<1>7. Tidy(V2)
  BY <1>1, <1>3, <1>4, <1>6 DEF Tidy
<1>8. InOrder(V2, W)
  <2> SUFFICES ASSUME NEW i \in DOMAIN W, NEW k \in DOMAIN W, NEW o \in DOMAIN V2, i < k, V2[o].id = W[k].id
               PROVE  \E n \in 1..(o - 1) : V2[n].id = W[i].id
    BY Zenon DEF InOrder
  <2>1. CASE o \in DOMAIN V
    <3>1. PICK n \in 1..(o - 1) : V[n].id = W[i].id
      BY <1>3, <2>1, Zenon DEF InOrder
    <3>2. n \in DOMAIN V
      BY <1>3, <2>1, <3>1
    <3> QED BY <1>3, <3>1, <3>2
  <2>2. CASE o = z + 1
    <3>1. Carries(E[1], W[k])
      BY <1>1, <1>3, <2>2 DEF Carries
    <3>2. 1 \in DOMAIN E /\ 1 > 0
      OBVIOUS
    <3>3. W[i].id \in IdsIn(V) \/ \E h \in DOMAIN E : h > 0 /\ h < 1 /\ Carries(E[h], W[i])
      BY <3>1, <3>2, Zenon DEF ComeInOrder
    <3>4. \A h \in DOMAIN E : ~(h > 0 /\ h < 1)
      OBVIOUS
    <3>5. PICK n \in DOMAIN V : V[n].id = W[i].id
      BY <3>3, <3>4, Zenon DEF IdsIn
    <3>6. n \in 1..(o - 1)
      BY <1>3, <2>2, <3>5
    <3> QED BY <1>3, <3>5, <3>6
  <2> QED BY <1>4, <2>1, <2>2
<1>9. z + 1 \in DOMAIN V2
  BY <1>3
<1> QED BY <1>1, <1>3, <1>7, <1>8, <1>9

LEMMA RenewedTail ==
  ASSUME NEW E \in Seq(Event), E # <<>>, NEW T, T = Tail(E), E[1].kind # "full", Renewed(E, 0)
  PROVE  Renewed(T, 0)
<1>1. PICK j \in DOMAIN E : j > 0 /\ E[j].kind = "full"
  BY DEF Renewed
<1>2. j \in Nat /\ j # 1
  BY <1>1
<1>3. j - 1 \in DOMAIN T /\ T[j - 1] = E[j] /\ j > 1
  BY <1>2, Shorter
<1>4. j - 1 > 0
  BY <1>2, <1>3
<1> QED BY <1>1, <1>3, <1>4 DEF Renewed

\* A text of a node of the message that the event is for is changed.
LEMMA TextApplied ==
  ASSUME NEW E \in Seq(Event), E # <<>>, NEW V \in Seq(Node), NEW o \in DOMAIN V,
         Touches(E[1], V[o].id), NEW t \in PageText, NEW V2, V2 = [V EXCEPT ![o].text = t],
         E[1].kind = "patch" => t = Render(E[1].m.text),
         NEW L, NEW W, Tracks(V, E, 0, L, W), Corrected(E, L), E[1].kind # "full"
  PROVE  Tracks(V2, Tail(E), 0, L, W)
<1>1. /\ DOMAIN V2 = DOMAIN V /\ V2[o].text = t
      /\ \A i \in DOMAIN V : /\ V2[i].id = V[i].id /\ V2[i].pend = V[i].pend
                             /\ i # o => V2[i].text = V[i].text
  BY TextSet
<1>2. E[1].kind = "patch" => V[o].id = E[1].m.id
  BY DEF Touches
<1>3. Applied(V, V2, E[1])
  BY <1>1, <1>2, Zenon DEF Applied
<1>4. ASSUME ~Renewed(E, 0) PROVE Tidy(V2) /\ InOrder(V2, W)
  <2>1. Tidy(V) /\ InOrder(V, W)
    BY <1>4, Zenon DEF Tracks
  <2> QED BY <1>1, <2>1, SameIds, SameOrder
<1> QED BY <1>3, <1>4, AppliedTracks

LEMMA PatchTracks ==
  ASSUME view \in Seq(Node), NEW E \in Seq(Event), E # <<>>, NEW m \in Mess, E[1].kind = "patch",
         E[1].m = m, NEW V2, V2 = UpsertMessageHTML(m), NEW L, NEW W,
         Tracks(view, E, 0, L, W), Corrected(E, L)
  PROVE  Tracks(V2, Tail(E), 0, L, W)
<1>1. CASE Renewed(E, 0)
  <2>1. Renewed(Tail(E), 0)
    BY <1>1, RenewedTail
  <2> QED BY <2>1, Zenon DEF Tracks
<1>2. CASE ~Renewed(E, 0)
  <2>1. Tidy(view) /\ InOrder(view, W) /\ ComeInOrder(view, E, 0, W)
    BY <1>2, Zenon DEF Tracks
  <2>2. CASE \E o \in DOMAIN view : view[o].id = m.id /\ V2 = [view EXCEPT ![o].text = Render(m.text)]
    <3>1. PICK o \in DOMAIN view : view[o].id = m.id /\ V2 = [view EXCEPT ![o].text = Render(m.text)]
      BY <2>2
    <3>2. PICK t \in PageText : t = Render(m.text)
      BY RenderType DEF Mess
    <3>3. Touches(E[1], view[o].id) /\ V2 = [view EXCEPT ![o].text = t] /\ t = Render(E[1].m.text)
      BY <3>1, <3>2 DEF Touches
    <3> QED BY <3>3, TextApplied
  <2>3. CASE m.id \notin IdsIn(view) /\ V2 = Append(view, ChatMessage(m))
    <3>0. Adds(E, m, view, W, V2)
      BY <2>1, <2>3, Zenon DEF Adds
    <3>1. /\ Tidy(V2) /\ InOrder(V2, W)
          /\ \A o \in DOMAIN view : o \in DOMAIN V2 /\ V2[o] = view[o]
          /\ \E o \in DOMAIN V2 : V2[o].id = m.id /\ V2[o].text = Render(m.text)
      BY <3>0, AddedOrder
    <3>2. Applied(view, V2, E[1])
      BY <3>1, Zenon DEF Applied
    <3> QED BY <3>1, <3>2, AppliedTracks
  <2> QED BY <2>1, <2>2, <2>3, UpsertIs
<1> QED BY <1>1, <1>2

LEMMA SkipTracks ==
  ASSUME NEW V, NEW E \in Seq(Event), E # <<>>, E[1].kind = "delta", NEW L, NEW W,
         Tracks(V, E, 0, L, W), Corrected(E, L)
  PROVE  Tracks(V, Tail(E), 0, L, W)
<1>1. Applied(V, V, E[1])
  BY DEF Applied
<1>2. ~Renewed(E, 0) => Tidy(V) /\ InOrder(V, W)
  BY Zenon DEF Tracks
<1> QED BY <1>1, <1>2, AppliedTracks

LEMMA TailSent ==
  ASSUME NEW E \in Seq(Event), E # <<>>, NEW T, T = Tail(E), NEW L, NEW W, NEW U
  PROVE  /\ Corrected(E, L) => Corrected(T, L)
         /\ Announced(E, L, W) => Announced(T, L, W)
         /\ PastEvents(E, W, U) => PastEvents(T, W, U)
<1>1. /\ \A j \in DOMAIN T : j + 1 \in DOMAIN E /\ T[j] = E[j + 1] /\ j \in Nat /\ j > 0
      /\ \A j \in DOMAIN E : j \in Nat /\ (j = 1 \/ (j > 1 /\ j - 1 \in DOMAIN T /\ T[j - 1] = E[j]))
  BY Shorter
<1>2. ASSUME Corrected(E, L) PROVE Corrected(T, L)
  <2> SUFFICES ASSUME NEW k \in DOMAIN L, NEW j \in DOMAIN T,
                      L[k].stage = "settled", Touches(T[j], L[k].id), ~PatchOf(T[j], L[k])
               PROVE  \E h \in DOMAIN T : h > j /\ (T[h].kind = "full" \/ PatchOf(T[h], L[k]))
    BY Zenon DEF Corrected
  <2>1. j + 1 \in DOMAIN E /\ T[j] = E[j + 1] /\ j \in Nat /\ j > 0
    BY <1>1
  <2>2. PICK h \in DOMAIN E : h > j + 1 /\ (E[h].kind = "full" \/ PatchOf(E[h], L[k]))
    BY <1>2, <2>1, Zenon DEF Corrected
  <2>3. h \in Nat /\ h # 1
    BY <1>1, <2>1, <2>2
  <2>4. h - 1 \in DOMAIN T /\ T[h - 1] = E[h]
    BY <1>1, <2>3
  <2>5. h - 1 > j
    BY <2>1, <2>2, <2>3
  <2> QED BY <2>2, <2>4, <2>5, Zenon
<1>3. Announced(E, L, W) => Announced(T, L, W)
  BY <1>1, Zenon DEF Announced
<1>4. PastEvents(E, W, U) => PastEvents(T, W, U)
  <2> SUFFICES ASSUME PastEvents(E, W, U), NEW j \in DOMAIN T
               PROVE  /\ T[j].kind = "full" => Snap(T[j].shot, W, U)
                      /\ T[j].kind = "patch" => T[j].m.id \in U
    BY Zenon DEF PastEvents
  <2>1. j + 1 \in DOMAIN E /\ T[j] = E[j + 1]
    BY <1>1
  <2> QED BY <2>1 DEF PastEvents
<1> QED BY <1>2, <1>3, <1>4

-----------------------------------------------------------------------------
\* The steps.
LEMMA EventKinds ==
  ASSUME NEW e \in Event
  PROVE  /\ e.kind = "full" => e.shot \in Seq(Mess)
         /\ e.kind = "patch" => e.m \in Mess
         /\ e.kind # "full" /\ e.kind # "patch" => e.kind = "delta" /\ e.id \in Ids /\ e.delta \in PageText
<1>1. CASE e \in [kind : {"full"}, shot : Seq(Mess)]
  BY <1>1
<1>2. CASE e \in [kind : {"patch"}, m : Mess]
  BY <1>2
<1>3. CASE e \in [kind : {"delta"}, id : Ids, delta : PageText]
  BY <1>3
<1> QED BY <1>1, <1>2, <1>3 DEF Event

\* A list in which each id occurs once, and its end.
LEMMA OnceSnap ==
  ASSUME NEW s \in Seq(Mess), Once(s), NEW U, IdsIn(s) \subseteq U, NEW W, W = WindowOf(s)
  PROVE  /\ Snap(s, W, U) /\ Snap(W, W, U) /\ W \in Seq(Mess)
         /\ IdsIn(W) \subseteq IdsIn(s) /\ NoId \notin IdsIn(W)
<1>1. PICK z \in Nat : z = Len(s) /\ DOMAIN s = 1..z
  OBVIOUS
<1>2. PICK a \in Nat : \E n \in Nat : EndOf(W, s, z, n, a)
  BY <1>1, WindowIs
<1>3. PICK n \in Nat : EndOf(W, s, z, n, a)
  BY <1>2
<1>4. DOMAIN W = 1..n /\ n + a = z /\ \A i \in 1..n : W[i] = s[i + a] /\ i + a \in 1..z
  BY <1>3 DEF EndOf
<1>5. W \in Seq(Mess)
  BY <1>1, WindowIs
<1>6. Once(W)
  <2> SUFFICES ASSUME NEW i \in 1..n, NEW k \in 1..n, W[i].id = W[k].id PROVE i = k
    BY <1>4 DEF Once
  <2>1. i + a = k + a
    BY <1>1, <1>4, ZenonT(40) DEF Once
  <2> QED BY <2>1
<1>7. InOrder(s, W)
  <2> SUFFICES ASSUME NEW i \in DOMAIN W, NEW k \in DOMAIN W, NEW o \in DOMAIN s, i < k, s[o].id = W[k].id
               PROVE  \E h \in 1..(o - 1) : s[h].id = W[i].id
    BY ZenonT(40) DEF InOrder
  <2>1. o = k + a
    BY <1>1, <1>4 DEF Once
  <2>2. i + a \in 1..(o - 1)
    BY <1>4, <2>1
  <2> QED BY <1>4, <2>2
<1>8. InOrder(W, W)
  <2> SUFFICES ASSUME NEW i \in DOMAIN W, NEW k \in DOMAIN W, NEW o \in DOMAIN W, i < k, W[o].id = W[k].id
               PROVE  \E h \in 1..(o - 1) : W[h].id = W[i].id
    BY DEF InOrder
  <2>1. o = k
    BY <1>6 DEF Once
  <2>2. i \in 1..(o - 1)
    BY <1>4, <2>1
  <2> QED BY <2>2
<1>9. IdsIn(W) \subseteq IdsIn(s)
  BY <1>1, <1>4 DEF IdsIn
<1>10. NoId \notin IdsIn(W)
  <2>1. \A i \in 1..n : W[i] \in Mess
    BY <1>4, <1>5
  <2>2. \A i \in 1..n : W[i].id \in Ids
    BY <2>1 DEF Mess
  <2>3. NoId \notin Ids
    BY DEF NoId, Ids
  <2> QED BY <1>4, <2>2, <2>3 DEF IdsIn
<1> QED BY <1>5, <1>6, <1>7, <1>8, <1>9, <1>10, Zenon DEF Snap

LEMMA OrderNow ==
  /\ Order = (IF displaced THEN <<>> ELSE Window) /\ (Order = <<>> \/ Order = Window)
  /\ store' = store => Window' = Window
  /\ store' = store /\ displaced' = displaced => Order' = Order
<1>1. store' = store => Window' = Window
  BY WindowNow, Zenon
<1>2. Order = (IF displaced THEN <<>> ELSE Window) /\ (Order = <<>> \/ Order = Window)
  BY Zenon DEF Order
<1>3. ASSUME store' = store, displaced' = displaced PROVE Order' = Order
  BY <1>1, <1>3, Zenon DEF Order
<1> QED BY <1>1, <1>2, <1>3, Zenon

LEMMA EmptyFacts ==
  ASSUME NEW L, NEW W, NEW U
  PROVE  /\ Corrected(<<>>, L) /\ Announced(<<>>, L, W) /\ PastEvents(<<>>, W, U) /\ Snap(<<>>, W, U)
<1>1. DOMAIN <<>> = {}
  OBVIOUS
<1>2. Corrected(<<>>, L) /\ Announced(<<>>, L, W) /\ PastEvents(<<>>, W, U)
  BY <1>1, Zenon DEF Corrected, Announced, PastEvents
<1>3. Snap(<<>>, W, U)
  BY <1>1, Zenon DEF Snap, Once, InOrder, IdsIn
<1> QED BY <1>2, <1>3

\* A list without doubles, and its end, in the order of either.
LEMMA AnyOrder ==
  ASSUME NEW s \in Seq(Mess), Once(s), NEW U, IdsIn(s) \subseteq U, NEW W, W = WindowOf(s),
         NEW O, O = <<>> \/ O = W
  PROVE  /\ Snap(s, O, U) /\ Snap(W, O, U) /\ IdsIn(O) \subseteq IdsIn(s)
         /\ IdsIn(O) \subseteq IdsIn(W) /\ NoId \notin IdsIn(O)
<1>1. /\ Snap(s, W, U) /\ Snap(W, W, U) /\ W \in Seq(Mess)
      /\ IdsIn(W) \subseteq IdsIn(s) /\ NoId \notin IdsIn(W)
  BY OnceSnap
<1>2. CASE O = <<>>
  <2>1. DOMAIN <<>> = {}
    OBVIOUS
  <2>2. IdsIn(<<>>) = {} /\ \A w : InOrder(w, <<>>)
    BY <2>1 DEF IdsIn, InOrder
  <2> QED BY <1>1, <1>2, <2>2 DEF Snap
<1>3. CASE O = W
  BY <1>1, <1>3
<1> QED BY <1>2, <1>3

LEMMA NowSnap ==
  ASSUME PInv
  PROVE  /\ Window \in Seq(Mess) /\ Once(Window) /\ IdsIn(Window) \subseteq UsedBy(sends)
         /\ \A O : O = <<>> \/ O = Window =>
              /\ Snap(store, O, UsedBy(sends)) /\ Snap(Window, O, UsedBy(sends))
              /\ IdsIn(O) \subseteq IdsIn(store) /\ IdsIn(O) \subseteq IdsIn(Window) /\ NoId \notin IdsIn(O)
<1>1. store \in Seq(Mess) /\ Once(store) /\ IdsIn(store) \subseteq UsedBy(sends)
  BY Zenon DEF PInv, PageTypes, SentBefore, Snap
<1>2. Window = WindowOf(store)
  BY WindowNow
<1>3. Window \in Seq(Mess) /\ Snap(Window, Window, UsedBy(sends))
  BY <1>1, <1>2, OnceSnap
<1>4. ASSUME NEW O, O = <<>> \/ O = Window
      PROVE  /\ Snap(store, O, UsedBy(sends)) /\ Snap(Window, O, UsedBy(sends))
             /\ IdsIn(O) \subseteq IdsIn(store) /\ IdsIn(O) \subseteq IdsIn(Window) /\ NoId \notin IdsIn(O)
  BY <1>1, <1>2, <1>4, AnyOrder
<1> QED BY <1>3, <1>4, Zenon DEF Snap

LEMMA PageInit == StreamInit => PInv
<1> SUFFICES ASSUME StreamInit PROVE PInv
  OBVIOUS
<1>1. PageTypes
  <2>1. <<>> \in Seq(Mess) /\ <<>> \in Seq(Node) /\ <<>> \in Seq(Event) /\ <<>> \in PageText
    BY DEF PageText
  <2>2. NoFetch \in Fetch
    BY <2>1 DEF NoFetch, Fetch
  <2>3. sends \in [Sends -> {"idle", "posted", "user", "done"}]
    BY DEF StreamInit
  <2>4. raw \in [Ids -> PageText] /\ fetches \in [Fetchers -> Fetch]
    BY <2>1, <2>2 DEF StreamInit
  <2>5. turns \in 0..MaxTurns
    BY LimitNat DEF StreamInit
  <2>6. /\ store \in Seq(Mess) /\ last \in Seq(Mess) /\ view \in Seq(Node) /\ events \in Seq(Event)
        /\ awaited \subseteq Here /\ link \in {"up", "down", "refetch"}
    BY <2>1 DEF StreamInit
  <2>7. fresh \in BOOLEAN /\ behind \in BOOLEAN /\ displaced \in BOOLEAN
    BY Zenon DEF StreamInit
  <2>8. answers \in [Sends -> Draft]
    BY <2>1 DEF StreamInit, Draft
  <2> QED BY <2>3, <2>4, <2>5, <2>6, <2>7, <2>8, Zenon DEF PageTypes
<1>2. Linked
  BY Zenon DEF StreamInit, Linked
<1>3. SentBefore
  <2>1. \A f \in Fetchers : fetches[f].shot = <<>>
    BY DEF StreamInit, NoFetch
  <2>2. IdsIn(view) \subseteq UsedBy(sends) \cup {NoId}
    BY DEF StreamInit, IdsIn
  <2> QED BY <2>1, <2>2, EmptyFacts, Zenon DEF StreamInit, SentBefore
<1>4. Follows
  BY Zenon DEF StreamInit, Follows
<1>5. Drafted
  BY DEF StreamInit, Drafted
<1> QED BY <1>1, <1>2, <1>3, <1>4, <1>5, Zenon DEF PInv

\* What the page and the loop go by is of messages with these ids.
SeenIn(U) ==
  /\ IdsIn(last) \subseteq U /\ IdsIn(view) \subseteq U \cup {NoId}
  /\ \A f \in Fetchers : IdsIn(fetches[f].shot) \subseteq U
  /\ \A j \in DOMAIN events : /\ events[j].kind = "full" => IdsIn(events[j].shot) \subseteq U
                              /\ events[j].kind = "patch" => events[j].m.id \in U

LEMMA UsedSeen == ASSUME PInv PROVE SeenIn(UsedBy(sends))
BY Zenon DEF PInv, SentBefore, SeenIn, Snap, PastEvents

\* The store changes and nothing else the page or the loop knows of.
LEMMA StoreKeeps ==
  ASSUME PInv, NEW U0, SeenIn(U0), store' \in Seq(Mess),
         sends' \in [Sends -> {"idle", "posted", "user", "done"}], answers' \in [Sends -> Draft],
         displaced' \in BOOLEAN, Drafted', turns' \in 0..MaxTurns,
         UNCHANGED <<awaited, link, fresh, last, events, view, raw, fetches, behind>>,
         UsedBy(sends) \subseteq UsedBy(sends'), U0 \subseteq UsedBy(sends'), Slides(Order, Order', U0),
         Once(store'), IdsIn(store') \subseteq UsedBy(sends')
  PROVE  PInv'
<1>1. PICK W, W2, U, U2 : W = Order /\ W2 = Order' /\ U = UsedBy(sends) /\ U2 = UsedBy(sends')
  OBVIOUS
<1>2. UNCHANGED awaited /\ UNCHANGED link /\ UNCHANGED fresh /\ UNCHANGED last /\ UNCHANGED events
      /\ UNCHANGED view /\ UNCHANGED raw /\ UNCHANGED fetches /\ UNCHANGED behind
  BY Zenon
<1>3. PageTypes'
  BY <1>2, Zenon DEF PInv, PageTypes
<1>4. Linked'
  BY <1>2 DEF PInv, Linked
<1>5. Slides(W, W2, U0) /\ U \subseteq U2 /\ U0 \subseteq U2
  BY <1>1, Zenon
<1>6. ASSUME NEW w, Snap(w, W, U), IdsIn(w) \subseteq U0 PROVE Snap(w, W2, U2)
  <2>1. Snap(w, W, U0)
    BY <1>6, Zenon DEF Snap
  <2> QED BY <1>5, <2>1, KeepSnap
<1>7. /\ Corrected(events, last) /\ Announced(events, last, W) /\ PastEvents(events, W, U)
      /\ Snap(last, W, U) /\ \A f \in Fetchers : Snap(fetches[f].shot, W, U)
  BY <1>1, Zenon DEF PInv, SentBefore
<1>8. W2 = <<>> \/ W2 = WindowOf(store')
  <2>1. Window' = WindowOf(store')
    BY WindowNow, Zenon
  <2> QED BY <1>1, <2>1, Zenon DEF Order
<1>9. Snap(store', W2, U2) /\ NoId \notin IdsIn(W2)
  <2>1. PICK s \in Seq(Mess) : s = store'
    OBVIOUS
  <2>2. Once(s) /\ IdsIn(s) \subseteq U2 /\ (W2 = <<>> \/ W2 = WindowOf(s))
    BY <1>1, <1>8, <2>1, Zenon
  <2> QED BY <2>1, <2>2, AnyOrder
<1>10. Announced(events, last, W2)
  <2> SUFFICES ASSUME NEW i \in DOMAIN W2, NEW j \in DOMAIN events, Carries(events[j], W2[i])
               PROVE  W2[i].id \in IdsIn(last)
    BY Zenon DEF Announced
  <2>1. events[j].kind = "patch" /\ events[j].m.id = W2[i].id
    BY DEF Carries
  <2>2. W2[i].id \in U0
    BY <2>1, Zenon DEF SeenIn
  <2>3. PICK b \in DOMAIN W : W[b].id = W2[i].id
    BY <1>5, <2>2, Zenon DEF Slides
  <2>4. Carries(events[j], W[b])
    BY <2>1, <2>3, Zenon DEF Carries
  <2> QED BY <1>7, <2>3, <2>4, Zenon DEF Announced
<1>11. PastEvents(events, W2, U2)
  <2>1. ASSUME NEW j \in DOMAIN events, events[j].kind = "full" PROVE Snap(events[j].shot, W2, U2)
    <3>1. Snap(events[j].shot, W, U) /\ IdsIn(events[j].shot) \subseteq U0
      BY <1>7, <2>1, Zenon DEF PastEvents, SeenIn
    <3> QED BY <1>6, <3>1
  <2>2. ASSUME NEW j \in DOMAIN events, events[j].kind = "patch" PROVE events[j].m.id \in U2
    <3>1. events[j].m.id \in U0
      BY <2>2, Zenon DEF SeenIn
    <3> QED BY <1>5, <3>1
  <2> QED BY <2>1, <2>2, Zenon DEF PastEvents
<1>12. SentBefore'
  <2>1. IdsIn(view) \subseteq U2 \cup {NoId}
    <3>1. IdsIn(view) \subseteq U0 \cup {NoId}
      BY Zenon DEF SeenIn
    <3> QED BY <1>5, <3>1
  <2>2. Snap(last, W2, U2)
    <3>1. IdsIn(last) \subseteq U0
      BY Zenon DEF SeenIn
    <3> QED BY <1>6, <1>7, <3>1
  <2>3. ASSUME NEW f \in Fetchers PROVE Snap(fetches[f].shot, W2, U2)
    <3>1. IdsIn(fetches[f].shot) \subseteq U0 /\ Snap(fetches[f].shot, W, U)
      BY <1>7, Zenon DEF SeenIn
    <3> QED BY <1>6, <3>1
  <2> QED BY <1>1, <1>2, <1>7, <1>9, <1>10, <1>11, <2>1, <2>2, <2>3, Zenon DEF SentBefore
<1>13. Follows'
  <2> SUFFICES ASSUME ~fresh, link = "up"
               PROVE  /\ \A i \in DOMAIN events : events[i].kind = "full" =>
                           Tracks(ChatMessages(events[i].shot), events, i, last, W2)
                      /\ NoneAwaited(awaited, fetches) /\ ~behind => Tracks(view, events, 0, last, W2)
    BY <1>1, <1>2 DEF Follows
  <2>1. IdsIn(last) \subseteq U0 /\ \A j \in DOMAIN events : events[j].kind = "patch" => events[j].m.id \in U0
    BY Zenon DEF SeenIn
  <2>2. ASSUME NEW i \in DOMAIN events, events[i].kind = "full"
        PROVE  Tracks(ChatMessages(events[i].shot), events, i, last, W2)
    <3>1. PICK v : v = ChatMessages(events[i].shot)
      OBVIOUS
    <3>2. Tracks(v, events, i, last, W)
      BY <1>1, <2>2, <3>1, Zenon DEF PInv, Follows
    <3>3. IdsIn(events[i].shot) \subseteq U0
      BY <2>2, Zenon DEF SeenIn
    <3>4. events[i].shot \in Seq(Mess)
      <4>1. events[i] \in Event
        BY DEF PInv, PageTypes
      <4> QED BY <2>2, <4>1, EventKinds
    <3>5. \A x \in IdsIn(v) : x \in IdsIn(W2) => x \in U0
      BY <3>1, <3>3, <3>4, ChatMessagesAre
    <3>6. Tracks(v, events, i, last, W2)
      BY <1>5, <2>1, <3>2, <3>5, KeepTracks
    <3> QED BY <3>1, <3>6, Zenon
  <2>3. ASSUME NoneAwaited(awaited, fetches), ~behind PROVE Tracks(view, events, 0, last, W2)
    <3>1. Tracks(view, events, 0, last, W)
      BY <1>1, <2>3, Zenon DEF PInv, Follows
    <3>20. IdsIn(view) \subseteq U0 \cup {NoId}
      BY Zenon DEF SeenIn
    <3>2. \A x \in IdsIn(view) : x \in IdsIn(W2) => x \in U0
      BY <1>9, <3>20
    <3> QED BY <1>5, <2>1, <3>1, <3>2, KeepTracks
  <2> QED BY <2>2, <2>3, Zenon
<1> QED BY <1>3, <1>4, <1>12, <1>13, Zenon DEF PInv

-----------------------------------------------------------------------------
LEMMA UsedGrows ==
  ASSUME sends \in [Sends -> {"idle", "posted", "user", "done"}], NEW s \in Sends,
         NEW at \in {"posted", "user", "done"}, Sent(s, at), sends[s] # "done",
         at = "posted" => sends[s] = "idle"
  PROVE  /\ sends' \in [Sends -> {"idle", "posted", "user", "done"}]
         /\ UsedBy(sends) \subseteq UsedBy(sends')
         /\ at \in {"user", "done"} => <<s, "user">> \in UsedBy(sends')
         /\ at = "done" => <<s, "assistant">> \in UsedBy(sends')
         /\ sends'[s] = at /\ \A t \in Sends : sends[t] = "done" => sends'[t] = "done"
<1>1. sends' \in [Sends -> {"idle", "posted", "user", "done"}] /\ sends'[s] = at
      /\ \A t \in Sends : t # s => sends'[t] = sends[t]
  BY DEF Sent
<1>2. \A t \in Sends : /\ sends[t] \in {"user", "done"} => sends'[t] \in {"user", "done"}
                       /\ sends[t] = "done" => sends'[t] = "done"
  BY <1>1
<1> QED BY <1>1, <1>2 DEF UsedBy

LEMMA DraftedStays ==
  ASSUME PInv, answers' = answers, \A s \in Sends : sends[s] = "done" => sends'[s] = "done"
  PROVE  Drafted'
BY Zenon DEF PInv, Drafted

LEMMA NotUsed ==
  ASSUME NEW s \in Sends
  PROVE  /\ sends[s] = "posted" => <<s, "user">> \notin UsedBy(sends)
         /\ sends[s] = "user" => <<s, "assistant">> \notin UsedBy(sends)
BY DEF UsedBy

LEMMA AppendedOnce ==
  ASSUME PInv, NEW m \in Mess, ~InStore(m.id), NEW U2, m.id \in U2, UsedBy(sends) \subseteq U2,
         NEW s \in Seq(Mess), s = store, NEW t, t = Append(s, m)
  PROVE  t \in Seq(Mess) /\ Once(t) /\ IdsIn(t) \subseteq U2
<1>5. PICK z \in Nat : z = Len(s) /\ DOMAIN s = 1..z
  OBVIOUS
<1>6. t \in Seq(Mess) /\ DOMAIN t = 1..(z + 1) /\ t[z + 1] = m /\ \A i \in 1..z : t[i] = s[i]
  BY <1>5
<1>7. Once(s) /\ IdsIn(s) \subseteq UsedBy(sends)
  BY Zenon DEF PInv, SentBefore, Snap
<1>8. \A i \in 1..z : s[i].id # m.id
  BY <1>5, Zenon DEF InStore
<1>9. Once(t)
  <2> SUFFICES ASSUME NEW i \in 1..(z + 1), NEW k \in 1..(z + 1), t[i].id = t[k].id PROVE i = k
    BY <1>6 DEF Once
  <2>1. i \in 1..z /\ k \in 1..z => i = k
    BY <1>5, <1>6, <1>7 DEF Once
  <2>2. (i \in 1..z \/ i = z + 1) /\ (k \in 1..z \/ k = z + 1)
    OBVIOUS
  <2> QED BY <1>6, <1>8, <2>1, <2>2
<1>10. IdsIn(t) \subseteq U2
  <2> SUFFICES ASSUME NEW i \in 1..(z + 1) PROVE t[i].id \in U2
    BY <1>6 DEF IdsIn
  <2>1. i \in 1..z \/ i = z + 1
    OBVIOUS
  <2> QED BY <1>5, <1>6, <1>7, <2>1 DEF IdsIn
<1> QED BY <1>6, <1>9, <1>10

\* What nothing the page or the loop goes by has.
LEMMA UnseenIn ==
  ASSUME PInv, NEW x, ~Seen(x), NEW U, U = UsedBy(sends) \ {x} PROVE SeenIn(U)
<1>1. SeenIn(UsedBy(sends))
  BY UsedSeen
<1>2. /\ \A k \in DOMAIN last : last[k].id # x
      /\ \A n \in DOMAIN view : view[n].id # x
      /\ \A f \in Fetchers : \A k \in DOMAIN fetches[f].shot : fetches[f].shot[k].id # x
      /\ \A j \in DOMAIN events :
           /\ events[j].kind = "full" => \A k \in DOMAIN events[j].shot : events[j].shot[k].id # x
           /\ events[j].kind = "patch" => events[j].m.id # x
  BY Zenon DEF Seen
<1>3. \A A, B : A \subseteq B /\ x \notin A => A \subseteq B \ {x}
  OBVIOUS
<1>4. IdsIn(last) \subseteq U
  BY <1>1, <1>2, <1>3, Zenon DEF SeenIn, IdsIn
<1>5. IdsIn(view) \subseteq U \cup {NoId}
  <2>1. IdsIn(view) \subseteq UsedBy(sends) \cup {NoId} /\ x \notin IdsIn(view)
    BY <1>1, <1>2, Zenon DEF SeenIn, IdsIn
  <2> QED BY <2>1
<1>6. \A f \in Fetchers : IdsIn(fetches[f].shot) \subseteq U
  BY <1>1, <1>2, <1>3, Zenon DEF SeenIn, IdsIn
<1>7. ASSUME NEW j \in DOMAIN events
      PROVE  /\ events[j].kind = "full" => IdsIn(events[j].shot) \subseteq U
             /\ events[j].kind = "patch" => events[j].m.id \in U
  <2>1. events[j].kind = "full" => IdsIn(events[j].shot) \subseteq UsedBy(sends) /\ x \notin IdsIn(events[j].shot)
    BY <1>1, <1>2, Zenon DEF SeenIn, IdsIn
  <2>2. events[j].kind = "patch" => events[j].m.id \in UsedBy(sends) /\ events[j].m.id # x
    BY <1>1, <1>2, Zenon DEF SeenIn
  <2> QED BY <1>3, <2>1, <2>2
<1> QED BY <1>4, <1>5, <1>6, <1>7, Zenon DEF SeenIn

LEMMA NotStored ==
  ASSUME PInv, NEW x, x \notin UsedBy(sends) PROVE ~InStore(x)
BY Zenon DEF PInv, SentBefore, Snap, IdsIn, InStore

\* A message with an id that nothing the page or the loop goes by has is added.
LEMMA AppendKeeps ==
  ASSUME PInv, NEW m \in Mess, AppendMessage(m), NEW U0, SeenIn(U0), U0 \subseteq UsedBy(sends'),
         m.id \notin U0, ~InStore(m.id), m.id \in UsedBy(sends'), answers' \in [Sends -> Draft], Drafted',
         displaced' = displaced, sends' \in [Sends -> {"idle", "posted", "user", "done"}],
         UsedBy(sends) \subseteq UsedBy(sends'), UNCHANGED <<link, server, events, page>>,
         turns' \in 0..MaxTurns
  PROVE  PInv'
<1>1. UNCHANGED <<awaited, link, fresh, last, events, view, raw, fetches, behind>>
  BY DEF server, page
<1>2. PICK s \in Seq(Mess) : s = store
  BY DEF PInv, PageTypes
<1>3. PICK t : t = Append(s, m)
  OBVIOUS
<1>4. store' = t
  BY <1>2, <1>3 DEF AppendMessage
<1>5. t \in Seq(Mess) /\ Once(t) /\ IdsIn(t) \subseteq UsedBy(sends')
  BY <1>2, <1>3, AppendedOnce
<1>6. Slides(Order, Order', U0)
  <2>1. Window = WindowOf(s) /\ Window' = WindowOf(t)
    BY <1>2, <1>4, WindowNow, Zenon
  <2>2. Slides(WindowOf(s), WindowOf(t), U0)
    BY <1>3, SlideAppend
  <2>3. Slides(<<>>, <<>>, U0)
    BY SlideSame
  <2> QED BY <2>1, <2>2, <2>3, Zenon DEF Order
<1>7. displaced' \in BOOLEAN
  BY Zenon DEF PInv, PageTypes
<1> QED BY <1>1, <1>4, <1>5, <1>6, <1>7, StoreKeeps

LEMMA PieceNames == {"hello", "queued", "routing", "other"} \subseteq PagePieces
<1> DEFINE B == UNION {Range(p) : p \in Parts}
<1>1. PagePieces = B \cup {"hello", "queued", "routing", "other"}
  BY Zenon DEF PagePieces
<1> HIDE DEF B
<1> QED BY <1>1

LEMMA StoreUserKeeps == ASSUME PInv, NEW s \in Sends, StoreUser(s) PROVE PInv'
<1>1. PICK m : m = [id |-> <<s, "user">>, role |-> "user", stage |-> "settled", text |-> <<"hello">>]
  OBVIOUS
<1>2. sends[s] = "posted" /\ Sent(s, "user") /\ AppendMessage(m) /\ UNCHANGED <<link, server, events, page>>
      /\ displaced' = displaced /\ turns' = turns
  BY <1>1, Zenon DEF StoreUser
<1>3. m \in Mess /\ m.id = <<s, "user">>
  <2>1. <<s, "user">> \in Ids /\ "user" \in Roles
    BY DEF Ids, Roles
  <2>20. "hello" \in PagePieces
    BY PieceNames
  <2>2. <<"hello">> \in PageText
    BY <2>20 DEF PageText
  <2> QED BY <1>1, <2>1, <2>2 DEF Mess
<1>4. sends \in [Sends -> {"idle", "posted", "user", "done"}]
  BY DEF PInv, PageTypes
<1>5. /\ sends' \in [Sends -> {"idle", "posted", "user", "done"}]
      /\ UsedBy(sends) \subseteq UsedBy(sends') /\ <<s, "user">> \in UsedBy(sends')
  BY <1>2, <1>4, UsedGrows
<1>6. <<s, "user">> \notin UsedBy(sends)
  BY <1>2, NotUsed
<1>7. answers' \in [Sends -> Draft] /\ turns' \in 0..MaxTurns
  <2>1. answers \in [Sends -> Draft] /\ turns \in 0..MaxTurns
    BY Zenon DEF PInv, PageTypes
  <2> QED BY <1>2, <2>1 DEF StoreUser
<1>8. SeenIn(UsedBy(sends)) /\ ~InStore(m.id)
  BY <1>3, <1>6, UsedSeen, NotStored, Zenon
<1>9. Drafted'
  <2>1. \A t \in Sends : sends[t] = "done" => sends'[t] = "done"
    BY <1>2, <1>4, UsedGrows
  <2> QED BY <2>1, DraftedStays DEF StoreUser
<1> QED BY <1>2, <1>3, <1>5, <1>6, <1>7, <1>8, <1>9, AppendKeeps

LEMMA StoreAssistantKeeps == ASSUME PInv, NEW s \in Sends, StoreAssistant(s) PROVE PInv'
<1>1. PICK m : m = [id |-> <<s, "assistant">>, role |-> "assistant", stage |-> "pending", text |-> <<"queued">>]
  OBVIOUS
<1>2. sends[s] = "user" /\ Sent(s, "done") /\ AppendMessage(m) /\ UNCHANGED <<link, server, events, page>>
      /\ displaced' = displaced /\ turns' = turns
  BY <1>1, Zenon DEF StoreAssistant
<1>3. m \in Mess /\ m.id = <<s, "assistant">>
  <2>1. <<s, "assistant">> \in Ids /\ "assistant" \in Roles
    BY DEF Ids, Roles
  <2>20. "queued" \in PagePieces
    BY PieceNames
  <2>2. <<"queued">> \in PageText
    BY <2>20 DEF PageText
  <2> QED BY <1>1, <2>1, <2>2 DEF Mess
<1>4. sends \in [Sends -> {"idle", "posted", "user", "done"}]
  BY DEF PInv, PageTypes
<1>5. /\ sends' \in [Sends -> {"idle", "posted", "user", "done"}]
      /\ UsedBy(sends) \subseteq UsedBy(sends') /\ <<s, "assistant">> \in UsedBy(sends')
  BY <1>2, <1>4, UsedGrows
<1>6. <<s, "assistant">> \notin UsedBy(sends)
  BY <1>2, NotUsed
<1>7. answers' \in [Sends -> Draft] /\ turns' \in 0..MaxTurns
  <2>1. answers \in [Sends -> Draft] /\ turns \in 0..MaxTurns
    BY Zenon DEF PInv, PageTypes
  <2>20. "queued" \in PagePieces
    BY PieceNames
  <2>2. <<"queued">> \in PageText
    BY <2>20 DEF PageText
  <2>3. PICK y : y = [stage |-> "pending", text |-> <<"queued">>]
    OBVIOUS
  <2>4. y \in Draft
    BY <2>2, <2>3 DEF Draft
  <2>5. answers' = [answers EXCEPT ![s] = y]
    BY <2>3, Zenon DEF StoreAssistant, Writes
  <2> QED BY <1>2, <2>1, <2>4, <2>5
<1>8. SeenIn(UsedBy(sends)) /\ ~InStore(m.id)
  BY <1>3, <1>6, UsedSeen, NotStored, Zenon
<1>9. Drafted'
  <2>1. sends'[s] = "done" /\ \A t \in Sends : sends[t] = "done" => sends'[t] = "done"
    BY <1>2, <1>4, UsedGrows
  <2>2. \A t \in Sends : t # s => answers'[t] = answers[t]
    <3>1. answers \in [Sends -> Draft]
      BY DEF PInv, PageTypes
    <3> QED BY <3>1 DEF StoreAssistant, Writes
  <2> QED BY <2>1, <2>2, Zenon DEF PInv, Drafted
<1> QED BY <1>2, <1>3, <1>5, <1>6, <1>7, <1>8, <1>9, AppendKeeps

\* A message takes the place of the one of its id.
LEMMA PutKeeps ==
  ASSUME PInv, NEW y \in Mess, InStore(y.id), NEW s \in Seq(Mess), s = store,
         NEW v, v = [i \in DOMAIN s |-> IF s[i].id = y.id THEN y ELSE s[i]]
  PROVE  v \in Seq(Mess) /\ Once(v) /\ IdsIn(v) \subseteq UsedBy(sends)
         /\ \A U : Slides(WindowOf(s), WindowOf(v), U)
<1>1. PICK z \in Nat : z = Len(s) /\ DOMAIN s = 1..z /\ \A i \in 1..z : s[i] \in Mess
  OBVIOUS
<1>2. v \in [1..z -> Mess]
  BY <1>1
<1>7. v \in Seq(Mess) /\ Len(v) = Len(s) /\ DOMAIN v = DOMAIN s
  BY <1>1, <1>2
<1>8. \A k \in DOMAIN s : v[k].id = s[k].id
  BY <1>1
<1>9. Once(s) /\ IdsIn(s) \subseteq UsedBy(sends)
  BY Zenon DEF PInv, SentBefore, Snap
<1>10. Once(v) /\ IdsIn(v) \subseteq UsedBy(sends)
  BY <1>7, <1>8, <1>9 DEF Once, IdsIn
<1>11. \A U : Slides(WindowOf(s), WindowOf(v), U)
  BY <1>7, <1>8, SlideUpdate
<1> QED BY <1>7, <1>10, <1>11

LEMMA UpdateKeeps ==
  ASSUME PInv, NEW s \in Sends, NEW t \in PageText, NEW st \in {"pending", "tool", "settled"},
         UpdateAnswer(s, t, st)
  PROVE  PInv'
<1>1. PICK id : id = <<s, "assistant">>
  OBVIOUS
<1>2. PICK m : m = [id |-> id, role |-> "assistant", stage |-> st, text |-> t]
  OBVIOUS
<1>3. /\ UNCHANGED <<sends, link, server, events, page>> /\ Writes(s, st, t) /\ Upsert(m)
      /\ displaced' = (displaced \/ (~InStore(id) /\ Seen(id))) /\ answers[s].stage \in {"pending", "tool"}
      /\ (st # "settled" => turns < MaxTurns)
      /\ turns' = IF st = "settled" THEN turns ELSE turns + 1
  BY <1>1, <1>2, Zenon DEF UpdateAnswer
<1>4. id \in Ids /\ m \in Mess /\ m.id = id
  <2>1. <<s, "assistant">> \in Ids /\ "assistant" \in Roles
    BY DEF Ids, Roles
  <2> QED BY <1>1, <1>2, <2>1 DEF Mess
<1>5. turns' \in 0..MaxTurns
  <2>1. turns \in 0..MaxTurns /\ MaxTurns \in Nat
    BY LimitNat DEF PInv, PageTypes
  <2> QED BY <1>3, <2>1
<1>6. answers' \in [Sends -> Draft]
  <2>1. PICK y : y = [stage |-> st, text |-> t]
    OBVIOUS
  <2>2. y \in Draft
    BY <2>1 DEF Draft
  <2>3. answers' = [answers EXCEPT ![s] = y]
    BY <1>3, <2>1, Zenon DEF Writes
  <2>4. answers \in [Sends -> Draft]
    BY DEF PInv, PageTypes
  <2> QED BY <2>2, <2>3, <2>4
<1>12. Drafted'
  <2>1. \A r \in Sends : r # s => answers'[r] = answers[r]
    <3>1. answers \in [Sends -> Draft]
      BY DEF PInv, PageTypes
    <3> QED BY <1>3, <3>1 DEF Writes
  <2>2. sends' = sends /\ sends[s] = "done"
    BY <1>3, Zenon DEF PInv, Drafted
  <2> QED BY <2>1, <2>2, Zenon DEF PInv, Drafted
<1>7. /\ UNCHANGED <<awaited, link, fresh, last, events, view, raw, fetches, behind>>
      /\ sends' = sends /\ UsedBy(sends') = UsedBy(sends)
      /\ sends' \in [Sends -> {"idle", "posted", "user", "done"}]
  <2>1. UNCHANGED <<awaited, link, fresh, last, events, view, raw, fetches, behind>> /\ sends' = sends
    BY <1>3 DEF server, page
  <2> QED BY <2>1 DEF PInv, PageTypes
<1>8. PICK l \in Seq(Mess) : l = store
  BY DEF PInv, PageTypes
<1>9. displaced' \in BOOLEAN
  BY <1>3, Zenon DEF PInv, PageTypes, InStore, Seen
<1>10. CASE InStore(id)
  <2>1. displaced' = displaced
    BY <1>3, <1>10, Zenon DEF PInv, PageTypes
  <2>2. PICK v : v = [i \in DOMAIN l |-> IF l[i].id = m.id THEN m ELSE l[i]]
    OBVIOUS
  <2>3. store' = v
    BY <1>3, <1>4, <1>8, <1>10, <2>2, Zenon DEF Upsert
  <2>4. v \in Seq(Mess) /\ Once(v) /\ IdsIn(v) \subseteq UsedBy(sends)
        /\ \A U : Slides(WindowOf(l), WindowOf(v), U)
    BY <1>4, <1>8, <1>10, <2>2, PutKeeps
  <2>5. Slides(Order, Order', UsedBy(sends))
    <3>1. Window = WindowOf(l) /\ Window' = WindowOf(v)
      BY <1>8, <2>3, WindowNow, Zenon
    <3>2. Slides(<<>>, <<>>, UsedBy(sends))
      BY SlideSame
    <3> QED BY <2>1, <2>4, <3>1, <3>2, Zenon DEF Order
  <2>6. SeenIn(UsedBy(sends))
    BY UsedSeen
  <2> QED BY <1>5, <1>6, <1>7, <1>9, <1>12, <2>3, <2>4, <2>5, <2>6, StoreKeeps
<1>11. CASE ~InStore(id)
  <2>1. AppendMessage(m)
    BY <1>3, <1>4, <1>11, Zenon DEF Upsert, AppendMessage
  <2>2. id \in UsedBy(sends)
    <3>1. sends[s] = "done"
      BY <1>3, Zenon DEF PInv, Drafted
    <3> QED BY <1>1, <3>1 DEF UsedBy
  <2>3. CASE ~Seen(id)
    <3>1. PICK U0 : U0 = UsedBy(sends) \ {id}
      OBVIOUS
    <3>2. displaced' = displaced
      BY <1>3, <2>3, Zenon DEF PInv, PageTypes
    <3>3. SeenIn(U0)
      BY <2>3, <3>1, UnseenIn
    <3>4. U0 \subseteq UsedBy(sends) /\ id \notin U0
      BY <3>1
    <3> QED BY <1>3, <1>4, <1>5, <1>6, <1>7, <1>11, <1>12, <2>1, <2>2, <3>2, <3>3, <3>4, AppendKeeps
  <2>4. CASE Seen(id)
    <3>1. displaced' = TRUE
      BY <1>3, <1>11, <2>4, Zenon
    <3>2. Order' = <<>>
      BY <3>1, Zenon DEF Order
    <3>3. Slides(Order, Order', UsedBy(sends))
      BY <3>2, SlideEmpty, Zenon
    <3>4. PICK v : v = Append(l, m)
      OBVIOUS
    <3>5. store' = v
      BY <1>8, <2>1, <3>4, Zenon DEF AppendMessage
    <3>6. v \in Seq(Mess) /\ Once(v) /\ IdsIn(v) \subseteq UsedBy(sends)
      BY <1>4, <1>8, <1>11, <2>2, <3>4, AppendedOnce
    <3>7. SeenIn(UsedBy(sends))
      BY UsedSeen
    <3> QED BY <1>5, <1>6, <1>7, <1>9, <1>12, <3>3, <3>5, <3>6, <3>7, StoreKeeps
  <2> QED BY <2>3, <2>4
<1> QED BY <1>10, <1>11

LEMMA DeleteKeeps == ASSUME PInv, DeleteSession PROVE PInv'
<1>1. UNCHANGED <<awaited, link, fresh, last, events, view, raw, fetches, behind>> /\ sends' = sends
      /\ answers' = answers /\ displaced' = displaced
  BY DEF server, page, DeleteSession
<1>2. store' = <<>> /\ <<>> \in Seq(Mess) /\ Len(<<>>) = 0
  BY DEF DeleteSession
<1>3. Once(<<>>) /\ IdsIn(<<>>) \subseteq UsedBy(sends)
  BY EmptyFacts, Zenon DEF Snap
<1>4. Slides(Order, Order', UsedBy(sends))
  <2>1. Window' = WindowOf(<<>>)
    BY <1>2, WindowNow, Zenon
  <2>2. WindowOf(<<>>) = <<>>
    BY <1>2, LimitNat DEF WindowOf
  <2>3. Order' = <<>>
    BY <2>1, <2>2, Zenon DEF Order
  <2> QED BY <2>3, SlideEmpty, Zenon
<1>5. turns' \in 0..MaxTurns
  <2>1. turns \in 0..MaxTurns /\ MaxTurns \in Nat
    BY LimitNat DEF PInv, PageTypes
  <2> QED BY <2>1 DEF DeleteSession
<1>6. sends' \in [Sends -> {"idle", "posted", "user", "done"}] /\ UsedBy(sends') = UsedBy(sends)
  BY <1>1 DEF PInv, PageTypes
<1>7. Drafted' /\ answers' \in [Sends -> Draft] /\ displaced' \in BOOLEAN
  BY <1>1, DraftedStays, Zenon DEF PInv, PageTypes
<1>8. SeenIn(UsedBy(sends))
  BY UsedSeen
<1> QED BY <1>1, <1>2, <1>3, <1>4, <1>5, <1>6, <1>7, <1>8, StoreKeeps

LEMMA SameStore ==
  ASSUME PInv, store' = store, displaced' = displaced
  PROVE  /\ Order' = Order /\ store' \in Seq(Mess) /\ Once(store') /\ IdsIn(store') \subseteq UsedBy(sends)
<1>1. Order' = Order
  BY OrderNow, Zenon
<1>2. store \in Seq(Mess) /\ Once(store) /\ IdsIn(store) \subseteq UsedBy(sends)
  BY Zenon DEF PInv, PageTypes, SentBefore, Snap
<1> QED BY <1>1, <1>2, Zenon

LEMMA SubmitElsewhereKeeps == ASSUME PInv, NEW s \in Sends, SubmitElsewhere(s) PROVE PInv'
<1>1. UNCHANGED <<awaited, link, fresh, last, events, view, raw, fetches, behind>> /\ turns' = turns /\ store' = store
      /\ answers' = answers /\ displaced' = displaced
  BY DEF server, page, SubmitElsewhere
<1>2. /\ Order' = Order /\ store' \in Seq(Mess) /\ Once(store') /\ IdsIn(store') \subseteq UsedBy(sends)
  BY <1>1, SameStore
<1>3. sends \in [Sends -> {"idle", "posted", "user", "done"}] /\ sends[s] = "idle" /\ Sent(s, "posted")
  BY Zenon DEF PInv, PageTypes, SubmitElsewhere
<1>4. /\ sends' \in [Sends -> {"idle", "posted", "user", "done"}] /\ UsedBy(sends) \subseteq UsedBy(sends')
      /\ \A t \in Sends : sends[t] = "done" => sends'[t] = "done"
  BY <1>3, UsedGrows
<1>5. turns' \in 0..MaxTurns
  BY <1>1 DEF PInv, PageTypes
<1>6. Slides(Order, Order', UsedBy(sends))
  BY <1>2, SlideSame, Zenon
<1>7. IdsIn(store') \subseteq UsedBy(sends')
  BY <1>2, <1>4
<1>8. Drafted' /\ answers' \in [Sends -> Draft] /\ displaced' \in BOOLEAN
  BY <1>1, <1>4, DraftedStays, Zenon DEF PInv, PageTypes
<1>9. SeenIn(UsedBy(sends))
  BY UsedSeen
<1> QED BY <1>1, <1>2, <1>4, <1>5, <1>6, <1>7, <1>8, <1>9, StoreKeeps

LEMMA PageStutters == ASSUME PInv, UNCHANGED streamVars PROVE PInv'
<1>1. /\ UNCHANGED <<awaited, link, fresh, last, events, view, raw, fetches, behind>> /\ turns' = turns
      /\ store' = store /\ sends' = sends /\ answers' = answers /\ displaced' = displaced
  BY DEF streamVars
<1>2. /\ Order' = Order /\ store' \in Seq(Mess) /\ Once(store') /\ IdsIn(store') \subseteq UsedBy(sends)
  BY <1>1, SameStore
<1>3. sends' \in [Sends -> {"idle", "posted", "user", "done"}] /\ UsedBy(sends') = UsedBy(sends)
  BY <1>1 DEF PInv, PageTypes
<1>4. turns' \in 0..MaxTurns
  BY <1>1 DEF PInv, PageTypes
<1>5. Slides(Order, Order', UsedBy(sends))
  BY <1>2, SlideSame, Zenon
<1>8. Drafted' /\ answers' \in [Sends -> Draft] /\ displaced' \in BOOLEAN
  BY <1>1, DraftedStays, Zenon DEF PInv, PageTypes
<1>9. SeenIn(UsedBy(sends))
  BY UsedSeen
<1> QED BY <1>1, <1>2, <1>3, <1>4, <1>5, <1>8, <1>9, StoreKeeps

-----------------------------------------------------------------------------
\* The store stays, and ids may be given to further messages.
LEMMA UsedKeeps ==
  ASSUME PInv, store' = store, displaced' = displaced, UsedBy(sends) \subseteq UsedBy(sends')
  PROVE  /\ Order' = Order /\ store' \in Seq(Mess) /\ Snap(store', Order', UsedBy(sends'))
         /\ \A w : Snap(w, Order, UsedBy(sends)) => Snap(w, Order', UsedBy(sends'))
         /\ \A E : PastEvents(E, Order, UsedBy(sends)) => PastEvents(E, Order', UsedBy(sends'))
         /\ UsedBy(sends) \cup {NoId} \subseteq UsedBy(sends') \cup {NoId}
<1>1. Order' = Order /\ store' \in Seq(Mess)
  BY SameStore
<1>2. PICK W, U, U2 : W = Order /\ U = UsedBy(sends) /\ U2 = UsedBy(sends')
  OBVIOUS
<1>3. U \subseteq U2
  BY <1>2
<1>4. \A w : Snap(w, W, U) => Snap(w, W, U2)
  BY <1>3 DEF Snap
<1>5. \A E : PastEvents(E, W, U) => PastEvents(E, W, U2)
  BY <1>3, <1>4 DEF PastEvents
<1>6. Snap(store, W, U)
  BY <1>2, Zenon DEF PInv, SentBefore
<1>7. U \cup {NoId} \subseteq U2 \cup {NoId}
  BY <1>3
<1> QED BY <1>1, <1>2, <1>4, <1>5, <1>6, <1>7, Zenon

Retexts(V, o, t, V2) ==
  V \in Seq(Node) /\ o \in DOMAIN V /\ t \in PageText /\ V2 = [V EXCEPT ![o].text = t]

LEMMA RetextSet ==
  ASSUME NEW V, NEW o, NEW t, NEW V2, Retexts(V, o, t, V2)
  PROVE  /\ V2 \in Seq(Node) /\ DOMAIN V2 = DOMAIN V
         /\ \A i \in DOMAIN V : V2[i].id = V[i].id /\ V2[i].pend = V[i].pend
<1>1. V \in Seq(Node) /\ o \in DOMAIN V /\ t \in PageText /\ V2 = [V EXCEPT ![o].text = t]
  BY Zenon DEF Retexts
<1> QED BY <1>1, TextSet, SMTT(30)

\* The first event is applied.
LEMMA ReceivedView ==
  ASSUME PInv, ReceiveEvent
  PROVE  /\ view' \in Seq(Node) /\ raw' \in [Ids -> PageText] /\ behind' \in BOOLEAN
         /\ IdsIn(view') \subseteq UsedBy(sends) \cup {NoId}
         /\ NoneAwaited(awaited, fetches) /\ ~behind' /\ ~fresh => Tracks(view', Tail(events), 0, last, Order)
<1>1. PICK E \in Seq(Event) : E = events
  BY DEF PInv, PageTypes
<1>2. E # <<>> /\ link = "up"
  BY <1>1 DEF ReceiveEvent
<1>3. PICK e \in Event : e = Head(events) /\ e = E[1] /\ 1 \in DOMAIN E
  BY <1>1, <1>2, Shorter
<1>4. view \in Seq(Node) /\ raw \in [Ids -> PageText] /\ behind \in BOOLEAN
  BY Zenon DEF PInv, PageTypes
<1>5. /\ IdsIn(view) \subseteq UsedBy(sends) \cup {NoId} /\ Corrected(E, last)
      /\ PastEvents(E, Order, UsedBy(sends))
  BY <1>1, Zenon DEF PInv, SentBefore
<1>6. NoneAwaited(awaited, fetches) /\ ~behind /\ ~fresh => Tracks(view, E, 0, last, Order)
  BY <1>1, <1>2, Zenon DEF PInv, Follows
<1>7. CASE e.kind = "full"
  <2>1. view' = ChatMessages(e.shot) /\ behind' = FALSE /\ raw' = raw
    BY <1>3, <1>7 DEF ReceiveEvent
  <2>2. e.shot \in Seq(Mess)
    BY <1>7, EventKinds
  <2>3. PICK v : v = ChatMessages(e.shot)
    OBVIOUS
  <2>4. v \in Seq(Node) /\ IdsIn(v) = IdsIn(e.shot)
    BY <2>2, <2>3, ChatMessagesAre
  <2>5. IdsIn(e.shot) \subseteq UsedBy(sends)
    BY <1>3, <1>5, <1>7, Zenon DEF PastEvents, Snap
  <2>6. ~fresh => Tracks(v, E, 1, last, Order)
    BY <1>1, <1>2, <1>3, <1>7, <2>3, Zenon DEF PInv, Follows
  <2>60. 0 \in Nat /\ 0 + 1 = 1
    OBVIOUS
  <2>61. Tracks(v, E, 1, last, Order) => Tracks(v, E, 0 + 1, last, Order)
    BY <2>60, Zenon
  <2>7. ~fresh => Tracks(v, Tail(E), 0, last, Order)
    BY <1>2, <2>6, <2>60, <2>61, ShiftTracks
  <2>8. IdsIn(v) \subseteq UsedBy(sends) \cup {NoId}
    BY <2>4, <2>5
  <2>9. behind' \in BOOLEAN
    BY <2>1, Zenon
  <2> QED BY <1>1, <1>4, <2>1, <2>3, <2>4, <2>7, <2>8, <2>9, Zenon
<1>8. CASE e.kind = "patch"
  <2>1. PICK m \in Mess : m = e.m
    BY <1>8, EventKinds
  <2>2. view' = UpsertMessageHTML(m) /\ behind' = behind /\ raw' = [raw EXCEPT ![m.id] = <<>>]
    BY <1>3, <1>8, <2>1 DEF ReceiveEvent
  <2>3. PICK v : v = UpsertMessageHTML(m)
    OBVIOUS
  <2>4. v \in Seq(Node) /\ IdsIn(v) \subseteq IdsIn(view) \cup {m.id}
    BY <1>4, <2>3, UpsertIs
  <2>5. m.id \in UsedBy(sends)
    BY <1>3, <1>5, <1>8, <2>1, Zenon DEF PastEvents
  <2>6. IdsIn(v) \subseteq UsedBy(sends) \cup {NoId}
    BY <1>5, <2>4, <2>5
  <2>7. raw' \in [Ids -> PageText]
    <3>1. m.id \in Ids /\ <<>> \in PageText
      BY DEF Mess, PageText
    <3> QED BY <1>4, <2>2, <3>1
  <2>8. E[1].kind = "patch" /\ E[1].m = m
    BY <1>3, <1>8, <2>1, Zenon
  <2>9. Tracks(view, E, 0, last, Order) => Tracks(v, Tail(E), 0, last, Order)
    BY <1>2, <1>4, <1>5, <2>3, <2>8, PatchTracks
  <2> QED BY <1>1, <1>4, <1>6, <2>2, <2>3, <2>4, <2>6, <2>7, <2>9
<1>9. CASE e.kind # "full" /\ e.kind # "patch"
  <2>1. PICK x \in Ids : x = e.id
    BY <1>9, EventKinds
  <2>2. PICK d \in PageText : d = e.delta
    BY <1>9, EventKinds
  <2>3. e.kind = "delta"
    BY <1>9, EventKinds
  <2>4. PICK o : o = NodeOf(x)
    OBVIOUS
  <2>5. PICK sh : sh = IF raw[x] = <<>> THEN view[o].text ELSE raw[x]
    OBVIOUS
  <2>6. /\ behind' = behind
        /\ o = 0 \/ d = <<>> => view' = view /\ raw' = raw
        /\ ~(o = 0 \/ d = <<>>) => /\ raw' = [raw EXCEPT ![x] = sh \o d]
                                   /\ view' = [view EXCEPT ![o].text = Render(sh \o d)]
    BY <1>3, <1>9, <2>1, <2>2, <2>4, <2>5 DEF ReceiveEvent
  <2>7. E[1].kind = "delta" /\ E[1].id = x
    BY <1>3, <2>1, <2>3, Zenon
  <2>8. CASE o = 0 \/ d = <<>>
    <3>1. view' = view /\ raw' = raw /\ behind' = behind
      BY <2>6, <2>8, Zenon
    <3>2. Tracks(view, E, 0, last, Order) => Tracks(view, Tail(E), 0, last, Order)
      BY <1>2, <1>5, <2>7, SkipTracks
    <3> QED BY <1>1, <1>4, <1>5, <1>6, <3>1, <3>2
  <2>9. CASE ~(o = 0 \/ d = <<>>)
    <3>1. o \in DOMAIN view /\ view[o].id = x /\ view[o] \in Node
      <4>1. o = FirstIn(view, x) /\ o # 0
        BY <2>4, <2>9, BeforeIs, Zenon
      <4> QED BY <1>4, <4>1, FirstOf
    <3>2. sh \in PageText
      <4>1. view[o].text \in PageText /\ raw[x] \in PageText
        BY <1>4, <3>1 DEF Node
      <4> QED BY <2>5, <4>1
    <3>3. sh \o d \in PageText
      BY <3>2 DEF PageText
    <3>4. PICK t \in PageText : t = Render(sh \o d)
      BY <3>3, RenderType
    <3>5. PICK v : v = [view EXCEPT ![o].text = t]
      OBVIOUS
    <3>6. /\ v \in Seq(Node) /\ DOMAIN v = DOMAIN view
          /\ \A i \in DOMAIN view : v[i].id = view[i].id /\ v[i].pend = view[i].pend
      <4>1. Retexts(view, o, t, v)
        BY <1>4, <3>1, <3>5, Zenon DEF Retexts
      <4> QED BY <4>1, RetextSet
    <3>7. IdsIn(v) = IdsIn(view)
      BY <3>6, SameIds
    <3>8. view' = v /\ behind' = behind /\ raw' = [raw EXCEPT ![x] = sh \o d]
      BY <2>6, <2>9, <3>4, <3>5, Zenon
    <3>9. raw' \in [Ids -> PageText]
      BY <1>4, <3>3, <3>8
    <3>10. Touches(E[1], view[o].id) /\ E[1].kind # "patch" /\ E[1].kind # "full"
      BY <2>7, <3>1 DEF Touches
    <3>11. Tracks(view, E, 0, last, Order) => Tracks(v, Tail(E), 0, last, Order)
      BY <1>2, <1>4, <1>5, <3>1, <3>5, <3>10, TextApplied
    <3> QED BY <1>1, <1>4, <1>5, <1>6, <3>6, <3>7, <3>8, <3>9, <3>11
  <2> QED BY <2>8, <2>9
<1> QED BY <1>7, <1>8, <1>9

LEMMA ReceiveKeeps == ASSUME PInv, ReceiveEvent PROVE PInv'
<1>1. PICK E \in Seq(Event) : E = events
  BY DEF PInv, PageTypes
<1>2. E # <<>> /\ link = "up" /\ events' = Tail(E)
  BY <1>1 DEF ReceiveEvent
<1>3. /\ store' = store /\ sends' = sends /\ awaited' = awaited /\ link' = link /\ fresh' = fresh
      /\ last' = last /\ fetches' = fetches /\ turns' = turns
      /\ answers' = answers /\ displaced' = displaced
  BY DEF ReceiveEvent, server
<1>4. ~fresh
  BY <1>1, <1>2 DEF PInv, Linked
<1>5. /\ view' \in Seq(Node) /\ raw' \in [Ids -> PageText] /\ behind' \in BOOLEAN
      /\ IdsIn(view') \subseteq UsedBy(sends) \cup {NoId}
      /\ NoneAwaited(awaited, fetches) /\ ~behind' => Tracks(view', Tail(E), 0, last, Order)
  BY <1>1, <1>4, ReceivedView
<1>6. PICK T : T = Tail(E)
  OBVIOUS
<1>7. /\ T \in Seq(Event) /\ \A j \in DOMAIN T : j + 1 \in DOMAIN E /\ T[j] = E[j + 1] /\ j \in Nat
  BY <1>2, <1>6, Shorter
<1>8. Order' = Order
  BY <1>3, OrderNow, Zenon
<1>9. PageTypes'
  BY <1>2, <1>3, <1>5, <1>6, <1>7, Zenon DEF PInv, PageTypes
<1>10. Linked'
  BY <1>2, <1>3, <1>4 DEF PInv, Linked
<1>11. Corrected(T, last) /\ Announced(T, last, Order) /\ PastEvents(T, Order, UsedBy(sends))
  <2>1. Corrected(E, last) /\ Announced(E, last, Order) /\ PastEvents(E, Order, UsedBy(sends))
    BY <1>1, Zenon DEF PInv, SentBefore
  <2> QED BY <1>2, <1>6, <2>1, TailSent
<1>12. SentBefore'
  BY <1>2, <1>3, <1>5, <1>6, <1>8, <1>11, Zenon DEF PInv, SentBefore
<1>13. ASSUME NEW i \in DOMAIN T, T[i].kind = "full" PROVE Tracks(ChatMessages(T[i].shot), T, i, last, Order)
  <2>1. PICK v : v = ChatMessages(T[i].shot)
    OBVIOUS
  <2>2. i + 1 \in DOMAIN E /\ T[i] = E[i + 1] /\ i \in Nat
    BY <1>7
  <2>3. Tracks(v, E, i + 1, last, Order)
    BY <1>1, <1>2, <1>4, <1>13, <2>1, <2>2, Zenon DEF PInv, Follows
  <2>4. Tracks(v, T, i, last, Order)
    BY <1>2, <1>6, <2>2, <2>3, ShiftTracks
  <2> QED BY <2>1, <2>4, Zenon
<1>14. Follows'
  BY <1>2, <1>3, <1>5, <1>6, <1>8, <1>13, Zenon DEF Follows
<1>30. Drafted'
  BY <1>3, DraftedStays, Zenon
<1> QED BY <1>30, <1>9, <1>10, <1>12, <1>14, Zenon DEF PInv

-----------------------------------------------------------------------------
\* The whole list is sent.
FullEv(w) == [kind |-> "full", shot |-> w]

LEMMA ListTracks ==
  ASSUME NEW w \in Seq(Mess), Once(w), NEW W, InOrder(w, W), NEW E, NEW n, \A j \in DOMAIN E : ~(j > n)
  PROVE  Tracks(ChatMessages(w), E, n, w, W)
<1>1. PICK v : v = ChatMessages(w)
  OBVIOUS
<1>2. /\ v \in Seq(Node) /\ DOMAIN v = DOMAIN w
      /\ \A i \in DOMAIN w : v[i].id = w[i].id /\ v[i].pend = "none" /\ v[i].text = Render(w[i].text)
      /\ IdsIn(v) = IdsIn(w)
  BY <1>1, ChatMessagesAre
<1>3. Tidy(v)
  BY <1>2 DEF Tidy, Once
<1>4. InOrder(v, W)
  <2> SUFFICES ASSUME NEW i \in DOMAIN W, NEW k \in DOMAIN W, NEW o \in DOMAIN v, i < k, v[o].id = W[k].id
               PROVE  \E h \in 1..(o - 1) : v[h].id = W[i].id
    BY Zenon DEF InOrder
  <2>1. PICK h \in 1..(o - 1) : w[h].id = W[i].id
    BY <1>2, ZenonT(40) DEF InOrder
  <2>2. h \in DOMAIN w
    BY <1>2, <2>1
  <2> QED BY <1>2, <2>1, <2>2
<1>5. AllCome(v, E, n, w, W)
  BY <1>2 DEF AllCome, IdsIn
<1>6. AllRight(v, E, n, w, W)
  BY <1>2 DEF AllRight
<1>7. ComeInOrder(v, E, n, W)
  BY Zenon DEF ComeInOrder
<1> QED BY <1>1, <1>3, <1>4, <1>5, <1>6, <1>7, Zenon DEF Tracks

LEMMA FullSent ==
  ASSUME NEW E \in Seq(Event), NEW w \in Seq(Mess), NEW U, NEW O, Snap(w, O, U), PastEvents(E, O, U), IdsIn(O) \subseteq IdsIn(w),
         NEW E2, E2 = E \o <<FullEv(w)>>
  PROVE  /\ E2 \in Seq(Event) /\ Corrected(E2, w) /\ Announced(E2, w, O) /\ PastEvents(E2, O, U)
         /\ Renewed(E2, 0)
         /\ \A i \in DOMAIN E2 : E2[i].kind = "full" => Tracks(ChatMessages(E2[i].shot), E2, i, w, O)
<1>1. PICK e \in Event : e = FullEv(w) /\ e.kind = "full" /\ e.shot = w
  BY DEF FullEv, Event
<1>2. PICK n \in Nat : n = Len(E) /\ DOMAIN E = 1..n
  OBVIOUS
<1>3. E2 = Append(E, e)
  BY <1>1
<1>4. E2 \in Seq(Event) /\ DOMAIN E2 = 1..(n + 1) /\ E2[n + 1] = e /\ \A j \in 1..n : E2[j] = E[j]
  BY <1>2, <1>3
<1>5. \A j \in DOMAIN E2 : j \in 1..n \/ j = n + 1
  BY <1>4
<1>6. n + 1 \in DOMAIN E2 /\ n + 1 > 0 /\ E2[n + 1].kind = "full" /\ \A j \in 1..n : n + 1 > j
  BY <1>1, <1>4
<1>7. Corrected(E2, w)
  <2> SUFFICES ASSUME NEW k \in DOMAIN w, NEW j \in DOMAIN E2, Touches(E2[j], w[k].id)
               PROVE  \E h \in DOMAIN E2 : h > j /\ (E2[h].kind = "full" \/ PatchOf(E2[h], w[k]))
    BY Zenon DEF Corrected
  <2>1. j # n + 1
    BY <1>6 DEF Touches
  <2> QED BY <1>5, <1>6, <2>1, Zenon
<1>8. Announced(E2, w, O)
  BY DEF Announced, IdsIn
<1>9. PastEvents(E2, O, U)
  <2> SUFFICES ASSUME NEW j \in DOMAIN E2
               PROVE  /\ E2[j].kind = "full" => Snap(E2[j].shot, O, U)
                      /\ E2[j].kind = "patch" => E2[j].m.id \in U
    BY Zenon DEF PastEvents
  <2>1. CASE j \in 1..n
    BY <1>2, <1>4, <2>1 DEF PastEvents
  <2>2. CASE j = n + 1
    BY <1>1, <1>4, <2>2
  <2> QED BY <1>5, <2>1, <2>2
<1>10. Renewed(E2, 0)
  BY <1>6, Zenon DEF Renewed
<1>11. ASSUME NEW i \in DOMAIN E2, E2[i].kind = "full" PROVE Tracks(ChatMessages(E2[i].shot), E2, i, w, O)
  <2>1. CASE i \in 1..n
    <3>1. Renewed(E2, i)
      BY <1>6, <2>1, Zenon DEF Renewed
    <3> QED BY <3>1, Zenon DEF Tracks
  <2>2. CASE i = n + 1
    <3>1. \A j \in DOMAIN E2 : ~(j > i)
      BY <1>4, <2>2
    <3>2. Once(w) /\ InOrder(w, O)
      BY Zenon DEF Snap
    <3>3. Tracks(ChatMessages(w), E2, i, w, O)
      BY <3>1, <3>2, ListTracks
    <3>4. E2[i].shot = w
      BY <1>1, <1>4, <2>2
    <3> QED BY <3>3, <3>4, Zenon
  <2> QED BY <1>5, <2>1, <2>2
<1> QED BY <1>4, <1>7, <1>8, <1>9, <1>10, <1>11, Zenon

\* A turn of the loop.
PollSent(E2, O) ==
  /\ E2 \in Seq(Event) /\ Corrected(E2, Window) /\ PastEvents(E2, O, UsedBy(sends))
  /\ \A i \in DOMAIN E2 : E2[i].kind = "full" =>
       Tracks(ChatMessages(E2[i].shot), E2, i, Window, O)
  /\ NoneAwaited(awaited, fetches) /\ ~behind => Tracks(view, E2, 0, Window, O)

\* Without an order, what tracks the list goes on to do so.
LEMMA TidyTracks ==
  ASSUME NEW V, NEW E, NEW n, NEW L, Tracks(V, E, n, L, <<>>), NEW E2, NEW L2,
         \A j \in DOMAIN E : j \in DOMAIN E2 /\ E2[j] = E[j]
  PROVE  Tracks(V, E2, n, L2, <<>>)
<1>1. IdsIn(<<>>) = {} /\ DOMAIN <<>> = {}
  BY DEF IdsIn
<1>2. InOrder(V, <<>>) /\ AllCome(V, E2, n, L2, <<>>) /\ AllRight(V, E2, n, L2, <<>>)
      /\ ComeInOrder(V, E2, n, <<>>)
  BY <1>1 DEF InOrder, AllCome, AllRight, ComeInOrder
<1>3. Renewed(E, n) => Renewed(E2, n)
  BY Zenon DEF Renewed
<1>4. Renewed(E, n) \/ Tidy(V)
  BY Zenon DEF Tracks
<1> QED BY <1>2, <1>3, <1>4, Zenon DEF Tracks

\* The order is kept, or there is a new one and nothing else comes to the page.
LEMMA PollOrder ==
  ASSUME PInv, Poll
  PROVE  \/ Order' = Order
         \/ /\ Order' = Window /\ events = <<>> /\ (fresh \/ Len(Window) < Len(last))
            /\ \A f \in Fetchers : fetches[f].shot = <<>>
<1>1. store' = store
  BY DEF Poll
<1>2. Window' = Window
  BY <1>1, OrderNow, Zenon
<1>3. displaced \in BOOLEAN
  BY Zenon DEF PInv, PageTypes
<1>4. displaced' = (displaced /\ ~((fresh \/ Len(Window) < Len(last)) /\ NothingComes))
  BY Zenon DEF Poll
<1>5. CASE displaced /\ ~((fresh \/ Len(Window) < Len(last)) /\ NothingComes)
  <2>1. displaced' = displaced
    BY <1>3, <1>4, <1>5, Zenon
  <2> QED BY <1>1, <2>1, OrderNow, Zenon
<1>6. CASE ~displaced
  <2>1. displaced' = displaced
    BY <1>3, <1>4, <1>6, Zenon
  <2> QED BY <1>1, <2>1, OrderNow, Zenon
<1>7. CASE (fresh \/ Len(Window) < Len(last)) /\ NothingComes
  <2>1. ~displaced'
    BY <1>4, <1>7, Zenon
  <2>2. Order' = Window
    BY <1>2, <2>1, Zenon DEF Order
  <2> QED BY <1>7, <2>2, Zenon DEF NothingComes
<1> QED BY <1>5, <1>6, <1>7

LEMMA PollKeeps == ASSUME PInv, Poll PROVE PInv'
<1>1. PICK E \in Seq(Event) : E = events
  BY DEF PInv, PageTypes
<1>2. /\ store' = store /\ sends' = sends /\ awaited' = awaited /\ link' = link
      /\ fetches' = fetches /\ turns' = turns /\ view' = view /\ raw' = raw /\ behind' = behind
      /\ answers' = answers
  BY DEF Poll, page
<1>3. link = "up" /\ last' = Window /\ fresh' = FALSE
  BY DEF Poll
<1>4. PICK B : B = (fresh \/ Len(Window) < Len(last))
  OBVIOUS
<1>5. PICK E2 : E2 = E \o IF B THEN <<FullEv(Window)>> ELSE Changes
  OBVIOUS
<1>6. events' = E2
  BY <1>1, <1>4, <1>5, Zenon DEF Poll, FullEv, Changes
<1>20. PICK O, O2 : O = Order /\ O2 = Order'
  OBVIOUS
<1>21. \/ O2 = O
       \/ O2 = Window /\ E = <<>> /\ B /\ \A f \in Fetchers : fetches[f].shot = <<>>
  BY <1>1, <1>4, <1>20, PollOrder, Zenon
<1>22. (O = <<>> \/ O = Window) /\ (O2 = <<>> \/ O2 = Window)
  BY <1>20, <1>21, OrderNow, Zenon
<1>7. /\ Window \in Seq(Mess) /\ Once(Window) /\ IdsIn(Window) \subseteq UsedBy(sends)
      /\ Snap(Window, O2, UsedBy(sends)) /\ Snap(store, O2, UsedBy(sends))
      /\ IdsIn(O2) \subseteq IdsIn(Window)
  BY <1>22, NowSnap
<1>8. /\ last \in Seq(Mess) /\ Once(last) /\ PastEvents(E, O, UsedBy(sends)) /\ Corrected(E, last)
  BY <1>1, <1>20, Zenon DEF PInv, PageTypes, SentBefore, Snap
<1>23. PastEvents(E, O2, UsedBy(sends)) /\ \A f \in Fetchers : Snap(fetches[f].shot, O2, UsedBy(sends))
  <2>1. \A f \in Fetchers : Snap(fetches[f].shot, O, UsedBy(sends))
    BY <1>20, Zenon DEF PInv, SentBefore
  <2>2. PastEvents(<<>>, O2, UsedBy(sends)) /\ Snap(<<>>, O2, UsedBy(sends))
    BY EmptyFacts
  <2> QED BY <1>8, <1>21, <2>1, <2>2, Zenon
<1>9. ASSUME B PROVE PollSent(E2, O2)
  <2>1. E2 = E \o <<FullEv(Window)>>
    BY <1>5, <1>9, Zenon
  <2>2. /\ E2 \in Seq(Event) /\ Corrected(E2, Window) /\ PastEvents(E2, O2, UsedBy(sends))
        /\ Renewed(E2, 0)
        /\ \A i \in DOMAIN E2 : E2[i].kind = "full" =>
             Tracks(ChatMessages(E2[i].shot), E2, i, Window, O2)
    BY <1>7, <1>23, <2>1, FullSent
  <2>3. Tracks(view, E2, 0, Window, O2)
    BY <2>2, Zenon DEF Tracks
  <2> QED BY <2>2, <2>3, Zenon DEF PollSent
<1>10. ASSUME ~B PROVE PollSent(E2, O2)
  <2>1. E2 = E \o Changes
    BY <1>5, <1>10, Zenon
  <2>2. ~fresh /\ O2 = O
    BY <1>4, <1>10, <1>21, Zenon
  <2>3. Changes \in Seq(Event)
    BY <1>7, <1>8, ChangesAre
  <2>40. \A j \in DOMAIN Changes : Changes[j].kind # "full"
    BY <1>7, <1>8, ChangesBring, Zenon
  <2>41. \A j \in DOMAIN Changes : Changes[j].kind = "patch" => \E k \in DOMAIN Window : Changes[j].m = Window[k]
    BY <1>7, <1>8, ChangesBring, Zenon
  <2>5. /\ E2 \in Seq(Event) /\ Len(E) \in Nat /\ DOMAIN E = 1..Len(E)
        /\ \A j \in DOMAIN E : j \in DOMAIN E2 /\ E2[j] = E[j]
        /\ \A j \in DOMAIN Changes : Len(E) + j \in DOMAIN E2 /\ E2[Len(E) + j] = Changes[j]
        /\ \A j \in DOMAIN E2 : j \in DOMAIN E \/ (j > Len(E) /\ j - Len(E) \in DOMAIN Changes)
        /\ DOMAIN Changes = 1..Len(Changes) /\ DOMAIN E2 = 1..(Len(E) + Len(Changes)) /\ Len(Changes) \in Nat
    BY <2>1, <2>3, Longer
  <2>6. \A j \in DOMAIN E2 : j \in DOMAIN E \/ \E c \in DOMAIN Changes : E2[j] = Changes[c]
    <3> SUFFICES ASSUME NEW j \in DOMAIN E2, j \notin DOMAIN E PROVE \E c \in DOMAIN Changes : E2[j] = Changes[c]
      OBVIOUS
    <3>1. PICK c \in DOMAIN Changes : c = j - Len(E) /\ Len(E) + c = j
      BY <2>5
    <3> QED BY <2>5, <3>1
  <2>7. Corrected(E2, Window)
    BY <1>7, <1>8, <2>1, PollCorrected
  <2>8. PastEvents(E2, O2, UsedBy(sends))
    <3> SUFFICES ASSUME NEW j \in DOMAIN E2
                 PROVE  /\ E2[j].kind = "full" => Snap(E2[j].shot, O2, UsedBy(sends))
                        /\ E2[j].kind = "patch" => E2[j].m.id \in UsedBy(sends)
      BY Zenon DEF PastEvents
    <3>1. CASE j \in DOMAIN E
      BY <1>23, <2>5, <3>1 DEF PastEvents
    <3>2. CASE \E c \in DOMAIN Changes : E2[j] = Changes[c]
      <4>1. PICK c \in DOMAIN Changes : E2[j] = Changes[c]
        BY <3>2
      <4> QED BY <1>7, <2>40, <2>41, <4>1 DEF IdsIn
    <3> QED BY <2>6, <3>1, <3>2
  <2>9. ASSUME NEW V, NEW n \in Nat, n <= Len(E), Tracks(V, E, n, last, O) PROVE Tracks(V, E2, n, Window, O2)
    <3>1. CASE O = Window
      <4>1. Tracks(V, E2, n, Window, Window)
        BY <1>7, <1>8, <2>1, <2>9, <3>1, PollTracks
      <4> QED BY <2>2, <3>1, <4>1, Zenon
    <3>2. CASE O = <<>>
      <4>1. Tracks(V, E2, n, Window, <<>>)
        BY <2>5, <2>9, <3>2, TidyTracks
      <4> QED BY <2>2, <3>2, <4>1, Zenon
    <3> QED BY <1>22, <3>1, <3>2
  <2>10. ASSUME NEW i \in DOMAIN E2, E2[i].kind = "full"
         PROVE  Tracks(ChatMessages(E2[i].shot), E2, i, Window, O2)
    <3>1. i \in DOMAIN E /\ E2[i] = E[i]
      BY <2>5, <2>6, <2>10, <2>40
    <3>2. i \in Nat /\ i <= Len(E)
      BY <2>5, <3>1
    <3>3. Tracks(ChatMessages(E2[i].shot), E, i, last, O)
      BY <1>1, <1>3, <1>20, <2>2, <2>10, <3>1, Zenon DEF PInv, Follows
    <3> QED BY <2>9, <3>2, <3>3, Zenon
  <2>11. ASSUME NoneAwaited(awaited, fetches), ~behind PROVE Tracks(view, E2, 0, Window, O2)
    <3>1. Tracks(view, E, 0, last, O)
      BY <1>1, <1>3, <1>20, <2>2, <2>11, Zenon DEF PInv, Follows
    <3>2. 0 \in Nat /\ 0 <= Len(E)
      BY <2>5
    <3> QED BY <2>9, <3>1, <3>2, Zenon
  <2> QED BY <2>5, <2>7, <2>8, <2>10, <2>11, Zenon DEF PollSent
<1>11. PollSent(E2, O2)
  BY <1>9, <1>10, Zenon
<1>12. displaced' \in BOOLEAN
  BY Zenon DEF Poll
<1>13. PageTypes'
  <2>1. fresh' \in BOOLEAN
    BY <1>3, Zenon
  <2> QED BY <1>2, <1>3, <1>6, <1>7, <1>11, <1>12, <2>1, Zenon DEF PInv, PageTypes, PollSent
<1>14. Linked'
  BY <1>2, <1>3 DEF Linked
<1>15. Announced(E2, Window, O2)
  BY <1>7 DEF Announced, IdsIn
<1>16. SentBefore'
  BY <1>2, <1>3, <1>6, <1>7, <1>11, <1>15, <1>20, <1>23, Zenon DEF PInv, SentBefore, PollSent
<1>17. Follows'
  BY <1>2, <1>3, <1>6, <1>11, <1>20, Zenon DEF Follows, PollSent
<1>30. Drafted'
  BY <1>2, DraftedStays, Zenon
<1> QED BY <1>30, <1>13, <1>14, <1>16, <1>17, Zenon DEF PInv

-----------------------------------------------------------------------------
\* The page sends.
LEMMA SubmitKeeps == ASSUME PInv, NEW s \in Here, Submit(s) PROVE PInv'
<1>1. /\ store' = store /\ link' = link /\ fresh' = fresh /\ last' = last /\ events' = events
      /\ raw' = raw /\ fetches' = fetches /\ behind' = behind /\ turns' = turns
      /\ answers' = answers /\ displaced' = displaced
  BY DEF Submit, server
<1>2. sends \in [Sends -> {"idle", "posted", "user", "done"}] /\ sends[s] = "idle" /\ Sent(s, "posted")
      /\ awaited' = awaited \cup {s} /\ view' = OptimisticRender(s) /\ awaited \subseteq Here
  BY Zenon DEF PInv, PageTypes, Submit
<1>3. s \in Sends
  BY DEF Sends
<1>4. /\ sends' \in [Sends -> {"idle", "posted", "user", "done"}] /\ UsedBy(sends) \subseteq UsedBy(sends')
      /\ \A t \in Sends : sends[t] = "done" => sends'[t] = "done"
  BY <1>2, <1>3, UsedGrows
<1>5. /\ Order' = Order /\ store' \in Seq(Mess) /\ Snap(store', Order', UsedBy(sends'))
      /\ \A w : Snap(w, Order, UsedBy(sends)) => Snap(w, Order', UsedBy(sends'))
      /\ \A E : PastEvents(E, Order, UsedBy(sends)) => PastEvents(E, Order', UsedBy(sends'))
      /\ UsedBy(sends) \cup {NoId} \subseteq UsedBy(sends') \cup {NoId}
  BY <1>1, <1>4, UsedKeeps
<1>6. PICK a : a = [key |-> <<s, "user">>, id |-> NoId, pend |-> "user", text |-> <<"hello">>]
  OBVIOUS
<1>7. PICK b : b = [key |-> <<s, "assistant">>, id |-> NoId, pend |-> "assistant", text |-> <<"routing">>]
  OBVIOUS
<1>8. view' = view \o <<a, b>>
  BY <1>2, <1>6, <1>7, Zenon DEF OptimisticRender
<1>9. a \in Node /\ b \in Node /\ a.id = NoId /\ b.id = NoId
  <2>1. <<s, "user">> \in Ids /\ <<s, "assistant">> \in Ids /\ "user" \in Roles /\ "assistant" \in Roles
    BY <1>3 DEF Ids, Roles
  <2>2. "hello" \in PagePieces /\ "routing" \in PagePieces
    BY PieceNames
  <2>3. <<"hello">> \in PageText /\ <<"routing">> \in PageText
    BY <2>2 DEF PageText
  <2> QED BY <1>6, <1>7, <2>1, <2>3 DEF Node
<1>10. PICK z \in Nat : z = Len(view) /\ DOMAIN view = 1..z /\ view \in Seq(Node)
  BY DEF PInv, PageTypes
<1>11. PICK v : v = view \o <<a, b>>
  OBVIOUS
<1>12. /\ v \in Seq(Node) /\ DOMAIN v = 1..(z + 2) /\ v[z + 1] = a /\ v[z + 2] = b
       /\ \A i \in 1..z : v[i] = view[i]
  BY <1>9, <1>10, <1>11
<1>13. IdsIn(v) \subseteq UsedBy(sends) \cup {NoId}
  <2>1. IdsIn(view) \subseteq UsedBy(sends) \cup {NoId}
    BY Zenon DEF PInv, SentBefore
  <2>2. ASSUME NEW i \in 1..(z + 2) PROVE v[i].id \in UsedBy(sends) \cup {NoId}
    <3>1. i \in 1..z \/ i = z + 1 \/ i = z + 2
      OBVIOUS
    <3> QED BY <1>9, <1>10, <1>12, <2>1, <3>1 DEF IdsIn
  <2> QED BY <1>12, <2>2 DEF IdsIn
<1>14. PageTypes'
  <2>1. awaited' \subseteq Here
    BY <1>2
  <2> QED BY <1>1, <1>4, <1>5, <1>8, <1>11, <1>12, <2>1, Zenon DEF PInv, PageTypes
<1>15. Linked'
  BY <1>1 DEF PInv, Linked
<1>16. SentBefore'
  <2>1. IdsIn(v) \subseteq UsedBy(sends') \cup {NoId}
    BY <1>5, <1>13
  <2> QED BY <1>1, <1>5, <1>8, <1>11, <2>1, Zenon DEF PInv, SentBefore
<1>17. Follows'
  <2>1. ~NoneAwaited(awaited', fetches')
    BY <1>2 DEF NoneAwaited
  <2> QED BY <1>1, <1>5, <2>1 DEF PInv, Follows
<1>30. Drafted'
  BY <1>1, <1>4, DraftedStays, Zenon
<1> QED BY <1>30, <1>14, <1>15, <1>16, <1>17, Zenon DEF PInv

LEMMA AcceptedKeeps == ASSUME PInv, NEW s \in Here, Accepted(s) PROVE PInv'
<1>1. /\ store' = store /\ link' = link /\ fresh' = fresh /\ last' = last /\ events' = events
      /\ raw' = raw /\ sends' = sends /\ behind' = behind /\ turns' = turns
      /\ answers' = answers /\ displaced' = displaced
  BY DEF Accepted, server
<1>2. sends[s] = "done" /\ awaited' = awaited \ {s} /\ awaited \subseteq Here
  BY Zenon DEF PInv, PageTypes, Accepted
<1>3. s \in Sends
  BY DEF Sends
<1>4. Order' = Order
  BY <1>1, OrderNow, Zenon
<1>5. {s} \X Roles \subseteq UsedBy(sends) /\ {s} \X Roles \subseteq Ids
  BY <1>2, <1>3 DEF UsedBy, Roles, Ids
<1>6. PICK z \in Nat : z = Len(view) /\ DOMAIN view = 1..z /\ view \in Seq(Node)
  BY DEF PInv, PageTypes
<1>7. <<"queued">> \in PageText
  <2>1. "queued" \in PagePieces
    BY PieceNames
  <2> QED BY <2>1 DEF PageText
<1>8. ASSUME NEW i \in 1..z
      PROVE  /\ view'[i] \in Node
             /\ view'[i].id = view[i].id \/ view'[i].id \in {s} \X Roles
  <2>1. PICK x \in Node : x = view[i]
    BY <1>6
  <2>2. x = [key |-> x.key, id |-> x.id, pend |-> x.pend, text |-> x.text] /\ x.text \in PageText
    BY <2>1 DEF Node
  <2>3. CASE x.key \notin {s} \X Roles
    <3>1. view'[i] = x
      BY <1>6, <2>1, <2>3 DEF Accepted
    <3> QED BY <2>1, <3>1
  <2>4. CASE x.key \in {s} \X Roles
    <3>1. PICK t \in PageText : t = IF x.key = <<s, "user">> THEN x.text ELSE <<"queued">>
      BY <1>7, <2>2
    <3>2. view'[i] = [x EXCEPT !.key = NoId, !.pend = "none", !.id = x.key, !.text = t]
      BY <1>6, <2>1, <2>4, <3>1 DEF Accepted
    <3>3. PICK y : y = [key |-> NoId, id |-> x.key, pend |-> "none", text |-> t]
      OBVIOUS
    <3>4. view'[i] = y
      BY <2>1, <3>2, <3>3 DEF Node
    <3>5. y \in Node /\ y.id = x.key
      BY <1>5, <2>4, <3>1, <3>3 DEF Node
    <3> QED BY <2>4, <3>4, <3>5
  <2> QED BY <2>3, <2>4
<1>9. view' \in Seq(Node) /\ DOMAIN view' = 1..z
  <2>1. view' = [i \in 1..z |-> view'[i]]
    BY <1>6 DEF Accepted
  <2> QED BY <1>8, <2>1
<1>10. IdsIn(view') \subseteq UsedBy(sends) \cup {NoId}
  <2>1. IdsIn(view) \subseteq UsedBy(sends) \cup {NoId}
    BY Zenon DEF PInv, SentBefore
  <2>2. \A i \in 1..z : view'[i].id \in UsedBy(sends) \cup {NoId}
    BY <1>5, <1>6, <1>8, <2>1 DEF IdsIn
  <2> QED BY <1>9, <2>2 DEF IdsIn
<1>11. PICK nf \in Fetch : nf = [NoFetch EXCEPT !.at = "timer"] /\ nf.at = "timer" /\ nf.shot = <<>>
  <2>1. PICK y : y = [at |-> "timer", shot |-> <<>>]
    OBVIOUS
  <2>2. <<>> \in Seq(Mess)
    OBVIOUS
  <2>3. y \in Fetch /\ y.at = "timer" /\ y.shot = <<>>
    BY <2>1, <2>2 DEF Fetch
  <2>4. [NoFetch EXCEPT !.at = "timer"] = y
    BY <2>1 DEF NoFetch
  <2> QED BY <2>3, <2>4
<1>12. fetches' = [f \in Fetchers |-> IF f \in {s} \X Delays THEN nf ELSE fetches[f]]
  BY <1>11, Zenon DEF Accepted
<1>13. fetches \in [Fetchers -> Fetch]
  BY DEF PInv, PageTypes
<1>14. fetches' \in [Fetchers -> Fetch]
  BY <1>11, <1>12, <1>13
<1>15. ~NoneAwaited(awaited', fetches')
  <2>1. PICK d : d \in Delays
    BY ChatStreamAssumption, Zenon
  <2>2. <<s, d>> \in Fetchers /\ <<s, d>> \in {s} \X Delays
    BY <2>1 DEF Fetchers
  <2>3. fetches'[<<s, d>>].at = "timer"
    BY <1>11, <1>12, <2>2
  <2> QED BY <2>2, <2>3 DEF NoneAwaited
<1>16. \A f \in Fetchers : Snap(fetches'[f].shot, Order, UsedBy(sends))
  <2> SUFFICES ASSUME NEW f \in Fetchers PROVE Snap(fetches'[f].shot, Order, UsedBy(sends))
    OBVIOUS
  <2>1. fetches'[f].shot = <<>> \/ fetches'[f].shot = fetches[f].shot
    BY <1>11, <1>12
  <2>2. Snap(fetches[f].shot, Order, UsedBy(sends))
    BY Zenon DEF PInv, SentBefore
  <2>3. Snap(<<>>, Order, UsedBy(sends))
    BY EmptyFacts
  <2> QED BY <2>1, <2>2, <2>3, Zenon
<1>17. PageTypes'
  <2>1. awaited' \subseteq Here
    BY <1>2
  <2> QED BY <1>1, <1>9, <1>14, <2>1, Zenon DEF PInv, PageTypes
<1>18. Linked'
  BY <1>1 DEF PInv, Linked
<1>19. SentBefore'
  BY <1>1, <1>4, <1>10, <1>16, Zenon DEF PInv, SentBefore
<1>20. Follows'
  BY <1>1, <1>4, <1>15 DEF PInv, Follows
<1>30. Drafted'
  BY <1>1, DraftedStays, Zenon
<1> QED BY <1>30, <1>17, <1>18, <1>19, <1>20, Zenon DEF PInv

LEMMA SendFailsKeeps == ASSUME PInv, NEW s \in Here, SendFails(s) PROVE PInv'
<1>1. /\ store' = store /\ link' = "up" /\ fresh' = TRUE /\ last' = <<>> /\ events' = <<>>
      /\ behind' = FALSE /\ awaited' = {} /\ view' = ChatMessages(Window)
      /\ raw' = [i \in Ids |-> <<>>] /\ fetches' = [f \in Fetchers |-> NoFetch]
      /\ Sent(s, "done") /\ sends[s] \in {"posted", "user"} /\ turns' = turns + 1 /\ turns < MaxTurns
      /\ answers' = answers /\ displaced' = FALSE
  BY Zenon DEF SendFails
<1>2. s \in Sends /\ sends \in [Sends -> {"idle", "posted", "user", "done"}]
  BY DEF Sends, PInv, PageTypes
<1>3. sends[s] # "done"
  BY <1>1
<1>4. /\ sends' \in [Sends -> {"idle", "posted", "user", "done"}] /\ UsedBy(sends) \subseteq UsedBy(sends')
      /\ \A t \in Sends : sends[t] = "done" => sends'[t] = "done"
  BY <1>1, <1>2, <1>3, UsedGrows
<1>5. store' \in Seq(Mess) /\ Snap(store', Order', UsedBy(sends'))
  <2>1. store \in Seq(Mess) /\ Once(store) /\ IdsIn(store) \subseteq UsedBy(sends)
    BY Zenon DEF PInv, PageTypes, SentBefore, Snap
  <2>2. IdsIn(store) \subseteq UsedBy(sends')
    BY <1>4, <2>1
  <2>3. Window = WindowOf(store) /\ Window' = Window
    BY <1>1, WindowNow, OrderNow, Zenon
  <2>4. Order' = Window
    BY <1>1, <2>3, Zenon DEF Order
  <2>5. Snap(store, Window, UsedBy(sends'))
    BY <2>1, <2>2, <2>3, AnyOrder
  <2> QED BY <1>1, <2>1, <2>4, <2>5, Zenon
<1>6. Window \in Seq(Mess) /\ IdsIn(Window) \subseteq UsedBy(sends)
  BY NowSnap
<1>7. ChatMessages(Window) \in Seq(Node) /\ IdsIn(ChatMessages(Window)) = IdsIn(Window)
  BY <1>6, ChatMessagesAre
<1>8. PageTypes'
  <2>1. <<>> \in Seq(Mess) /\ <<>> \in Seq(Event) /\ <<>> \in PageText
    BY DEF PageText
  <2>2. NoFetch \in Fetch
    BY <2>1 DEF NoFetch, Fetch
  <2>3. raw' \in [Ids -> PageText] /\ fetches' \in [Fetchers -> Fetch] /\ awaited' \subseteq Here
    BY <1>1, <2>1, <2>2
  <2>4. turns' \in 0..MaxTurns
    <3>1. turns \in 0..MaxTurns /\ MaxTurns \in Nat
      BY LimitNat DEF PInv, PageTypes
    <3> QED BY <1>1, <3>1
  <2>5. fresh' \in BOOLEAN /\ behind' \in BOOLEAN /\ displaced' \in BOOLEAN /\ answers' \in [Sends -> Draft]
    BY <1>1, Zenon DEF PInv, PageTypes
  <2>6. last' \in Seq(Mess) /\ events' \in Seq(Event) /\ view' \in Seq(Node) /\ link' \in {"up", "down", "refetch"}
    BY <1>1, <1>7, <2>1
  <2> QED BY <1>4, <1>5, <2>3, <2>4, <2>5, <2>6, Zenon DEF PageTypes
<1>9. Linked'
  BY <1>1 DEF Linked
<1>10. SentBefore'
  <2>1. \A f \in Fetchers : fetches'[f].shot = <<>>
    BY <1>1 DEF NoFetch
  <2>2. IdsIn(view') \subseteq UsedBy(sends') \cup {NoId}
    BY <1>1, <1>4, <1>6, <1>7
  <2> QED BY <1>1, <1>5, <2>1, <2>2, EmptyFacts, Zenon DEF SentBefore
<1>11. Follows'
  BY <1>1, Zenon DEF Follows
<1>30. Drafted'
  BY <1>1, <1>4, DraftedStays, Zenon
<1> QED BY <1>30, <1>8, <1>9, <1>10, <1>11, Zenon DEF PInv

-----------------------------------------------------------------------------
\* The page fetches the list.
LEMMA FetchSet ==
  ASSUME PInv, NEW f \in Fetchers, NEW y \in Fetch, fetches' = [fetches EXCEPT ![f] = y],
         Snap(y.shot, Order, UsedBy(sends))
  PROVE  /\ fetches' \in [Fetchers -> Fetch] /\ fetches'[f] = y
         /\ \A g \in Fetchers : Snap(fetches'[g].shot, Order, UsedBy(sends))
<1>1. fetches \in [Fetchers -> Fetch]
  BY DEF PInv, PageTypes
<1>2. fetches' \in [Fetchers -> Fetch] /\ fetches'[f] = y /\ \A g \in Fetchers : g # f => fetches'[g] = fetches[g]
  BY <1>1
<1>3. \A g \in Fetchers : Snap(fetches[g].shot, Order, UsedBy(sends))
  BY Zenon DEF PInv, SentBefore
<1> QED BY <1>2, <1>3

LEMMA NoFetchSet ==
  ASSUME PInv, NEW f \in Fetchers, fetches' = [fetches EXCEPT ![f] = NoFetch]
  PROVE  /\ fetches' \in [Fetchers -> Fetch]
         /\ \A g \in Fetchers : Snap(fetches'[g].shot, Order, UsedBy(sends))
<1>1. <<>> \in Seq(Mess)
  OBVIOUS
<1>2. NoFetch \in Fetch /\ NoFetch.shot = <<>>
  BY <1>1 DEF NoFetch, Fetch
<1>3. Snap(NoFetch.shot, Order, UsedBy(sends))
  BY <1>2, EmptyFacts, Zenon
<1> QED BY <1>2, <1>3, FetchSet

LEMMA FetchReadKeeps == ASSUME PInv, NEW f \in Fetchers, FetchRead(f) PROVE PInv'
<1>1. /\ store' = store /\ sends' = sends /\ awaited' = awaited /\ fresh' = fresh /\ last' = last
      /\ events' = events /\ view' = view /\ raw' = raw /\ behind' = behind /\ turns' = turns
      /\ answers' = answers /\ displaced' = displaced
  BY DEF FetchRead, server
<1>2. PICK y : y = [at |-> "reply", shot |-> Window]
  OBVIOUS
<1>3. fetches' = [fetches EXCEPT ![f] = y]
  BY <1>2, Zenon DEF FetchRead
<1>4. Window \in Seq(Mess) /\ Snap(Window, Order, UsedBy(sends))
  BY NowSnap, OrderNow
<1>5. y \in Fetch /\ y.at = "reply" /\ y.shot = Window
  BY <1>2, <1>4 DEF Fetch
<1>6. /\ fetches' \in [Fetchers -> Fetch] /\ fetches'[f] = y
      /\ \A g \in Fetchers : Snap(fetches'[g].shot, Order, UsedBy(sends))
  BY <1>3, <1>4, <1>5, FetchSet
<1>7. Order' = Order
  BY <1>1, OrderNow, Zenon
<1>8. (link' = "refetch" /\ link = "down") \/ link' = link
  BY DEF FetchRead
<1>9. PageTypes'
  <2>1. link' \in {"up", "down", "refetch"}
    BY <1>8 DEF PInv, PageTypes
  <2> QED BY <1>1, <1>6, <2>1, Zenon DEF PInv, PageTypes
<1>10. Linked'
  BY <1>1, <1>8 DEF PInv, Linked
<1>11. SentBefore'
  BY <1>1, <1>6, <1>7, Zenon DEF PInv, SentBefore
<1>12. Follows'
  <2>1. ~NoneAwaited(awaited', fetches')
    BY <1>5, <1>6 DEF NoneAwaited
  <2>2. link' = "up" => link = "up"
    BY <1>8
  <2> QED BY <1>1, <1>7, <2>1, <2>2 DEF PInv, Follows
<1>30. Drafted'
  BY <1>1, DraftedStays, Zenon
<1> QED BY <1>30, <1>9, <1>10, <1>11, <1>12, Zenon DEF PInv

\* A list that is not overtaken becomes, with what is on its way, the last one sent.
OvertakenBy(w, Ev, La) ==
  /\ \A i \in DOMAIN Ev : Ev[i].kind # "full"
  /\ \E k \in DOMAIN La : La[k].id \in {store[i].id : i \in DOMAIN store} /\
       \/ /\ La[k].stage = "settled" /\ La[k] \notin Range(w)
          /\ \A i \in DOMAIN Ev : Ev[i].kind = "patch" => Ev[i].m # La[k]
       \/ /\ La[k].id \notin {w[i].id : i \in DOMAIN w}
          /\ \A i \in DOMAIN Ev : Carries(Ev[i], La[k]) =>
               \E h \in 1..(i - 1), n \in (k + 1)..Len(La) : Carries(Ev[h], La[n])

LEMMA FetchedTracks ==
  ASSUME PInv, NEW w \in Seq(Mess), Snap(w, Order, UsedBy(sends)), ~Overtaken(w)
  PROVE  Tracks(ChatMessages(w), events, 0, last, Order)
<1>1. PICK v : v = ChatMessages(w)
  OBVIOUS
<1>2. /\ v \in Seq(Node) /\ DOMAIN v = DOMAIN w
      /\ \A i \in DOMAIN w : v[i].id = w[i].id /\ v[i].pend = "none" /\ v[i].text = Render(w[i].text)
      /\ IdsIn(v) = IdsIn(w)
  BY <1>1, ChatMessagesAre
<1>3. PICK E \in Seq(Event) : E = events
  BY DEF PInv, PageTypes
<1>4. PICK n \in Nat : n = Len(E) /\ DOMAIN E = 1..n
  OBVIOUS
<1>5. PICK L \in Seq(Mess) : L = last
  BY DEF PInv, PageTypes
<1>6. PICK l \in Nat : l = Len(L) /\ DOMAIN L = 1..l
  OBVIOUS
<1>7. Once(L) /\ InOrder(L, Order) /\ Announced(E, L, Order)
  BY <1>3, <1>5, Zenon DEF PInv, SentBefore, Snap
<1>8. IdsIn(Order) \subseteq IdsIn(store)
  BY NowSnap, OrderNow
<1>9. CASE \E i \in DOMAIN E : E[i].kind = "full"
  <2>1. PICK i \in DOMAIN E : E[i].kind = "full"
    BY <1>9
  <2>2. i > 0
    BY <1>4
  <2>3. Renewed(E, 0)
    BY <2>1, <2>2, Zenon DEF Renewed
  <2> QED BY <1>3, <2>3, Zenon DEF Tracks
<1>10. CASE \A i \in DOMAIN E : E[i].kind # "full"
  <2>1. ASSUME NEW k \in DOMAIN L, L[k].id \in IdsIn(Order)
        PROVE  /\ L[k].stage = "settled" => L[k] \in Range(w) \/ \E i \in DOMAIN E : PatchOf(E[i], L[k])
               /\ L[k].id \in IdsIn(w)
                  \/ \E i \in DOMAIN E : /\ Carries(E[i], L[k])
                                         /\ \A h \in 1..(i - 1), q \in (k + 1)..Len(L) : ~Carries(E[h], L[q])
    <3>1. L[k].id \in {store[i].id : i \in DOMAIN store}
      BY <1>8, <2>1 DEF IdsIn
    <3> DEFINE A(q) == /\ L[q].stage = "settled" /\ L[q] \notin Range(w)
                       /\ \A i \in DOMAIN E : E[i].kind = "patch" => E[i].m # L[q]
               B(q) == /\ L[q].id \notin {w[i].id : i \in DOMAIN w}
                       /\ \A i \in DOMAIN E : Carries(E[i], L[q]) =>
                            \E h \in 1..(i - 1), c \in (q + 1)..Len(L) : Carries(E[h], L[c])
               C == {store[i].id : i \in DOMAIN store}
    <3>2. Overtaken(w) = ((\A i \in DOMAIN E : E[i].kind # "full") /\ \E q \in DOMAIN L : L[q].id \in C /\ (A(q) \/ B(q)))
      <4>1. Overtaken(w) = OvertakenBy(w, events, last)
        BY Zenon DEF Overtaken, OvertakenBy
      <4>2. OvertakenBy(w, events, last) = OvertakenBy(w, E, L)
        BY <1>3, <1>5, Zenon
      <4>3. OvertakenBy(w, E, L) = ((\A i \in DOMAIN E : E[i].kind # "full") /\ \E q \in DOMAIN L : L[q].id \in C /\ (A(q) \/ B(q)))
        BY Zenon DEF OvertakenBy
      <4> QED BY <4>1, <4>2, <4>3, Zenon
    <3>3. ~A(k) /\ ~B(k)
      <4> HIDE DEF A, B, C
      <4> QED BY <1>10, <3>1, <3>2, Zenon DEF C
    <3> QED BY <3>2, <3>3, Zenon DEF PatchOf, IdsIn
  <2>2. Tidy(v)
    BY <1>2 DEF Tidy, Once, Snap
  <2>3. InOrder(v, Order)
    <3> SUFFICES ASSUME NEW i \in DOMAIN Order, NEW k \in DOMAIN Order, NEW o \in DOMAIN v, i < k,
                        v[o].id = Order[k].id
                 PROVE  \E h \in 1..(o - 1) : v[h].id = Order[i].id
      BY Zenon DEF InOrder
    <3>1. PICK h \in 1..(o - 1) : w[h].id = Order[i].id
      BY <1>2, ZenonT(40) DEF InOrder, Snap
    <3>2. h \in DOMAIN w
      BY <1>2, <3>1
    <3> QED BY <1>2, <3>1, <3>2
  <2>4. \A j \in DOMAIN E : j > 0
    BY <1>4
  <2>5. AllCome(v, E, 0, L, Order)
    BY <1>2, <2>1, <2>4, Zenon DEF AllCome
  <2>6. AllRight(v, E, 0, L, Order)
    <3> SUFFICES ASSUME NEW k \in DOMAIN L, L[k].id \in IdsIn(Order), L[k].stage = "settled",
                        L[k] \in Range(w)
                 PROVE  \E o \in DOMAIN v : v[o].id = L[k].id /\ v[o].text = Render(L[k].text)
      BY <2>1, <2>4, Zenon DEF AllRight
    <3>1. PICK o \in DOMAIN w : w[o] = L[k]
      BY DEF Range
    <3> QED BY <1>2, <3>1, Zenon
  <2>7. ComeInOrder(v, E, 0, Order)
    <3> SUFFICES ASSUME NEW i \in DOMAIN Order, NEW k \in DOMAIN Order, NEW j \in DOMAIN E,
                        i < k, Carries(E[j], Order[k]), Order[i].id \notin IdsIn(w)
                 PROVE  \E h \in DOMAIN E : h > 0 /\ h < j /\ Carries(E[h], Order[i])
      BY <1>2, Zenon DEF ComeInOrder
    <3>1. PICK b \in DOMAIN L : L[b].id = Order[k].id
      BY <1>7, Zenon DEF Announced, IdsIn
    <3>2. PICK a \in 1..(b - 1) : L[a].id = Order[i].id
      BY <1>7, <3>1, Zenon DEF InOrder
    <3>3. a \in DOMAIN L /\ b \in (a + 1)..Len(L) /\ a # b
      BY <1>6, <3>1, <3>2
    <3>4. L[a].id \in IdsIn(Order) /\ L[a].id \notin IdsIn(w)
      BY <3>2, Zenon DEF IdsIn
    <3>5. PICK h \in DOMAIN E : /\ Carries(E[h], L[a])
                                /\ \A g \in 1..(h - 1), q \in (a + 1)..Len(L) : ~Carries(E[g], L[q])
      BY <2>1, <3>3, <3>4, Zenon
    <3>6. Carries(E[j], L[b])
      BY <3>1, Zenon DEF Carries
    <3>7. j \notin 1..(h - 1)
      BY <3>3, <3>5, <3>6, Zenon
    <3>8. h # j
      <4>1. L[a].id # L[b].id
        BY <1>7, <3>1, <3>3 DEF Once
      <4> QED BY <3>5, <3>6, <4>1 DEF Carries
    <3>9. h < j /\ h > 0
      BY <1>4, <3>7, <3>8
    <3>10. Carries(E[h], Order[i])
      BY <3>2, <3>5, Zenon DEF Carries
    <3> QED BY <3>9, <3>10
  <2>8. Tracks(v, E, 0, L, Order)
    BY <2>2, <2>3, <2>5, <2>6, <2>7, Zenon DEF Tracks
  <2> QED BY <1>1, <1>3, <1>5, <2>8, Zenon
<1> QED BY <1>9, <1>10

\* The fetch before a reconnect ends: everything is to be sent anew.
LEMMA FreshKeeps ==
  ASSUME PInv, store' = store, sends' = sends, awaited' = awaited, turns' \in 0..MaxTurns,
         answers' = answers, displaced' = displaced,
         view' \in Seq(Node), IdsIn(view') \subseteq UsedBy(sends) \cup {NoId}, behind' \in BOOLEAN,
         fetches' \in [Fetchers -> Fetch], \A g \in Fetchers : Snap(fetches'[g].shot, Order, UsedBy(sends)),
         Connect(<<"reconnect">>)
  PROVE  PInv'
<1>1. /\ link' = "up" /\ fresh' = TRUE /\ last' = <<>> /\ events' = <<>> /\ raw' = [i \in Ids |-> <<>>]
  BY DEF Connect
<1>2. Order' = Order
  BY OrderNow, Zenon
<1>3. PageTypes'
  <2>1. <<>> \in Seq(Mess) /\ <<>> \in Seq(Event) /\ <<>> \in PageText
    BY DEF PageText
  <2>2. raw' \in [Ids -> PageText]
    BY <1>1, <2>1
  <2>3. fresh' \in BOOLEAN
    BY <1>1, Zenon
  <2>4. last' \in Seq(Mess) /\ events' \in Seq(Event) /\ link' \in {"up", "down", "refetch"}
    BY <1>1, <2>1
  <2> QED BY <2>2, <2>3, <2>4, Zenon DEF PInv, PageTypes
<1>4. Linked'
  BY <1>1 DEF Linked
<1>5. SentBefore'
  BY <1>1, <1>2, EmptyFacts, Zenon DEF PInv, SentBefore
<1>6. Follows'
  BY <1>1, Zenon DEF Follows
<1>7. Drafted'
  BY DraftedStays, Zenon
<1> QED BY <1>3, <1>4, <1>5, <1>6, <1>7, Zenon DEF PInv

LEMMA FetchRepliesKeeps == ASSUME PInv, NEW f \in Fetchers, FetchReplies(f) PROVE PInv'
<1>1. PICK w : w = fetches[f].shot
  OBVIOUS
<1>2. /\ store' = store /\ sends' = sends /\ awaited' = awaited /\ answers' = answers
      /\ displaced' = displaced /\ turns' = turns
      /\ view' = ChatMessages(w) /\ behind' = Overtaken(w)
      /\ fetches' = [fetches EXCEPT ![f] = NoFetch] /\ Connect(f)
  BY <1>1, Zenon DEF FetchReplies
<1>3. w \in Seq(Mess)
  <2>1. fetches \in [Fetchers -> Fetch]
    BY DEF PInv, PageTypes
  <2> QED BY <1>1, <2>1 DEF Fetch
<1>4. Snap(w, Order, UsedBy(sends))
  BY <1>1, Zenon DEF PInv, SentBefore
<1>5. /\ fetches' \in [Fetchers -> Fetch]
      /\ \A g \in Fetchers : Snap(fetches'[g].shot, Order, UsedBy(sends))
  BY <1>2, NoFetchSet
<1>6. view' \in Seq(Node) /\ IdsIn(view') \subseteq UsedBy(sends) \cup {NoId}
  <2>1. PICK v : v = ChatMessages(w)
    OBVIOUS
  <2>2. v \in Seq(Node) /\ IdsIn(v) = IdsIn(w)
    BY <1>3, <2>1, ChatMessagesAre
  <2>3. IdsIn(w) \subseteq UsedBy(sends)
    BY <1>4, Zenon DEF Snap
  <2> QED BY <1>2, <2>1, <2>2, <2>3
<1>7. behind' \in BOOLEAN
  BY <1>2, Zenon DEF Overtaken
<1>8. turns' \in 0..MaxTurns
  BY <1>2 DEF PInv, PageTypes
<1>9. CASE f = <<"reconnect">>
  BY <1>2, <1>5, <1>6, <1>7, <1>8, <1>9, FreshKeeps
<1>10. CASE f # <<"reconnect">>
  <2>1. link' = link /\ fresh' = fresh /\ last' = last /\ events' = events /\ raw' = raw
    BY <1>2, <1>10 DEF Connect
  <2>2. Order' = Order
    BY <1>2, OrderNow, Zenon
  <2>30. Drafted'
    BY <1>2, DraftedStays, Zenon
  <2>3. PageTypes'
    BY <1>2, <1>5, <1>6, <1>7, <2>1, Zenon DEF PInv, PageTypes
  <2>4. Linked'
    BY <2>1 DEF PInv, Linked
  <2>5. SentBefore'
    BY <1>2, <1>5, <1>6, <2>1, <2>2, Zenon DEF PInv, SentBefore
  <2>6. ~behind' => Tracks(view', events, 0, last, Order)
    BY <1>2, <1>3, <1>4, FetchedTracks
  <2>7. Follows'
    BY <2>1, <2>2, <2>6 DEF PInv, Follows
  <2> QED BY <2>30, <2>3, <2>4, <2>5, <2>7, Zenon DEF PInv
<1> QED BY <1>9, <1>10

LEMMA FetchFailsKeeps == ASSUME PInv, NEW f \in Fetchers, FetchFails(f) PROVE PInv'
<1>1. /\ store' = store /\ sends' = sends /\ awaited' = awaited /\ answers' = answers
      /\ displaced' = displaced /\ turns' = turns + 1 /\ turns < MaxTurns
      /\ view' = view /\ behind' = TRUE /\ fetches' = [fetches EXCEPT ![f] = NoFetch] /\ Connect(f)
  BY Zenon DEF FetchFails
<1>2. /\ fetches' \in [Fetchers -> Fetch]
      /\ \A g \in Fetchers : Snap(fetches'[g].shot, Order, UsedBy(sends))
  BY <1>1, NoFetchSet
<1>3. view' \in Seq(Node) /\ IdsIn(view') \subseteq UsedBy(sends) \cup {NoId} /\ behind' \in BOOLEAN
  BY <1>1, Zenon DEF PInv, PageTypes, SentBefore
<1>4. turns' \in 0..MaxTurns
  <2>1. turns \in 0..MaxTurns /\ MaxTurns \in Nat
    BY LimitNat DEF PInv, PageTypes
  <2> QED BY <1>1, <2>1
<1>5. CASE f = <<"reconnect">>
  BY <1>1, <1>2, <1>3, <1>4, <1>5, FreshKeeps
<1>6. CASE f # <<"reconnect">>
  <2>1. link' = link /\ fresh' = fresh /\ last' = last /\ events' = events /\ raw' = raw
    BY <1>1, <1>6 DEF Connect
  <2>2. Order' = Order
    BY <1>1, OrderNow, Zenon
  <2>30. Drafted'
    BY <1>1, DraftedStays, Zenon
  <2>3. PageTypes'
    BY <1>1, <1>2, <1>3, <1>4, <2>1, Zenon DEF PInv, PageTypes
  <2>4. Linked'
    BY <2>1 DEF PInv, Linked
  <2>5. SentBefore'
    BY <1>1, <1>2, <1>3, <2>1, <2>2, Zenon DEF PInv, SentBefore
  <2>6. Follows'
    BY <1>1, <2>1, <2>2 DEF PInv, Follows
  <2> QED BY <2>30, <2>3, <2>4, <2>5, <2>6, Zenon DEF PInv
<1> QED BY <1>5, <1>6

LEMMA LoseKeeps == ASSUME PInv, LoseConnection PROVE PInv'
<1>1. /\ store' = store /\ sends' = sends /\ awaited' = awaited /\ answers' = answers
      /\ displaced' = displaced /\ turns' = turns + 1 /\ turns < MaxTurns
      /\ view' = view /\ behind' = behind /\ fetches' = fetches /\ raw' = raw /\ fresh' = fresh
      /\ last' = last /\ link' = "down" /\ events' = <<>>
  BY DEF LoseConnection, server, page
<1>2. Order' = Order
  BY <1>1, OrderNow, Zenon
<1>3. PageTypes'
  <2>1. turns' \in 0..MaxTurns
    <3>1. turns \in 0..MaxTurns /\ MaxTurns \in Nat
      BY LimitNat DEF PInv, PageTypes
    <3> QED BY <1>1, <3>1
  <2>2. events' \in Seq(Event) /\ link' \in {"up", "down", "refetch"}
    BY <1>1
  <2> QED BY <1>1, <2>1, <2>2, Zenon DEF PInv, PageTypes
<1>4. Linked'
  BY <1>1 DEF PInv, Linked
<1>5. SentBefore'
  BY <1>1, <1>2, EmptyFacts, Zenon DEF PInv, SentBefore
<1>6. Follows'
  BY <1>1 DEF Follows
<1>30. Drafted'
  BY <1>1, DraftedStays, Zenon
<1> QED BY <1>30, <1>3, <1>4, <1>5, <1>6, Zenon DEF PInv

-----------------------------------------------------------------------------
LEMMA TextCat == \A a, b \in PageText : a \o b \in PageText
BY DEF PageText

LEMMA MessOf ==
  ASSUME PInv
  PROVE  (\A i \in DOMAIN store : store[i] \in Mess) /\ (\A i \in DOMAIN view : view[i] \in Node)
<1>1. store \in Seq(Mess) /\ view \in Seq(Node)
  BY Zenon DEF PInv, PageTypes
<1> QED BY <1>1

LEMMA UpdatesKeep ==
  ASSUME PInv, NEW s \in Sends,
         \/ \E p \in Parts, st \in {"pending", "settled"} : UpdateAnswer(s, answers[s].text \o p, st)
         \/ \E st \in Stages : UpdateAnswer(s, <<"other">>, st)
  PROVE  PInv'
<1>1. ASSUME NEW p \in Parts, NEW st \in {"pending", "settled"}, UpdateAnswer(s, answers[s].text \o p, st)
      PROVE  PInv'
  <2>1. p \in Seq(Range(p))
    BY ChatStreamAssumption, Zenon
  <2>2. Range(p) \subseteq PagePieces
    BY Zenon DEF PagePieces
  <2>3. p \in PageText
    <3>1. PICK n \in Nat : n = Len(p) /\ DOMAIN p = 1..n /\ p = [k \in 1..n |-> p[k]] /\ \A k \in 1..n : p[k] \in Range(p)
      BY <2>1
    <3>2. \A k \in 1..n : p[k] \in PagePieces
      BY <2>2, <3>1, Zenon
    <3>3. p \in [1..n -> PagePieces]
      BY <3>1, <3>2
    <3> QED BY <3>3 DEF PageText
  <2>4. answers[s].text \in PageText
    <3>1. answers[s] \in Draft
      BY DEF PInv, PageTypes
    <3> QED BY <3>1 DEF Draft
  <2>5. PICK t \in PageText : t = answers[s].text \o p
    BY <2>3, <2>4, TextCat
  <2>6. UpdateAnswer(s, t, st) /\ st \in {"pending", "tool", "settled"}
    BY <1>1, <2>5
  <2> QED BY <2>6, UpdateKeeps
<1>2. ASSUME NEW st \in Stages, UpdateAnswer(s, <<"other">>, st) PROVE PInv'
  <2>1. "other" \in PagePieces
    BY PieceNames
  <2>20. <<"other">> \in PageText
    BY <2>1 DEF PageText
  <2>2. PICK t \in PageText : t = <<"other">>
    BY <2>20, Zenon
  <2>3. UpdateAnswer(s, t, st) /\ st \in {"pending", "tool", "settled"}
    BY <1>2, <2>2 DEF Stages
  <2> QED BY <2>3, UpdateKeeps
<1> QED BY <1>1, <1>2

LEMMA PageStepKeeps == PInv /\ [Next]_consoleVars => PInv'
<1> SUFFICES ASSUME PInv, [Next]_consoleVars PROVE PInv'
  OBVIOUS
<1>1. CASE StreamNext
  <2>1. CASE Poll \/ DeleteSession \/ ReceiveEvent \/ LoseConnection
    BY <2>1, PollKeeps, DeleteKeeps, ReceiveKeeps, LoseKeeps
  <2>2. CASE \E s \in Here : Submit(s) \/ Accepted(s) \/ SendFails(s)
    BY <2>2, SubmitKeeps, AcceptedKeeps, SendFailsKeeps
  <2>3. CASE \E s \in Elsewhere : SubmitElsewhere(s)
    <3>1. PICK s \in Elsewhere : SubmitElsewhere(s)
      BY <2>3
    <3>2. s \in Sends
      BY DEF Sends
    <3> QED BY <3>1, <3>2, SubmitElsewhereKeeps
  <2>4. CASE \E s \in Sends :
               \/ StoreUser(s) \/ StoreAssistant(s)
               \/ \E p \in Parts, st \in {"pending", "settled"} : UpdateAnswer(s, answers[s].text \o p, st)
               \/ \E st \in Stages : UpdateAnswer(s, <<"other">>, st)
    <3>1. PICK s \in Sends :
            \/ StoreUser(s) \/ StoreAssistant(s)
            \/ \E p \in Parts, st \in {"pending", "settled"} : UpdateAnswer(s, answers[s].text \o p, st)
            \/ \E st \in Stages : UpdateAnswer(s, <<"other">>, st)
      BY <2>4, Zenon
    <3>2. CASE StoreUser(s) \/ StoreAssistant(s)
      BY <3>2, StoreUserKeeps, StoreAssistantKeeps
    <3>3. CASE ~(StoreUser(s) \/ StoreAssistant(s))
      BY <3>1, <3>3, UpdatesKeep, Zenon
    <3> QED BY <3>2, <3>3
  <2>6. CASE \E f \in Fetchers : FetchRead(f) \/ FetchReplies(f) \/ FetchFails(f)
    BY <2>6, FetchReadKeeps, FetchRepliesKeeps, FetchFailsKeeps
  <2> QED BY <1>1, <2>1, <2>2, <2>3, <2>4, <2>6, Zenon DEF StreamNext
<1>2. CASE UNCHANGED streamVars
  BY <1>2, PageStutters
<1> QED BY <1>1, <1>2, Zenon DEF Next, consoleVars, DaemonStep, SettingsStep, TurnStep, StreamStep,
        HarnessStep

\* Once the page and the server's loop are quiet, no placeholder is left and no
\* message is shown twice, and the page shows every settled message of the list
\* as it is stored and in the stored order, unless a list that was overtaken or
\* a fetch that failed left it behind, or an answer of a deleted session came
\* back to another place: for any number of sends, fetches, lost connections and
\* deleted sessions (handleWebChatEvents, and upsertMessageHTML,
\* refreshMessages and the send of the page's script).
THEOREM PageHonestHolds == Spec => []PageHonest
<1>1. PInv => PageHonest
  <2> SUFFICES ASSUME PInv PROVE PageHonest
    OBVIOUS
  <2>1. StreamTypeOK
    <3>1. \A i \in DOMAIN store : store[i].id \in Ids /\ store[i].stage \in Stages
      BY MessOf DEF Mess, Stages
    <3>10. \A s \in Sends : answers[s].stage \in Stages \cup {"none"}
      <4>1. answers \in [Sends -> Draft]
        BY DEF PInv, PageTypes
      <4> QED BY <4>1 DEF Draft, Stages
    <3>2. \A i \in DOMAIN view : view[i].id \in Ids \cup {NoId} /\ view[i].pend \in Roles \cup {"none"}
      BY MessOf DEF Node
    <3>3. \A f \in Fetchers : fetches[f].at \in {"none", "timer", "reply"}
      BY DEF PInv, PageTypes, Fetch
    <3> QED BY <3>1, <3>10, <3>2, <3>3, Zenon DEF PInv, PageTypes, StreamTypeOK
  <2>2. ASSUME Quiet, ~behind
        PROVE  /\ \A n \in DOMAIN view : view[n].pend = "none"
               /\ \A n, o \in DOMAIN view : view[n].id = view[o].id => n = o
    <3>1. link = "up" /\ events = <<>> /\ ~fresh /\ last = Window /\ awaited = {}
      BY <2>2, Zenon DEF Quiet
    <3>2. NoneAwaited(awaited, fetches)
      <4>1. \A f \in Fetchers : fetches[f].at = "none"
        BY <2>2 DEF Quiet, NoFetch
      <4> QED BY <3>1, <4>1, Zenon DEF NoneAwaited
    <3>3. Tracks(view, <<>>, 0, Window, Order)
      BY <2>2, <3>1, <3>2, Zenon DEF PInv, Follows
    <3>4. DOMAIN <<>> = {}
      OBVIOUS
    <3>5. Tidy(view)
      BY <3>3, <3>4, Zenon DEF Tracks, Renewed
    <3> QED BY <3>5, Zenon DEF Tidy, Once
  <2>20. ASSUME Quiet, ~behind, ~displaced
        PROVE  /\ \A i \in DOMAIN Window : Window[i].stage = "settled" => \E n \in DOMAIN view :
                    view[n].id = Window[i].id /\ view[n].text = Render(Window[i].text)
               /\ \A i, k \in DOMAIN Window, n, o \in DOMAIN view :
                    view[n].id = Window[i].id /\ view[o].id = Window[k].id => (i < k <=> n < o)
    <3>1. link = "up" /\ events = <<>> /\ ~fresh /\ last = Window /\ awaited = {}
      BY <2>20, Zenon DEF Quiet
    <3>2. NoneAwaited(awaited, fetches)
      <4>1. \A f \in Fetchers : fetches[f].at = "none"
        BY <2>20 DEF Quiet, NoFetch
      <4> QED BY <3>1, <4>1, Zenon DEF NoneAwaited
    <3>30. Order = Window
      BY <2>20, Zenon DEF Order
    <3>3. Tracks(view, <<>>, 0, Window, Window)
      BY <2>20, <3>1, <3>2, <3>30, Zenon DEF PInv, Follows
    <3>4. DOMAIN <<>> = {}
      OBVIOUS
    <3>5. Tidy(view) /\ InOrder(view, Window) /\ AllRight(view, <<>>, 0, Window, Window)
      BY <3>3, <3>4, Zenon DEF Tracks, Renewed
    <3>6. \A i \in DOMAIN Window : Window[i].stage = "settled" => \E n \in DOMAIN view :
            view[n].id = Window[i].id /\ view[n].text = Render(Window[i].text)
      BY <3>4, <3>5, Zenon DEF AllRight, IdsIn
    <3>7. ASSUME NEW i \in DOMAIN Window, NEW k \in DOMAIN Window, NEW n \in DOMAIN view,
                 NEW o \in DOMAIN view, view[n].id = Window[i].id, view[o].id = Window[k].id, i < k
          PROVE  n < o
      <4>1. PICK h \in 1..(o - 1) : view[h].id = Window[i].id
        BY <3>5, <3>7, Zenon DEF InOrder
      <4>2. view \in Seq(Node)
        BY DEF PInv, PageTypes
      <4>3. h \in DOMAIN view /\ h < o
        BY <4>1, <4>2
      <4>4. h = n
        BY <3>5, <3>7, <4>1, <4>3, Zenon DEF Tidy, Once
      <4> QED BY <4>3, <4>4
    <3>8. ASSUME NEW i \in DOMAIN Window, NEW k \in DOMAIN Window, NEW n \in DOMAIN view,
                 NEW o \in DOMAIN view, view[n].id = Window[i].id, view[o].id = Window[k].id, n < o
          PROVE  i < k
      <4>1. n \in Int /\ o \in Int /\ i \in Int /\ k \in Int
        <5>1. view \in Seq(Node) /\ Window \in Seq(Mess)
          BY NowSnap DEF PInv, PageTypes
        <5> QED BY <5>1
      <4>2. ~(k < i)
        BY <3>7, <3>8, <4>1
      <4>3. i # k
        <5>1. i = k => n = o
          BY <3>5, <3>8, Zenon DEF Tidy, Once
        <5> QED BY <3>8, <4>1, <5>1
      <4> QED BY <4>1, <4>2, <4>3
    <3> QED BY <3>6, <3>7, <3>8, Zenon
  <2>3. ShownAsStored
    BY <2>2, <2>20, Zenon DEF ShownAsStored
  <2> QED BY <2>1, <2>3 DEF PageHonest
<1>2. Init => PInv
  BY PageInit, Zenon DEF Init
<1> QED BY <1>1, <1>2, PageStepKeeps, PTL DEF Spec
=============================================================================
