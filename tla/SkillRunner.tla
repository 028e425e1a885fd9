---------------------------- MODULE SkillRunner ----------------------------
(***************************************************************************)
(* How a task is carried out by its skill (internal/skills/runner.go and   *)
(* external.go), over the registry of SkillRegistry.                       *)
(*                                                                         *)
(* A handler is a sequence of steps, each of which may interleave with     *)
(* another run of the same task, with reloads and with a crash.  An error  *)
(* of a step ends the run and leaves the task as it is, to be run again;   *)
(* a refusal (no input, no connector, no approval) blocks the task.        *)
(*                                                                         *)
(* Left to other modules: the pointer to the active task (TaskRuntime),    *)
(* the schedule a done task sets off (MemoryScheduler), the approval of a  *)
(* built-in skill's action (RootExecution), what the executor does with an *)
(* action (Execution) and the memory store with a card (MemoryStore).      *)
(***************************************************************************)
EXTENDS SkillRegistry, TLC

CONSTANTS
  Task,          \* tasks
  Kinds,         \* what the tasks may be: records [skill, root, given]
  Run            \* runs that may be under way at once

VARIABLES
  task,          \* the tasks: [skill, root, given, state, approval]
  artifact,      \* each task's artifact: "none", "torn" or "whole"
  observation,   \* each task's observation: "none", "torn" or the status in it
  memory,        \* what each task has written to memory
  grants,        \* the approvals requested: [task, status]
  run,           \* the runs under way
  doneBy,        \* ledger: the handler that completed each task
  overlap,       \* ledger: the tasks two runs worked on at once
  effects,       \* ledger: how often each task's action was carried out
  failures,      \* ledger: each task's runs that did not complete it or were denied after that
  commands       \* ledger: external commands started for a root task

taskVars == <<task, artifact, observation, memory, grants, run>>
ledgers == <<doneBy, overlap, effects, failures, commands>>
vars == <<regVars, faults, taskVars, ledgers>>

Idle == [at |-> "idle"]
Busy(t) == {r \in Run : run[r] # Idle /\ run[r].task = t}

-----------------------------------------------------------------------------
(***************************************************************************)
(* The handlers.  "root" is a card, "root-summary" an edge between two;    *)
(* both may be there already.                                              *)
(***************************************************************************)

persistWebSearchMemory ==
  << "root", "summary", "root-summary",
     "result", "root-result" >>

persistGitHubIssueMemory ==
  << "root", "summary", "root-summary",
     "issue", "root-issue" >>

persistEmailMemory ==
  << "root", "summary", "root-summary",
     "thread", "root-thread",
     "message", "root-message", "thread-message" >>

runTaskPlan == << "generate", "artifact", "observation" >>
runFileEdit == << "input", "execute", "observation" >>
runFileRead == << "input", "execute", "artifact", "observation" >>
runShellCommand == << "input", "execute", "artifact", "observation" >>
runWebSearch == << "connect", "artifact", "observation" >> \o persistWebSearchMemory
runGitHubIssueSearch == << "connect", "artifact", "observation" >> \o persistGitHubIssueMemory
runEmailInbox == << "connect", "artifact", "observation" >> \o persistEmailMemory
runMemoryConsolidate == << "consolidate", "artifact", "observation" >>
externalHandler == << "paths", "approve", "consume", "command" >>

Handler(h) ==
  CASE h = "task-plan" -> runTaskPlan
    [] h = "file-edit" -> runFileEdit
    [] h = "file-read" -> runFileRead
    [] h = "shell-command" -> runShellCommand
    [] h = "web-search" -> runWebSearch
    [] h = "github-issue-search" -> runGitHubIssueSearch
    [] h = "email-inbox" -> runEmailInbox
    [] h = "memory-consolidate" -> runMemoryConsolidate
    [] h = External -> externalHandler

ASSUME RunnerAssumption ==
  LET known == {"task-plan", "file-edit", "file-read", "shell-command", "web-search",
                "github-issue-search", "email-inbox", "memory-consolidate"}
  IN  /\ Range(Builtin) \subseteq known /\ External \notin known
      /\ IsFiniteSet(Task) /\ IsFiniteSet(Run)
      /\ \A k \in Kinds : k.root \in BOOLEAN /\ k.given \in BOOLEAN

\* What a handler writes to memory.
MemoryOf(h) ==
  CASE h = "web-search" -> Range(persistWebSearchMemory)
    [] h = "github-issue-search" -> Range(persistGitHubIssueMemory)
    [] h = "email-inbox" -> Range(persistEmailMemory)
    [] OTHER -> {}

-----------------------------------------------------------------------------
(***************************************************************************)
(* A run                                                                   *)
(***************************************************************************)

At(r, step) == run[r].at = "step" /\ run[r].left # <<>> /\ Head(run[r].left) = step
Becomes(r, next) == run' = [run EXCEPT ![r] = next]
Done(r) == Becomes(r, [run[r] EXCEPT !.left = Tail(@)])
Skip(r, to, left) == Becomes(r, [run[r] EXCEPT !.to = to, !.left = left])

\* The run ends with an error; the task is not moved.
Fails(r) ==
  /\ Becomes(r, Idle)
  /\ failures' = [failures EXCEPT ![run[r].task] = @ + 1]

\* RunTaskWithProgress: the handler of the skill, or else of task-plan; none
\* when it is disabled.
Resolve(g, n) ==
  LET name == IF Resolves(g, n) THEN n ELSE "task-plan"
  IN  IF Resolves(g, name) /\ g[name].enabled THEN {g[name].handler} ELSE {}

CallOn(t) ==
  /\ calls' = calls + (IF OpenCalls = {} /\ Busy(t) = {} THEN 1 ELSE 2)
  /\ calls' <= MaxCalls

\* handleRunTask: a task that stopped is requeued first.
RunTask(r, t) ==
  /\ run[r] = Idle
  /\ task[t].state \in {"planned", "blocked", "failed"}
  /\ CallOn(t)
  /\ task' = [task EXCEPT ![t].state = "planned"]
  /\ \E h \in Resolve(reg, task[t].skill) :
       Becomes(r, [at |-> "step", task |-> t, handler |-> h, left |-> Handler(h),
                   to |-> "done", approval |-> task[t].approval])
  /\ overlap' = IF Busy(t) = {} THEN overlap ELSE overlap \cup {t}
  /\ UNCHANGED <<reg, manifest, state, admin, mixed, faults, artifact, observation, memory,
                 grants, doneBy, effects, failures, commands>>

\* The skill is disabled: only the requeue is left.
RunRefused(t) ==
  /\ calls < MaxCalls
  /\ task[t].state \in {"blocked", "failed"}
  /\ Resolve(reg, task[t].skill) = {}
  /\ calls' = calls + 1
  /\ task' = [task EXCEPT ![t].state = "planned"]
  /\ UNCHANGED <<reg, manifest, state, admin, mixed, faults, artifact, observation, memory,
                 grants, run, ledgers>>

\* handleApproveTask, on any task that is not done: it may be run again, and
\* an approval it waits for stays as it is.
ApproveTask(t) ==
  /\ task[t].state # "done"
  /\ CallOn(t)
  /\ task' = [task EXCEPT ![t].state = "planned"]
  /\ UNCHANGED <<reg, manifest, state, admin, mixed, faults, artifact, observation, memory,
                 grants, run, ledgers>>

\* handleDenyTask, whatever the task's state and whoever works on it.
DenyTask(t) ==
  /\ CallOn(t)
  /\ task' = [task EXCEPT ![t].state = "failed"]
  /\ failures' = IF task[t].state = "done" THEN [failures EXCEPT ![t] = @ + 1] ELSE failures
  /\ UNCHANGED <<reg, manifest, state, admin, mixed, faults, artifact, observation, memory,
                 grants, run, doneBy, overlap, effects, commands>>

Outside == <<regVars, faults, task, artifact, observation, memory, grants,
             doneBy, overlap>>

\* generateTaskPlan: the model's text, or a text of its own.
generateTaskPlan(r) ==
  /\ At(r, "generate")
  /\ Done(r)
  /\ UNCHANGED <<Outside, effects, failures, commands>>

\* Procedures and promotions (MemoryLife) may fail; the summary does not.
Consolidates(r) ==
  /\ At(r, "consolidate")
  /\ \/ Done(r) /\ UNCHANGED failures
     \/ Fails(r)
  /\ UNCHANGED <<Outside, effects, commands>>

\* The path or the command is in the task's metadata, or the task is blocked.
CheckInput(r) ==
  /\ At(r, "input")
  /\ IF task[run[r].task].given THEN Done(r) ELSE Skip(r, "blocked", <<>>)
  /\ UNCHANGED <<Outside, effects, failures, commands>>

\* An action that failed is recorded like one that succeeded; the executor
\* may also refuse it or lose its record.
Execute(r) ==
  /\ At(r, "execute")
  /\ \/ /\ \E to \in {"done", "failed"} : Skip(r, to, Tail(run[r].left))
        /\ effects' = [effects EXCEPT ![run[r].task] = @ + 1]
        /\ UNCHANGED failures
     \/ /\ Fails(r)
        /\ \/ UNCHANGED effects
           \/ effects' = [effects EXCEPT ![run[r].task] = @ + 1]
  /\ UNCHANGED <<Outside, commands>>

\* The connector answers in time or the task is blocked; a web search says
\* so in its observation first (blockSearchTask).
Connect(r) ==
  /\ At(r, "connect")
  /\ \/ Done(r)
     \/ Skip(r, "blocked", IF run[r].handler = "web-search" THEN <<"observation">> ELSE <<>>)
  /\ UNCHANGED <<Outside, effects, failures, commands>>

writeArtifact(r) ==
  /\ At(r, "artifact")
  /\ artifact' = [artifact EXCEPT ![run[r].task] = "whole"]
  /\ Done(r)
  /\ UNCHANGED <<regVars, faults, task, observation, memory, grants, ledgers>>

writeObservation(r) ==
  /\ At(r, "observation")
  /\ observation' = [observation EXCEPT ![run[r].task] = run[r].to]
  /\ Done(r)
  /\ UNCHANGED <<regVars, faults, task, artifact, memory, grants, ledgers>>

WritesMemory(r) == run[r].at = "step" /\ run[r].left # <<>> /\ Head(run[r].left) \in MemoryOf(run[r].handler)

upsertCard(r) ==
  /\ WritesMemory(r)
  /\ memory' = [memory EXCEPT ![run[r].task] = @ \cup {Head(run[r].left)}]
  /\ Done(r)
  /\ UNCHANGED <<regVars, faults, task, artifact, observation, grants, ledgers>>

\* A write fails: a file may be torn, memory is as it was.
WriteFails(r) ==
  /\ faults < MaxFaults
  /\ faults' = faults + 1
  /\ \/ At(r, "artifact") /\ artifact' = [artifact EXCEPT ![run[r].task] = "torn"] /\ UNCHANGED observation
     \/ At(r, "observation") /\ observation' = [observation EXCEPT ![run[r].task] = "torn"] /\ UNCHANGED artifact
     \/ WritesMemory(r) /\ UNCHANGED <<artifact, observation>>
  /\ Fails(r)
  /\ UNCHANGED <<regVars, task, memory, grants, doneBy, overlap, effects, commands>>
-----------------------------------------------------------------------------
(***************************************************************************)
(* External commands and their approval                                    *)
(***************************************************************************)

\* The command is a file below the manifest's directory, and so is workdir.
resolveExternalPaths(r) ==
  /\ At(r, "paths")
  /\ Done(r) \/ Skip(r, "failed", <<>>)
  /\ UNCHANGED <<Outside, effects, failures, commands>>

\* resolveRootApproval, on the approval the task named when it was read.
\* A new request is made before the task is moved to wait for it.
resolveRootApproval(r) ==
  /\ At(r, "approve")
  /\ LET i == run[r].approval
         new == Len(grants) + 1
     IN  \/ /\ ~task[run[r].task].root
            /\ Becomes(r, [run[r] EXCEPT !.left = << "command" >>])
            /\ UNCHANGED grants
         \/ /\ task[run[r].task].root
            /\ IF i = 0
               THEN /\ grants' = Append(grants, [task |-> run[r].task, status |-> "pending"])
                    /\ Becomes(r, [run[r] EXCEPT !.to = "awaiting_approval", !.left = <<>>,
                                                !.approval = new])
               ELSE /\ CASE grants[i].status = "pending" -> Skip(r, "awaiting_approval", <<>>)
                          [] grants[i].status = "approved" -> Done(r)
                          [] OTHER -> Skip(r, "blocked", <<>>)
                    /\ UNCHANGED grants
  /\ UNCHANGED <<regVars, faults, task, artifact, observation, memory, ledgers>>

\* Mutant: a token that was read as approved is good.
MutConsumeStale(r) ==
  /\ At(r, "consume")
  /\ grants' = [grants EXCEPT ![run[r].approval].status = "consumed"]
  /\ Done(r)
  /\ UNCHANGED <<regVars, faults, task, artifact, observation, memory, ledgers>>

Consume(r) ==
  /\ At(r, "consume")
  /\ IF grants[run[r].approval].status = "approved"
     THEN grants' = [grants EXCEPT ![run[r].approval].status = "consumed"] /\ Done(r)
     ELSE Skip(r, "failed", <<>>) /\ UNCHANGED grants
  /\ UNCHANGED <<regVars, faults, task, artifact, observation, memory, ledgers>>

\* The command ends with a result, with a state the runner does not know, or
\* not at all: an exit status, a timeout, an output that does not decode.
Command(r) ==
  /\ At(r, "command")
  /\ commands' = IF task[run[r].task].root THEN commands + 1 ELSE commands
  /\ effects' = [effects EXCEPT ![run[r].task] = @ + 1]
  /\ \/ /\ \E to \in {"done", "blocked", "failed"}, left \in {<<"artifact", "observation">>, <<"observation">>} :
             Skip(r, to, left)
        /\ UNCHANGED failures
     \/ Skip(r, "failed", <<>>) /\ UNCHANGED failures
     \/ Fails(r)
  /\ UNCHANGED <<Outside>>

\* handleApproveApproval and handleDenyApproval, with the move of the task.
Approve(i) ==
  /\ i \in DOMAIN grants /\ grants[i].status = "pending"
  /\ grants' = [grants EXCEPT ![i].status = "approved"]
  /\ LET t == grants[i].task
     IN  task' = IF task[t].state = "done" THEN task
                 ELSE [task EXCEPT ![t].state = "planned", ![t].approval = i]
  /\ UNCHANGED <<regVars, faults, artifact, observation, memory, run, ledgers>>

Deny(i) ==
  /\ i \in DOMAIN grants /\ grants[i].status = "pending"
  /\ grants' = [grants EXCEPT ![i].status = "denied"]
  /\ task' = [task EXCEPT ![grants[i].task].state = "blocked", ![grants[i].task].approval = i]
  /\ UNCHANGED <<regVars, faults, artifact, observation, memory, run, ledgers>>

-----------------------------------------------------------------------------
(***************************************************************************)
(* The end of a run                                                        *)
(***************************************************************************)

\* Mutant: the task is moved before its memory is written.
MutMoveEarly(r) ==
  /\ run[r].at = "step" /\ (run[r].left = <<>> \/ WritesMemory(r))
  /\ task' = [task EXCEPT ![run[r].task].state = run[r].to]
  /\ doneBy' = [doneBy EXCEPT ![run[r].task] = run[r].handler]
  /\ Becomes(r, Idle)
  /\ UNCHANGED <<regVars, faults, artifact, observation, memory, grants,
                 overlap, effects, failures, commands>>

\* MoveTask to the state the run came to: finalizeSuccessfulTask, blockTask,
\* failExternalTask, awaitApproval.
MoveTask(r) ==
  /\ run[r].at = "step" /\ run[r].left = <<>>
  /\ LET t == run[r].task
     IN  /\ task' = [task EXCEPT ![t].state = run[r].to,
                                 ![t].approval = IF run[r].to = "awaiting_approval"
                                                 THEN run[r].approval ELSE @]
         /\ doneBy' = IF run[r].to = "done" THEN [doneBy EXCEPT ![t] = run[r].handler] ELSE doneBy
         /\ failures' = IF run[r].to = "done" THEN failures ELSE [failures EXCEPT ![t] = @ + 1]
  /\ Becomes(r, Idle)
  /\ UNCHANGED <<regVars, faults, artifact, observation, memory, grants,
                 overlap, effects, commands>>

RunStep(r) ==
  \/ generateTaskPlan(r) \/ Consolidates(r) \/ CheckInput(r) \/ Execute(r) \/ Connect(r)
  \/ writeArtifact(r) \/ writeObservation(r) \/ upsertCard(r) \/ WriteFails(r)
  \/ resolveExternalPaths(r) \/ resolveRootApproval(r) \/ Consume(r) \/ Command(r)
  \/ MoveTask(r)

\* The daemon stops: a file that was being written may be torn.
Crash ==
  /\ faults < MaxFaults
  /\ faults' = faults + 1
  /\ NewRunner
  /\ run' = [r \in Run |-> Idle]
  /\ \E torn \in SUBSET {r \in Run : run[r] # Idle} :
       /\ artifact' = [t \in Task |-> IF \E r \in torn : run[r].task = t /\ At(r, "artifact")
                                      THEN "torn" ELSE artifact[t]]
       /\ observation' = [t \in Task |-> IF \E r \in torn : run[r].task = t /\ At(r, "observation")
                                         THEN "torn" ELSE observation[t]]
  /\ failures' = [t \in Task |-> failures[t] + Cardinality(Busy(t))]
  /\ UNCHANGED <<task, memory, grants, doneBy, overlap, effects, commands>>

\* The daemon starts on what an earlier one left: manifests, and root tasks
\* that may have been approved already.
Init ==
  /\ RegistryInit /\ faults = 0
  /\ \E kind \in [Task -> Kinds], waited \in BOOLEAN :
       LET first == IF waited THEN {t \in Task : kind[t].root} ELSE {}
       IN  /\ grants = SetToSeq({[task |-> t, status |-> "approved"] : t \in first})
           /\ task = [t \in Task |->
                        [skill |-> kind[t].skill, root |-> kind[t].root, given |-> kind[t].given,
                         state |-> "planned",
                         approval |-> IF t \in first
                                      THEN CHOOSE i \in DOMAIN grants : grants[i].task = t ELSE 0]]
  /\ artifact = [t \in Task |-> "none"] /\ observation = [t \in Task |-> "none"]
  /\ memory = [t \in Task |-> {}]
  /\ run = [r \in Run |-> Idle]
  /\ doneBy = [t \in Task |-> "none"]
  /\ overlap = {} /\ commands = 0
  /\ effects = [t \in Task |-> 0] /\ failures = [t \in Task |-> 0]

Next ==
  \/ \E a \in Admin : (AdminCall(a) \/ AdminStep(a)) /\ UNCHANGED <<taskVars, ledgers>>
  \/ \E r \in Run : (\E t \in Task : RunTask(r, t)) \/ RunStep(r)
  \/ \E t \in Task : RunRefused(t) \/ ApproveTask(t) \/ DenyTask(t)
  \/ \E i \in 1..MaxCalls : Approve(i) \/ Deny(i)
  \/ Crash

Spec == Init /\ [][Next]_vars

-----------------------------------------------------------------------------
(***************************************************************************)
(* Properties                                                              *)
(***************************************************************************)

\* The type invariant.
TypeOK ==
  /\ RegistryTypeOK
  /\ \A t \in Task :
       /\ task[t].state \in {"planned", "awaiting_approval", "blocked", "failed", "done"}
       /\ task[t].approval \in 0..Len(grants)
       /\ artifact[t] \in {"none", "torn", "whole"}
       /\ observation[t] \in {"none", "torn", "done", "blocked", "failed"}
       /\ memory[t] \subseteq MemoryOf("web-search") \cup MemoryOf("github-issue-search") \cup MemoryOf("email-inbox")
  /\ \A r \in Run : run[r] # Idle => run[r].task \in Task /\ run[r].approval \in 0..Len(grants)

\* A done task has everything its handler makes, whole: whichever of its
\* earlier runs ended in a failed write or a crash half way, as long as no
\* two runs worked on it at once (the handlers move the task last, and a
\* rerun writes everything again: writeArtifact, upsertCard).
DoneComplete ==
  \A t \in Task \ overlap : task[t].state = "done" =>
    /\ observation[t] = "done"
    /\ doneBy[t] \notin {"file-edit", External} => artifact[t] = "whole"
    /\ MemoryOf(doneBy[t]) \subseteq memory[t]

\* A task that is not run twice at once is acted for at most once, and once
\* more for each run that was over without completing the task, be it by a
\* write that failed after the action or by a crash, or whose task was denied
\* when it was done (Execute, Command, DenyTask).
ActsOncePerRun == \A t \in Task \ overlap : effects[t] <= failures[t] + 1

\* An external command of a root task is started once for each approval that
\* was given, whatever runs race for it: the approval is consumed before the
\* command starts (externalHandler, Consume).
OneCommandPerGrant ==
  commands <= Cardinality({i \in DOMAIN grants : grants[i].status = "consumed"})

\* Nothing is done more often than it failed, was taken back or was approved:
\* ActsOncePerRun and OneCommandPerGrant, over states of the right types.
ActsBounded == TypeOK /\ ActsOncePerRun /\ OneCommandPerGrant
=============================================================================
