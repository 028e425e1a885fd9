---------------------------- MODULE TaskRuntime ----------------------------
(***************************************************************************)
(* The task files tasks/<state>/<task id>.json, the runtime state file     *)
(* state/runtime.json, and the calls of the orchestrator, the skill runner *)
(* and the HTTP handlers that change them (internal/airuntime,             *)
(* internal/skills/runner.go, internal/api/server.go).                     *)
(*                                                                         *)
(* The store's mutex covers one store operation, not a call: a step below  *)
(* is one locked operation (GetTask, MoveTask, LoadState, SaveState, ...)  *)
(* with the code up to the next one, and the calls of several goroutines   *)
(* interleave between them.  The process may crash between any two steps   *)
(* and inside MoveTask, between os.Remove and the end of os.WriteFile.     *)
(***************************************************************************)
EXTENDS Naturals, FiniteSets

CONSTANTS
  Caller,      \* the goroutines that serve requests
  Calls,       \* the kinds of call clients make
  MaxTasks,    \* bound: tasks ever created
  MaxCrashes,  \* bound: crashes
  TornWrites   \* whether a crash may leave a file cut short

CallKind == {"submit", "approve", "deny", "run", "grant", "refuse"}

ASSUME TaskRuntimeAssumption ==
  /\ MaxTasks \in Nat
  /\ MaxCrashes \in Nat
  /\ Calls \subseteq CallKind
  /\ TornWrites \in BOOLEAN

\* Ids are task-<UnixNano>: their order is the order of CreatedAt.
Task == 1..MaxTasks
None == 0

\* "lost" and "torn" are what a crash makes of a file: gone, or unparsable.
\* No code moves a task to archived.
Stored == {"inbox", "planned", "active", "blocked", "awaiting_approval",
           "done", "failed"}

VARIABLES
  task,     \* the state each task's file is under
  runtime,  \* runtime.json: ActiveTaskID and Status
  mode,     \* the process: serving, or the step of its start it is at
  call,     \* the call each caller is in, and its local state
  nextId,   \* the next task's id
  crashes   \* how often the process crashed

vars == <<task, runtime, mode, call, nextId, crashes>>

Idle == [active |-> None, status |-> "idle"]
Busy(t) == [active |-> t, status |-> "busy"]

\* A call: its next step, the id of its task, the RuntimeState it has loaded
\* and will use again, and the step that follows its RequeueTask.
NoCall == [pc |-> "idle", task |-> None, seen |-> Idle, then |-> "idle"]

Init ==
  /\ task = [t \in Task |-> "none"]
  /\ runtime = Idle
  /\ mode = "up"
  /\ call = [c \in Caller |-> NoCall]
  /\ nextId = 1
  /\ crashes = 0

-----------------------------------------------------------------------------
(***************************************************************************)
(* Steps of a call                                                         *)
(***************************************************************************)

At(c, l) == mode = "up" /\ call[c].pc = l

\* The call goes on at step l; its local state ends with it.
Becomes(c, r) == call' = [call EXCEPT ![c] = IF r.pc = "idle" THEN NoCall ELSE r]
Go(c, l) == Becomes(c, [call[c] EXCEPT !.pc = l])

\* The locked MoveTask: fails without a change when the file is missing or
\* does not parse.
Movable(t) == t \in Task /\ task[t] \in Stored
Moved(t, s) == task' = [task EXCEPT ![t] = s]

Begin(c, kind, t, first, follow) ==
  /\ At(c, "idle")
  /\ kind \in Calls
  /\ t < nextId
  /\ Becomes(c, [pc |-> first, task |-> t, seen |-> Idle, then |-> follow])
  /\ UNCHANGED <<task, runtime, mode, nextId, crashes>>

\* A step that only reads files, and one that only saves runtime.json.
Reads(c, at, next) ==
  /\ At(c, at)
  /\ Go(c, next)
  /\ UNCHANGED <<task, runtime, mode, nextId, crashes>>

Saves(c, at, r, next) ==
  /\ At(c, at)
  /\ runtime' = r
  /\ Go(c, next)
  /\ UNCHANGED <<task, mode, nextId, crashes>>

\* A step that is one MoveTask of the call's task.
MoveStep(c, at, s, next) ==
  /\ At(c, at)
  /\ IF Movable(call[c].task)
     THEN Moved(call[c].task, s) /\ Go(c, next)
     ELSE UNCHANGED task /\ Go(c, "idle")
  /\ UNCHANGED <<runtime, mode, nextId, crashes>>

\* The state GetTask reads for the call's task.
Got(c) == task[call[c].task]

\* SubmitTask: CreateTask, then Advance.  Its callers are clients, the chat
\* and the memory scheduler, which a caller reaches after its ClearSave of a
\* finished task and whose conditions (candidate cards, cooldown) are not
\* state of this module: the caller's next Submit stands for it.
Submit(c) ==
  /\ At(c, "idle")
  /\ "submit" \in Calls
  /\ nextId \in Task
  /\ Moved(nextId, "inbox")
  /\ nextId' = nextId + 1
  /\ Go(c, "adv_load")
  /\ UNCHANGED <<runtime, mode, crashes>>

AdvLoad(c) ==
  /\ At(c, "adv_load")
  /\ Becomes(c, IF runtime.active # None
                THEN [call[c] EXCEPT !.pc = "adv_check", !.seen = runtime]
                ELSE [call[c] EXCEPT !.pc = "adv_list"])
  /\ UNCHANGED <<task, runtime, mode, nextId, crashes>>

\* Mutant: Advance does not look whether the task it was given is still active.
AdvCheckDrops(c) == Reads(c, "adv_check", "adv_clear")

\* Advance answers with the active task it finds, gives up on a file it
\* cannot parse, and otherwise drops the pointer.
AdvCheck(c) ==
  Reads(c, "adv_check",
        IF task[call[c].seen.active] \in {"active", "torn"} THEN "idle" ELSE "adv_clear")

AdvClear(c) == Saves(c, "adv_clear", Idle, "adv_list")

\* The tasks that stop Advance's loop over ListTasks.
Pending == {t \in Task : task[t] \in {"inbox", "planned", "active", "awaiting_approval"}}

\* ListTasks fails on a file it cannot parse; its order is newest first.
AdvList(c) ==
  /\ At(c, "adv_list")
  /\ \/ /\ Pending = {} \/ \E t \in Task : task[t] = "torn"
        /\ Go(c, "idle")
     \/ /\ \A t \in Task : task[t] # "torn"
        /\ \E t \in Pending :
             /\ \A u \in Pending : u <= t
             /\ Becomes(c, [NoCall EXCEPT
                  !.task = t,
                  !.pc = IF task[t] = "inbox" THEN "plan"
                         ELSE IF task[t] = "planned" THEN "activate" ELSE "idle"])
  /\ UNCHANGED <<task, runtime, mode, nextId, crashes>>

PlanTask(c) == MoveStep(c, "plan", "planned", "activate")

ActivateTask(c) == MoveStep(c, "activate", "active", "act_save")

\* activateTask's LoadState and SaveState: what is written depends on
\* nothing that is loaded.
ActSave(c) == Saves(c, "act_save", Busy(call[c].task), "idle")

\* ApproveTask: RequeueTask, then activateTask.
ApproveTask(c, t) == Begin(c, "approve", t, "rq_get", "activate")

\* handleApproveApproval: after Approve, RequeueTask for the approval's task.
GrantTask(c, t) == Begin(c, "grant", t, "rq_get", "idle")

\* DenyTask: one MoveTask from whatever state.
DenyTask(c, t) == Begin(c, "deny", t, "deny", "idle")
DenyMove(c) == MoveStep(c, "deny", "failed", "idle")

\* handleDenyApproval: after Deny, one MoveTask from whatever state.
RefuseTask(c, t) == Begin(c, "refuse", t, "refuse", "idle")
RefuseMove(c) == MoveStep(c, "refuse", "blocked", "idle")

Requeueable == {"planned", "active", "blocked", "failed", "awaiting_approval"}

\* Mutant: RequeueTask takes a task from any state.
RequeueGetAny(c) == Reads(c, "rq_get", IF Movable(call[c].task) THEN "rq_load" ELSE "idle")

RequeueGet(c) == Reads(c, "rq_get", IF Got(c) \in Requeueable THEN "rq_load" ELSE "idle")

RequeueLoad(c) ==
  Reads(c, "rq_load", IF runtime.active = call[c].task THEN "rq_save" ELSE "rq_move")

RequeueSave(c) == Saves(c, "rq_save", Idle, "rq_move")

RequeueMove(c) == MoveStep(c, "rq_move", "planned", call[c].then)

\* handleRunTask: a failed or blocked task is requeued first.
RunTask(c, t) ==
  Begin(c, "run", t, IF task[t] \in {"failed", "blocked"} THEN "rq_get" ELSE "run_get",
        "run_get")

\* The web console's run action, and the run that follows ApproveTask in the
\* chat, call the runner at once.
WebRunTask(c, t) == Begin(c, "run", t, "run_get", "idle")

\* Mutant: the runner runs whatever it finds.
RunGetAny(c) == Reads(c, "run_get", IF Movable(call[c].task) THEN "run_end" ELSE "idle")

\* Runner.RunTaskWithProgress: only a planned or an active task.
RunGet(c) ==
  Reads(c, "run_get", IF Got(c) \in {"planned", "active"} THEN "run_end" ELSE "idle")

\* A skill handler ends in one MoveTask (done, failed, blocked or awaiting
\* approval), or returns an error and leaves the task where it is.
RunEnd(c) ==
  \/ \E s \in {"done", "failed", "blocked", "awaiting_approval"} :
       MoveStep(c, "run_end", s, "clr_load")
  \/ Reads(c, "run_end", "idle")

\* clearActiveTask writes back the state it loaded, changed or not.
ClearLoad(c) ==
  /\ At(c, "clr_load")
  /\ Becomes(c, [call[c] EXCEPT !.pc = "clr_save", !.seen = runtime])
  /\ UNCHANGED <<task, runtime, mode, nextId, crashes>>

ClearSave(c) ==
  Saves(c, "clr_save",
        IF call[c].seen.active = call[c].task THEN Idle ELSE call[c].seen, "idle")

Step(c) ==
  \/ AdvLoad(c) \/ AdvCheck(c) \/ AdvClear(c) \/ AdvList(c)
  \/ PlanTask(c) \/ ActivateTask(c) \/ ActSave(c)
  \/ RequeueGet(c) \/ RequeueLoad(c) \/ RequeueSave(c) \/ RequeueMove(c)
  \/ DenyMove(c) \/ RefuseMove(c)
  \/ RunGet(c) \/ RunEnd(c) \/ ClearLoad(c) \/ ClearSave(c)

-----------------------------------------------------------------------------
(***************************************************************************)
(* Crash and start                                                         *)
(***************************************************************************)

Moving == {"plan", "activate", "rq_move", "deny", "refuse", "run_end"}

\* What the crash leaves of the task files: everything, or one task less
\* when it hits a MoveTask between its removal and its write.
CrashFiles(t) ==
  \/ Moved(t, "lost")
  \/ TornWrites /\ Moved(t, "torn")

\* A runtime.json cut short by the crash is replaced by a fresh one when the
\* daemon starts (runtimeapp.Build); the start saves the file as well.
SavingState ==
  /\ TornWrites
  /\ mode = "up" => \E c \in Caller :
       call[c].pc \in {"adv_clear", "act_save", "rq_save", "clr_save"}

Crash ==
  /\ crashes < MaxCrashes
  /\ crashes' = crashes + 1
  /\ mode' = "boot"
  /\ call' = [c \in Caller |-> NoCall]
  /\ \/ UNCHANGED task
     \/ /\ mode = "up"
        /\ \E c \in Caller :
             call[c].pc \in Moving /\ Movable(call[c].task) /\ CrashFiles(call[c].task)
     \/ /\ mode = "boot"
        /\ runtime.active # None
        /\ task[runtime.active] = "active"
        /\ CrashFiles(runtime.active)
  /\ runtime' \in IF SavingState THEN {runtime, Idle} ELSE {runtime}
  /\ UNCHANGED nextId

\* The process dies inside CreateTask: nobody was told of the task, and its
\* file, which is there from then on, does not parse.
CrashCreating ==
  /\ TornWrites
  /\ crashes < MaxCrashes
  /\ \E c \in Caller : At(c, "idle")
  /\ "submit" \in Calls
  /\ nextId \in Task
  /\ Moved(nextId, "torn")
  /\ nextId' = nextId + 1
  /\ crashes' = crashes + 1
  /\ mode' = "boot"
  /\ call' = [c \in Caller |-> NoCall]
  /\ UNCHANGED runtime

\* Mutant: Recover does not take the interrupted task back to planned.
RecoverKeepsActive ==
  /\ mode = "boot"
  /\ mode' = "boot_save"
  /\ UNCHANGED <<task, runtime, call, nextId, crashes>>

\* Mutant: Recover fails on a task whose file is gone.
RecoverNeedsFile ==
  /\ mode = "boot"
  /\ runtime.active # None => Movable(runtime.active)
  /\ IF runtime.active # None /\ task[runtime.active] = "active"
     THEN Moved(runtime.active, "planned")
     ELSE UNCHANGED task
  /\ mode' = "boot_save"
  /\ UNCHANGED <<runtime, call, nextId, crashes>>

\* Recover, first half: the task that was active goes back to planned; a
\* file that does not parse ends the start with an error.
RecoverTask ==
  /\ mode = "boot"
  /\ runtime.active # None => task[runtime.active] # "torn"
  /\ IF runtime.active # None /\ task[runtime.active] = "active"
     THEN Moved(runtime.active, "planned")
     ELSE UNCHANGED task
  /\ mode' = "boot_save"
  /\ UNCHANGED <<runtime, call, nextId, crashes>>

\* Recover, second half.
RecoverSave ==
  /\ mode = "boot_save"
  /\ runtime' = Idle
  /\ mode' = "up"
  /\ UNCHANGED <<task, call, nextId, crashes>>

-----------------------------------------------------------------------------

Next ==
  \/ \E c \in Caller :
       \/ Submit(c)
       \/ \E t \in Task : ApproveTask(c, t) \/ GrantTask(c, t) \/ DenyTask(c, t)
                          \/ RefuseTask(c, t) \/ RunTask(c, t)
                          \/ WebRunTask(c, t)
       \/ Step(c)
  \/ Crash
  \/ CrashCreating
  \/ RecoverTask
  \/ RecoverSave

Spec == Init /\ [][Next]_vars

\* A goroutine that serves a request keeps running, and a daemon that was
\* started goes on starting.
FairSpec ==
  /\ Spec
  /\ \A c \in Caller : WF_vars(Step(c))
  /\ WF_vars(RecoverTask)
  /\ WF_vars(RecoverSave)

-----------------------------------------------------------------------------
(***************************************************************************)
(* Properties                                                              *)
(***************************************************************************)

Label == {"idle", "adv_load", "adv_check", "adv_clear", "adv_list", "plan",
          "activate", "act_save", "rq_get", "rq_load", "rq_save", "rq_move",
          "deny", "refuse", "run_get", "run_end", "clr_load", "clr_save"}

RuntimeState == [active: Task \cup {None}, status: {"idle", "busy"}]

CallState == [pc: Label, task: Task \cup {None}, seen: RuntimeState,
              then: {"idle", "activate", "run_get"}]

\* The types of the files and of the calls' local state.
TypeOK ==
  /\ task \in [Task -> Stored \cup {"none", "lost", "torn"}]
  /\ runtime \in RuntimeState
  /\ mode \in {"up", "boot", "boot_save"}
  /\ call \in [Caller -> CallState]
  /\ nextId \in 1..(MaxTasks + 1)
  /\ crashes \in 0..MaxCrashes

\* The labels at which a call has passed the check of its task's state.
Committed == {"activate", "act_save", "rq_load", "rq_save", "rq_move",
              "run_end", "clr_load", "clr_save"}

\* A task still in the inbox is out of everyone's reach: runtime.json does
\* not name it, no call is running, requeueing or activating it, and none
\* can write back a runtime state that names it.  So nothing runs before
\* planTask has chosen its skill, whatever the order of the calls.
InboxUntouched ==
  \A t \in Task : task[t] = "inbox" =>
    /\ runtime.active # t
    /\ \A c \in Caller :
         /\ call[c].pc \in Committed => call[c].task # t
         /\ call[c].seen.active # t

\* runtime.json says busy exactly when it names a task, although callers
\* write back states they loaded earlier.
BusyIffPointed == runtime.status = "busy" <=> runtime.active # None

\* runtime.json and the calls that will write it never speak of a task that is
\* out of reach: InboxUntouched and BusyIffPointed.
PointerSound == InboxUntouched /\ BusyIffPointed

\* Recover leaves nothing of the interrupted work: when the daemon serves
\* again, runtime.json names no task and the one it named is not active.
RecoveredClean ==
  [][mode # "up" /\ mode' = "up" =>
       /\ runtime'.active = None
       /\ runtime.active # None => task'[runtime.active] # "active"]_vars

\* After a crash the daemon serves requests again (README: the background
\* service restarts on crash).
ComesBack == mode # "up" ~> mode = "up"

\* With one caller at a time and no ApproveTask, a task is active without
\* being the one in runtime.json only if a crash hit the call that was
\* activating it or runtime.json itself: at most one per crash.
OneActivePerCrash ==
  Cardinality({t \in Task : task[t] = "active"}) <= 1 + crashes

\* With one caller at a time a finished task stays finished: only a denial
\* (DenyTask, handleDenyApproval) moves it, which both do from any state.
DoneFinal ==
  [][\A t \in Task : task[t] = "done" /\ task'[t] # "done" =>
       \E c \in Caller : call[c].pc \in {"deny", "refuse"} /\ call[c].task = t]_vars
=============================================================================
