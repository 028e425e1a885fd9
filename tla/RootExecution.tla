--------------------------- MODULE RootExecution ---------------------------
(***************************************************************************)
(* How a root task gets to run: the skill runner, the approval store, the  *)
(* orchestrator's RequeueTask, the executor and the handlers that approve, *)
(* deny, rerun and execute (internal/skills/runner.go, internal/api,       *)
(* internal/execution/executor.go).                                        *)
(*                                                                         *)
(* The approval store appears as what Approvals was shown to implement,    *)
(* the one-shot capability of ApprovalGrant; a token is the approval it    *)
(* names (Approvals!TokensDistinct).  A step is one locked operation of    *)
(* one of the two stores.  The planned and the active state are one here:  *)
(* both are runnable and both can be requeued.  No static root token is    *)
(* configured.                                                             *)
(*                                                                         *)
(* A client submits a task with any metadata: it may name the approval of  *)
(* another task as root_approval_id, and nothing in the code compares the  *)
(* two.  carried records what was named.                                   *)
(***************************************************************************)
EXTENDS Naturals

CONSTANTS
  Caller,        \* the goroutines that serve requests
  Task,          \* the root tasks clients submit
  RootApproval,  \* the approvals that may ever be requested, the bound of TLC
  Calls,         \* the kinds of call clients make
  Faults         \* whether writes fail, approvals expire and the process dies

CallKind == {"submit", "run", "approve", "deny", "request", "direct", "approvetask",
             "denytask"}

ASSUME RootExecutionAssumption ==
  /\ Calls \subseteq CallKind
  /\ Faults \in BOOLEAN
  /\ 0 \notin Task \cup RootApproval

None == 0

VARIABLES
  phase,     \* where each approval stands (ApprovalGrant)
  accepted,  \* how often the executor's Consume accepted it (ApprovalGrant)
  taskOf,    \* the TaskID an approval was requested for
  state,     \* the state of each task's file
  root,      \* Metadata["root_approval_id"] of each task
  carried,   \* ledger: the root_approval_id each task was submitted with
  call,      \* the call each caller is in
  acts,      \* ledger: root actions performed under each approval
  ran,       \* ledger: the tasks the runner performed under each approval
  granted    \* ledger: approvals a human approved

approvals == <<phase, accepted, taskOf>>
tasks == <<state, root, carried>>
ledgers == <<acts, ran, granted>>
rootVars == <<approvals, tasks, call, ledgers>>

Store == INSTANCE ApprovalGrant WITH Approval <- RootApproval

\* A call: its next step, its task, the approval in its hands and the step
\* that follows its RequeueTask.
NoCall == [pc |-> "idle", task |-> None, appr |-> None, then |-> "idle"]

RootInit ==
  /\ Store!Init
  /\ taskOf = [a \in RootApproval |-> None]
  /\ state = [t \in Task |-> "none"]
  /\ root = [t \in Task |-> None]
  /\ carried = [t \in Task |-> None]
  /\ call = [c \in Caller |-> NoCall]
  /\ acts = [a \in RootApproval |-> 0]
  /\ ran = [a \in RootApproval |-> {}]
  /\ granted = {}

-----------------------------------------------------------------------------

At(c, l) == call[c].pc = l

Becomes(c, r) == call' = [call EXCEPT ![c] = IF r.pc = "idle" THEN NoCall ELSE r]
Go(c, l) == Becomes(c, [call[c] EXCEPT !.pc = l])
Start(c, kind, r) == At(c, "idle") /\ kind \in Calls /\ Becomes(c, r)

\* A task that has a file.
Present(t) == state[t] \notin {"none", "lost"}

\* The locked MoveTask; it fails when the file is gone.
Move(t, s, a) ==
  IF ~Present(t) THEN UNCHANGED tasks
  ELSE /\ state' = [state EXCEPT ![t] = s]
       /\ root' = [root EXCEPT ![t] = a]
       /\ UNCHANGED carried

\* A step of a call that moves its task and ends the call.
MoveLast(c, at, s, a) ==
  /\ At(c, at)
  /\ Move(call[c].task, s, a)
  /\ Go(c, "idle")
  /\ UNCHANGED <<approvals, ledgers>>

-----------------------------------------------------------------------------
(***************************************************************************)
(* Submitting a task                                                       *)
(***************************************************************************)

Issued == {a \in RootApproval : phase[a] # "none"}

\* SubmitTask: CreateTask keeps the client's metadata as it is.  An id that
\* no request has blocks the task when it runs, as a lost record does.
SubmitTask(c, t) ==
  /\ state[t] = "none"
  /\ Start(c, "submit", [pc |-> "advance", task |-> None, appr |-> None, then |-> "idle"])
  /\ \E a \in Issued \cup {None} :
       /\ root' = [root EXCEPT ![t] = a]
       /\ carried' = [carried EXCEPT ![t] = a]
  /\ state' = [state EXCEPT ![t] = "inbox"]
  /\ UNCHANGED <<approvals, ledgers>>

\* Advance: a task is active or waits, and the call ends; or it takes up one
\* that it found in the inbox or planned, be it the one submitted or not.
Advance(c) ==
  /\ At(c, "advance")
  /\ \/ Go(c, "idle")
     \/ \E u \in Task, next \in {"plan", "activate"} :
          /\ state[u] = IF next = "plan" THEN "inbox" ELSE "planned"
          /\ Becomes(c, [call[c] EXCEPT !.pc = next, !.task = u])
  /\ UNCHANGED <<approvals, tasks, ledgers>>

\* planTask's MoveTask, from whatever state the task is in by now; no
\* approval is asked for here, requires_approval or not.
PlanTask(c) ==
  LET t == call[c].task IN
  /\ At(c, "plan")
  /\ Move(t, "planned", root[t])
  /\ Go(c, IF Present(t) THEN "activate" ELSE "idle")
  /\ UNCHANGED <<approvals, ledgers>>

-----------------------------------------------------------------------------
(***************************************************************************)
(* Running a task                                                          *)
(***************************************************************************)

\* handleRunTask: a failed or blocked task is requeued first.
RunTask(c, t) ==
  /\ state[t] # "none"
  /\ Start(c, "run", IF state[t] \in {"failed", "blocked"}
                     THEN [pc |-> "rq_get", task |-> t, appr |-> None, then |-> "run_get"]
                     ELSE [pc |-> "run_get", task |-> t, appr |-> None, then |-> "idle"])
  /\ UNCHANGED <<approvals, tasks, ledgers>>

\* The runner reads the task, root_approval_id included, and works with this
\* copy from here on.
RunGet(c) ==
  LET t == call[c].task IN
  /\ At(c, "run_get")
  /\ IF state[t] = "planned"
     THEN Becomes(c, [call[c] EXCEPT !.pc = "resolve", !.appr = root[t]])
     ELSE Go(c, "idle")
  /\ UNCHANGED <<approvals, tasks, ledgers>>

\* resolveRootApproval with an approval: its status decides.
ResolveApproval(c) ==
  LET a == call[c].appr IN
  /\ At(c, "resolve")
  /\ a # None
  /\ CASE phase[a] = "pending" -> Go(c, "await")
       [] phase[a] = "approved" -> Go(c, "execute")
       [] OTHER -> Becomes(c, [call[c] EXCEPT !.pc = "block", !.appr = None])
  /\ UNCHANGED <<approvals, tasks, ledgers>>

Requested(a, t) ==
  /\ Store!Request(a)
  /\ taskOf' = [taskOf EXCEPT ![a] = t]

\* requestRootApproval: the task has none.
RequestApproval(c) ==
  /\ At(c, "resolve")
  /\ call[c].appr = None
  /\ \E a \in RootApproval :
       Requested(a, call[c].task) /\ Becomes(c, [call[c] EXCEPT !.pc = "await", !.appr = a])
  /\ UNCHANGED <<tasks, ledgers>>

AwaitApproval(c) == MoveLast(c, "await", "awaiting_approval", call[c].appr)

\* blockTask leaves root_approval_id as the file has it.
BlockTask(c) == MoveLast(c, "block", "blocked", root[call[c].task])

\* Mutant: the executor checks the token and marks it used only later.
AuthorizeOnlyChecks(c) ==
  /\ At(c, "execute")
  /\ phase[call[c].appr] = "approved"
  /\ Go(c, "act")
  /\ UNCHANGED <<approvals, tasks, ledgers>>

\* authorizeProfile: Consume accepts the token, once.
Authorize(c) ==
  /\ At(c, "execute")
  /\ Store!Spend(call[c].appr)
  /\ Go(c, "act")
  /\ UNCHANGED <<taskOf, tasks, ledgers>>

\* Consume refuses: used or denied meanwhile, or expired.  The executor's
\* error goes to the client and the task stays where it is.
Refuse(c) ==
  /\ At(c, "execute")
  /\ phase[call[c].appr] # "approved" \/ Faults
  /\ Go(c, "idle")
  /\ UNCHANGED <<approvals, tasks, ledgers>>

\* The action, with its record and its attempts; a direct call ends here.
Act(c) ==
  LET t == call[c].task IN
  /\ At(c, "act")
  /\ acts' = [acts EXCEPT ![call[c].appr] = @ + 1]
  /\ ran' = [ran EXCEPT ![call[c].appr] = IF t = None THEN @ ELSE @ \cup {t}]
  /\ Becomes(c, [call[c] EXCEPT !.pc = IF t = None THEN "idle" ELSE "finish", !.appr = None])
  /\ UNCHANGED <<approvals, tasks, granted>>

\* The approval is used up, but the command, the path or the working
\* directory is not allowed, or the action record cannot be written.
Reject(c) ==
  /\ At(c, "act")
  /\ Faults
  /\ Go(c, "idle")
  /\ UNCHANGED <<approvals, tasks, ledgers>>

Finish(c) ==
  \E s \in {"done", "failed"} : MoveLast(c, "finish", s, root[call[c].task])

-----------------------------------------------------------------------------
(***************************************************************************)
(* The human's side                                                        *)
(***************************************************************************)

\* handleCreateRootApproval: a request by hand, for a task or for none.
CreateRootApproval(c, t) ==
  /\ At(c, "idle")
  /\ t # None => state[t] # "none"
  /\ "request" \in Calls
  /\ \E a \in RootApproval : Requested(a, t)
  /\ UNCHANGED <<tasks, call, ledgers>>

\* handleApproveApproval: Approve, then RequeueTask when the request names a
\* task; the chat's approve-run goes on to RunTask.
ApproveApproval(c, a) ==
  /\ \E next \in {"idle", "run_get"} :
       Start(c, "approve", IF taskOf[a] = None THEN NoCall
                           ELSE [pc |-> "rq_get", task |-> taskOf[a], appr |-> a, then |-> next])
  /\ Store!Grant(a)
  /\ granted' = granted \cup {a}
  /\ UNCHANGED <<taskOf, tasks, acts, ran>>

\* Mutant: RequeueTask leaves out tasks that await approval.
RequeueGetNotAwaiting(c) ==
  /\ At(c, "rq_get")
  /\ Go(c, IF state[call[c].task] \in {"planned", "blocked", "failed"} THEN "rq_move" ELSE "idle")
  /\ UNCHANGED <<approvals, tasks, ledgers>>

RequeueGet(c) ==
  /\ At(c, "rq_get")
  /\ Go(c, IF state[call[c].task] \in {"planned", "blocked", "failed", "awaiting_approval"}
           THEN "rq_move" ELSE "idle")
  /\ UNCHANGED <<approvals, tasks, ledgers>>

\* RequeueTask's MoveTask: for an approval it records root_approval_id.
RequeueMove(c) ==
  LET t == call[c].task IN
  /\ At(c, "rq_move")
  /\ Move(t, "planned", IF call[c].appr = None THEN root[t] ELSE call[c].appr)
  /\ Becomes(c, [pc |-> IF Present(t) THEN call[c].then ELSE "idle",
                 task |-> t, appr |-> None, then |-> "idle"])
  /\ UNCHANGED <<approvals, ledgers>>

\* handleDenyApproval: Deny, then MoveTask to blocked from whatever state.
DenyApproval(c, a) ==
  /\ Start(c, "deny", IF taskOf[a] = None THEN NoCall
                      ELSE [pc |-> "refuse", task |-> taskOf[a], appr |-> a, then |-> "idle"])
  /\ Store!Revoke(a)
  /\ UNCHANGED <<taskOf, tasks, ledgers>>

DenyMove(c) == MoveLast(c, "refuse", "blocked", call[c].appr)

\* ApproveTask: RequeueTask, then activateTask.
ApproveTask(c, t) ==
  /\ state[t] # "none"
  /\ Start(c, "approvetask", [pc |-> "rq_get", task |-> t, appr |-> None, then |-> "activate"])
  /\ UNCHANGED <<approvals, tasks, ledgers>>

ActivateTask(c) == MoveLast(c, "activate", "planned", root[call[c].task])

\* DenyTask: one MoveTask from whatever state.
DenyTask(c, t) ==
  /\ At(c, "idle")
  /\ "denytask" \in Calls
  /\ Move(t, "failed", root[t])
  /\ UNCHANGED <<approvals, call, ledgers>>

\* The execute endpoints, with the token that Approve returned.
DirectExecute(c, a) ==
  /\ a \in granted
  /\ Start(c, "direct", [pc |-> "execute", task |-> None, appr |-> a, then |-> "idle"])
  /\ UNCHANGED <<approvals, tasks, ledgers>>

-----------------------------------------------------------------------------
(***************************************************************************)
(* Faults                                                                  *)
(***************************************************************************)

\* Approve, Deny or Consume removes the approval's file and fails to write
\* the new one; the caller gets an error.
LoseApproval(a) ==
  /\ Faults
  /\ phase[a] \in {"pending", "approved"}
  /\ \E c \in Caller : At(c, "idle") \/ (At(c, "execute") /\ call[c].appr = a)
  /\ Store!Lose(a)
  /\ UNCHANGED <<taskOf, tasks, call, ledgers>>

\* requestRootApproval's Create fails: nobody learns the id.
RequestFails(c) ==
  /\ Faults
  /\ At(c, "resolve")
  /\ call[c].appr = None
  /\ Go(c, "idle")
  /\ UNCHANGED <<approvals, tasks, ledgers>>

\* The process dies, perhaps inside the MoveTask of a call; its restart does
\* not change planned tasks.
Crash ==
  /\ Faults
  /\ call' = [c \in Caller |-> NoCall]
  /\ \/ UNCHANGED tasks
     \/ \E c \in Caller :
          /\ call[c].pc \in {"plan", "await", "block", "finish", "rq_move", "activate", "refuse"}
          /\ Present(call[c].task)
          /\ state' = [state EXCEPT ![call[c].task] = "lost"]
          /\ UNCHANGED <<root, carried>>
  /\ UNCHANGED <<approvals, ledgers>>

Step(c) ==
  \/ Advance(c) \/ PlanTask(c) \/ RunGet(c) \/ ResolveApproval(c) \/ RequestApproval(c)
  \/ RequestFails(c) \/ AwaitApproval(c) \/ BlockTask(c)
  \/ Authorize(c) \/ Refuse(c) \/ Act(c) \/ Reject(c) \/ Finish(c)
  \/ RequeueGet(c) \/ RequeueMove(c) \/ ActivateTask(c) \/ DenyMove(c)

RootNext ==
  \/ \E c \in Caller :
       \/ Step(c)
       \/ \E t \in Task : SubmitTask(c, t) \/ RunTask(c, t)
                        \/ ApproveTask(c, t) \/ DenyTask(c, t)
       \/ \E t \in Task \cup {None} : CreateRootApproval(c, t)
       \/ \E a \in RootApproval : ApproveApproval(c, a) \/ DenyApproval(c, a)
                              \/ DirectExecute(c, a)
  \/ \E a \in RootApproval : LoseApproval(a)
  \/ Crash

RootSpec == RootInit /\ [][RootNext]_rootVars

\* Calls run to their end, the operator decides on every request, and the
\* client does what the README says, "approve with ... and rerun the task";
\* ApproveTask is the other way out of awaiting_approval.
RootFairSpec ==
  /\ RootSpec
  /\ \A c \in Caller : WF_rootVars(Step(c))
  /\ \A a \in RootApproval : SF_rootVars(\E c \in Caller : ApproveApproval(c, a))
  /\ \A t \in Task : SF_rootVars(\E c \in Caller : RunTask(c, t))
  /\ \A t \in Task :
       SF_rootVars(\E c \in Caller : state[t] = "awaiting_approval" /\ ApproveTask(c, t))

-----------------------------------------------------------------------------
(***************************************************************************)
(* Properties                                                              *)
(***************************************************************************)

Label == {"idle", "advance", "plan", "run_get", "resolve", "await", "block", "execute", "act",
          "finish", "rq_get", "rq_move", "activate", "refuse"}

CallState == [pc: Label, task: Task \cup {None}, appr: RootApproval \cup {None},
              then: {"idle", "run_get", "activate"}]

\* The types of the two stores, of the calls and of the ledgers.
RootTypeOK ==
  /\ phase \in [RootApproval -> {"none", "pending", "approved", "denied", "consumed", "lost"}]
  /\ accepted \in [RootApproval -> Nat]
  /\ taskOf \in [RootApproval -> Task \cup {None}]
  /\ state \in [Task -> {"none", "inbox", "planned", "awaiting_approval", "blocked", "done",
                         "failed", "lost"}]
  /\ root \in [Task -> RootApproval \cup {None}]
  /\ carried \in [Task -> RootApproval \cup {None}]
  /\ call \in [Caller -> CallState]
  /\ acts \in [RootApproval -> Nat]
  /\ ran \in [RootApproval -> SUBSET Task]
  /\ granted \subseteq RootApproval

\* A human's approval lets at most one root action through, however many
\* requests run the task at once and whether the runner or a client with the
\* token comes first.
OneActionPerApproval == \A a \in RootApproval : acts[a] <= 1

\* No root action without a human's approval, and none under an approval
\* that stands as denied (README: root execution no longer runs directly from
\* task metadata).
ActsOnlyGranted ==
  \A a \in RootApproval : acts[a] > 0 => a \in granted /\ phase[a] = "consumed"

\* The approval is the task's own, or the one its client named.
Belongs(a, t) == taskOf[a] = t \/ carried[t] = a

\* The runner performs a task's root action under an approval that was
\* requested for this very task or that the client named when it submitted
\* the task: root_approval_id is written by three handlers and read long
\* before the token is used, and none of them ever gives a task the approval
\* of another.  That a client cannot borrow one is not the case.
OnlyClientsBorrow == \A a \in RootApproval : \A t \in ran[a] : Belongs(a, t)

\* A task that waits for approval names a request, made for it or named by
\* its client.
AwaitingNamesRequest ==
  \A t \in Task : state[t] = "awaiting_approval" => root[t] # None /\ Belongs(root[t], t)

\* Every root action is authorised: one for each approval, granted by a human,
\* requested for the task that runs or waits, or named by its client (the four
\* properties above).
Authorised ==
  OneActionPerApproval /\ ActsOnlyGranted /\ OnlyClientsBorrow /\ AwaitingNamesRequest

\* Without faults and denials a root task that waits for approval is
\* executed once it is approved and run again, even when several requests run
\* it at the same time and several approvals are open; unless a task was
\* submitted with another's approval and may have used it up.
ApprovedTaskActs ==
  \A t \in Task : state[t] = "awaiting_approval" ~>
    (\E a \in RootApproval : t \in ran[a]) \/ (\E u \in Task : carried[u] # None)
=============================================================================
