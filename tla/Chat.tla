-------------------------------- MODULE Chat --------------------------------
(***************************************************************************)
(* One chat session: the turns a user sends (internal/chat/service.go),    *)
(* the files that keep it (internal/chat/store.go) and the console's       *)
(* session and task buttons (internal/api/web.go).                         *)
(*                                                                         *)
(* A request is one call of Service.Send, from the moment it loads the     *)
(* session state to its last write, the background completion of an        *)
(* asynchronous task included.  When Send calls itself (an answer to a     *)
(* confirmation card) the request goes on with the new message.  Every     *)
(* store operation holds the store's mutex, so it is one step; everything  *)
(* between two of them interleaves with the other requests.                *)
(***************************************************************************)
EXTENDS ChatRouting, FiniteSets

CONSTANTS
  Text,          \* the messages a user may send
  Marks,         \* Marks[t]: what the code finds in message t
  Kinds,         \* the requests: records [text, profile, async, source]
  Contexts,      \* what the recent conversation may show
  Answers,       \* what the routing model may answer
  Outcomes,      \* the states in which a run may leave a task
  OtherSkills,   \* the skills of the tasks that others submit
  Progress,      \* the progress events of a run
  MaxInputs,     \* requests (two for one that overlaps another), buttons and faults
  MaxFaults,     \* failed writes and crashes
  MaxEvents      \* tool rounds and progress events of one request

\* "Root" is root in another spelling; any other source is as "web-chat".
Profiles == {"user", "root", "Root"}
Sources == {"web-chat", "intent-confirmation"}

ASSUME ChatAssumption ==
  /\ Kinds \subseteq [text: Text, profile: Profiles, async: BOOLEAN, source: Sources]
  /\ MaxInputs \in Nat /\ MaxFaults \in Nat

VARIABLES
  hist,          \* sessions/history/<id>.json: [there, torn, msgs: id -> stage]
  arch,          \* sessions/archive/<id>.json, likewise
  sess,          \* sessions/state/<id>.json
  task,          \* the tasks, in the order of their creation
  active,        \* the task runtime.json names (0: none)
  req,           \* the requests, in order
  ids,           \* message identifiers given out
  inputs,        \* requests, buttons and faults so far
  faults,        \* failed writes and crashes so far
  card,          \* the goal of the last confirmation card
  shown,         \* the goals a confirmation card has shown
  gone,          \* messages deleted when no request was open
  overlap,       \* two requests have been open at once
  quiet          \* no fault, and no archive or restore over an older copy

vars == <<hist, arch, sess, task, active, req, ids, inputs, faults,
          card, shown, gone, overlap, quiet>>
ghosts == <<card, shown, gone, overlap, quiet>>

Request == 1..MaxInputs

None == ""   \* a text that is not set

\* SessionState: refs are the confirm_goal entries of WorkingSet.SourceRefs.
Blank == [focus |-> 0, question |-> FALSE, pending |-> None, refs |-> <<>>]

Absent == [there |-> FALSE, torn |-> FALSE, msgs |-> <<>>]
File(msgs) == [there |-> TRUE, torn |-> FALSE, msgs |-> msgs]
Empty == File(<<>>)
Torn == [Empty EXCEPT !.torn = TRUE]

\* os.WriteFile truncates, then writes: what a failed write may leave.  An
\* empty file reads as an empty session, a torn one cannot be read.
Broken(file) == {file, Empty, Torn}

Input(n) == inputs + n =< MaxInputs /\ inputs' = inputs + n
Fault == Input(1) /\ faults < MaxFaults /\ faults' = faults + 1

Open == {r \in DOMAIN req : req[r].pc \notin {"done", "error", "lost"}}
-----------------------------------------------------------------------------
(* Store *)

\* loadLocked, change the messages, saveLocked.
Rewrite(msgs, ok) ==
  IF hist.torn THEN ~ok /\ UNCHANGED <<hist, inputs, faults>>
  ELSE \/ ok /\ hist' = File(msgs) /\ UNCHANGED <<inputs, faults>>
       \/ ~ok /\ Fault /\ hist' \in Broken(hist)

Put(msgs, id, stage) == [i \in DOMAIN msgs \cup {id} |-> IF i = id THEN stage ELSE msgs[i]]

StoreAppend(id, stage, ok) == Rewrite(Put(hist.msgs, id, stage), ok)
StoreUpsert(id, stage, ok) == Rewrite(Put(hist.msgs, id, stage), ok)

SaveSessionState(st) ==
  \/ sess' = st /\ UNCHANGED <<inputs, faults>>
  \/ Fault /\ sess' \in {sess, Blank}

EnsureSession ==
  /\ ~hist.there
  /\ hist' = Empty
  /\ UNCHANGED <<arch, sess, gone, quiet>>

\* The title is not modelled: a rename rewrites the same messages.
RenameSession ==
  /\ hist.there /\ ~hist.torn
  /\ hist' = File(hist.msgs)
  /\ UNCHANGED <<arch, sess, gone, quiet>>

\* Mutant of ArchiveSession: archives a new transcript instead of the loaded one.
MutArchiveBlank ==
  /\ hist.there /\ ~hist.torn
  /\ arch' = Empty /\ sess' = Blank /\ hist' = Absent
  /\ quiet' = (quiet /\ ~arch.there)
  /\ UNCHANGED gone

ArchiveSession ==
  /\ hist.there /\ ~hist.torn
  /\ arch' = File(hist.msgs)
  /\ sess' = Blank
  /\ hist' = Absent
  /\ quiet' = (quiet /\ ~arch.there)
  /\ UNCHANGED gone

RestoreSession ==
  /\ arch.there
  /\ hist' = File(arch.msgs)
  /\ arch' = Absent
  /\ quiet' = (quiet /\ ~hist.there)
  /\ UNCHANGED <<sess, gone>>

\* Mutant of DeleteSession: forgets the archived copy.
MutDeleteKeepsArchive ==
  /\ hist.there \/ arch.there \/ sess # Blank
  /\ hist' = Absent /\ sess' = Blank
  /\ gone' = IF Open = {} THEN 1..ids ELSE gone
  /\ UNCHANGED <<arch, quiet>>

DeleteSession ==
  /\ hist.there \/ arch.there \/ sess # Blank
  /\ hist' = Absent /\ arch' = Absent /\ sess' = Blank
  /\ gone' = IF Open = {} THEN 1..ids ELSE gone
  /\ UNCHANGED quiet

\* The states in which a run may leave task i: the runner asks for approval
\* when the profile is "root", in this spelling.
Ends(i) == Outcomes \ (IF task[i].profile = "root" THEN {} ELSE {"awaiting_approval"})

\* The runner's last MoveTask, and clearActiveTask.
Stops(i, out) ==
  /\ task' = [task EXCEPT ![i].state = out]
  /\ active' = IF active = i THEN 0 ELSE active

\* The session buttons, and opening the chat page.
SessionAction ==
  /\ Input(1)
  /\ EnsureSession \/ RenameSession \/ ArchiveSession \/ RestoreSession \/ DeleteSession
  /\ UNCHANGED <<task, active, req, ids, faults, card, shown, overlap>>

(* Orchestrator *)

\* The task that runtime.json names is still active.
ActiveTask(ts) == active # 0 /\ ts[active].state = "active"

\* The tasks that stop Advance's loop over ListTasks.
Waiting(ts) ==
  {i \in DOMAIN ts : ts[i].state \in {"inbox", "planned", "active", "awaiting_approval"}}

\* Mutant of Hands: the oldest waiting task first.
MutOldestFirst(ts, i) ==
  IF ActiveTask(ts) THEN i = active ELSE i \in Waiting(ts) /\ \A j \in Waiting(ts) : i =< j

\* Advance hands back the active task, or else the newest waiting one.
Hands(ts, i) ==
  IF ActiveTask(ts) THEN i = active ELSE i \in Waiting(ts) /\ \A j \in Waiting(ts) : j =< i

\* A task that Advance plans or activates before it hands it back.
Activates(ts, i) ==
  Hands(ts, i) /\ ~ActiveTask(ts) /\ ts[i].state \in {"inbox", "planned"}

Advance(ts, i) ==
  /\ Hands(ts, i)
  /\ IF Activates(ts, i)
     THEN task' = [ts EXCEPT ![i].state = "active"] /\ active' = i
     ELSE task' = ts /\ active' = IF ActiveTask(ts) THEN active ELSE 0

\* What a failed or interrupted Advance leaves: it may have planned or
\* activated a task that runtime.json does not name.
Halfway ==
  \/ UNCHANGED task
  \/ \E i \in DOMAIN task, state \in {"planned", "active"} :
       Activates(task, i) /\ task' = [task EXCEPT ![i].state = state]

\* Nobody is in the way of created task i: Advance will hand back this one.
Undisturbed(i) ==
  /\ ~overlap /\ faults = 0
  /\ ~ActiveTask(task) /\ i = Len(task) /\ task[i].state = "inbox"

\* SubmitTask for another client or the memory scheduler; its Advance may be
\* late or fail.
OtherSubmit ==
  /\ Input(1)
  /\ \E skill \in OtherSkills :
       LET ts == Append(task, [goal |-> None, skill |-> skill, act |-> None, profile |-> "user",
                               tagged |-> FALSE, by |-> "other", state |-> "inbox"])
       IN  \/ \E i \in DOMAIN ts : Advance(ts, i)
           \/ task' = ts /\ UNCHANGED active
  /\ UNCHANGED <<hist, arch, sess, req, ids, faults, ghosts>>

\* The button a reply shows for a task in this state.
buildActions(state) ==
  CASE state = "awaiting_approval" -> {"approve-run"}
    [] state \in {"planned", "blocked", "failed"} -> {"run"}
    [] OTHER -> {}

\* The task buttons of a reply, until the task stops.  An active task is run
\* by the daemon or from the task page.
TaskAction ==
  /\ Input(1)
  /\ \E i \in DOMAIN task : \E out \in Ends(i) :
       /\ task[i].state = "active" \/ buildActions(task[i].state) # {}
       /\ Stops(i, out)
  /\ UNCHANGED <<hist, arch, sess, req, ids, faults, ghosts>>
-----------------------------------------------------------------------------
(* Send *)

isFollowupDialogueAct(act) == act \in FollowupActs
isAffirmativeConfirmation(t) == "yes" \in Marks[t]
isNegativeConfirmation(t) == "no" \in Marks[t]

GetTask(id) == id \in DOMAIN task

tryHandleSessionFollowup(r) ==
  /\ isFollowupDialogueAct(r.route.act)
  /\ r.st.focus # 0 /\ GetTask(r.st.focus)
  /\ r.st.pending = "summarize"

tryHandleFocusedTaskContinuation(r) ==
  /\ r.route.scope = "focused_task" /\ r.st.focus # 0
  /\ isFollowupDialogueAct(r.route.act)
  /\ GetTask(r.st.focus) /\ task[r.st.focus].state = "done"
  /\ task[r.st.focus].skill \in {"web-search", "email-inbox", "github-issue-search", "task-plan"}

\* Mutant of shouldConfirmTaskIntent: a confident route needs no card.
MutTrustConfidence(r) ==
  /\ r.route.kind = "task_request"
  /\ r.route.confidence < 90
  /\ ~isFollowupDialogueAct(r.route.act)
  /\ r.source # "intent-confirmation" /\ r.profile = "user"

shouldConfirmTaskIntent(r) ==
  /\ r.route.kind = "task_request"
  /\ ~isFollowupDialogueAct(r.route.act)
  /\ r.source # "intent-confirmation"
  /\ r.profile = "user"

Branch(r) ==
  IF tryHandleSessionFollowup(r) THEN "followup"
  ELSE IF tryHandleFocusedTaskContinuation(r) THEN "focused"
  ELSE IF r.st.pending = "confirm" THEN "answer"
  ELSE IF r.route.kind # "task_request" THEN "direct"
  ELSE IF shouldConfirmTaskIntent(r) THEN "card" ELSE "submit"

inferPendingAction(skill, question) ==
  IF question /\ skill \in {"web-search", "email-inbox"} THEN "summarize" ELSE None

parseConfirmation(st, t) == IF st.refs = <<>> THEN t ELSE Head(st.refs)

\* Mutant of Forget: the goal of an old card stays.
MutKeepGoal(st) == [st EXCEPT !.pending = None, !.question = FALSE]

\* Confirming or refusing a card forgets it.
Forget(st) == [st EXCEPT !.pending = None, !.question = FALSE, !.refs = <<>>]

Offer(st, t) == [st EXCEPT !.pending = "confirm", !.question = TRUE,
                           !.refs = Append(@, t)]

Replied(r, question) ==
  CASE r.branch = "followup" -> [r.st EXCEPT !.pending = None, !.question = FALSE]
    [] r.branch = "focused" -> r.st
    [] r.branch = "direct" /\ ~question -> r.st
    [] r.branch = "direct" /\ question ->
         [r.st EXCEPT !.question = TRUE, !.focus = 0, !.pending = None]

\* A context snapshot replaces the working set, the confirmation entries with it.
updateStateForTaskStart(st, i) ==
  [focus |-> i, question |-> FALSE, pending |-> None, refs |-> <<>>]

Finalized(st, i, question) ==
  [st EXCEPT !.focus = i, !.question = question,
             !.pending = inferPendingAction(task[i].skill, question)]

activeTaskStage(skill) ==
  CASE skill = "web-search" -> "searching"
    [] skill = "task-plan" -> "planning"
    [] skill = "file-read" -> "reading"
    [] skill = "file-edit" -> "writing"
    [] skill = "shell-command" -> "executing"
    [] skill = "email-inbox" -> "triaging_email"
    [] skill = "github-issue-search" -> "searching_github"
    [] skill = "memory-consolidate" -> "consolidating"

normalizeProgressStage(skill, event) ==
  CASE event = "planning.generate" -> "planning"
    [] event \in {"planning.persist", "persist.artifacts", "execution.persist"} -> "persisting"
    [] event = "connector.request" ->
         IF skill \in {"web-search", "github-issue-search", "email-inbox"}
         THEN activeTaskStage(skill) ELSE "running"
    [] event = "persist.memory" -> "writing_memory"
    [] event = "execution.dispatch" -> activeTaskStage(skill)
    [] event = "consolidate.generate" -> "consolidating"

\* Mutant of finalStage: no case for a failed task.
MutNoFailedStage(state) ==
  IF state \in {"done", "awaiting_approval", "blocked"} THEN state ELSE "running"

finalStage(state) ==
  IF state \in {"done", "awaiting_approval", "blocked", "failed"} THEN state ELSE "responded"
-----------------------------------------------------------------------------
\* Request q with new values in some of its fields.
With(q, fields) == [x \in DOMAIN q |-> IF x \in DOMAIN fields THEN fields[x] ELSE q[x]]

Step(r, fields) == req' = [req EXCEPT ![r] = With(@, fields)]

Goto(pc) == [pc |-> pc]

\* Send returns: what it kept on its stack is gone.
Over(pc) ==
  [pc |-> pc, st |-> Blank, route |-> NoAnswer, branch |-> None, n |-> 0, seen |-> None]
OverWith(reply) == [pc |-> "done", reply |-> reply, st |-> Blank, route |-> NoAnswer,
                    branch |-> None, n |-> 0, seen |-> None]

\* Send returns an error: tryHandleIntentConfirmation answers for it when it
\* was the caller.
Fails(r) == IF req[r].depth > 0 THEN Goto("complain") ELSE Over("error")

\* The console or the API calls Send.  Its client may name its message an
\* answer to a card.
Begin(k) ==
  /\ Input(IF Open = {} THEN 1 ELSE 2)
  /\ req' = Append(req, [pc |-> "load", text |-> k.text, profile |-> k.profile,
                         async |-> k.async, source |-> k.source, depth |-> 0,
                         st |-> Blank, route |-> NoAnswer, branch |-> None, reply |-> 0,
                         task |-> 0, n |-> 0, failed |-> FALSE, answers |-> card,
                         tagged |-> k.source = "intent-confirmation",
                         goal |-> None, seen |-> None, calm |-> FALSE])
  /\ overlap' = (overlap \/ Open # {})
  /\ UNCHANGED <<hist, arch, sess, task, active, ids, faults, card, shown, gone, quiet>>

\* Routing depends on the session state by its question and whether it has a
\* focused task; tabulated so that TLC computes it once.
Route ==
  [t \in Text, ctx \in Contexts \cup {{}}, question \in BOOLEAN, focus \in {0, 1}, a \in Answers |->
     Decide(Marks[t], ctx, [question |-> question, focus |-> focus], a)]

\* Load the session state and route the message (a model call).
Load(r) ==
  /\ req[r].pc = "load"
  /\ \E ctx \in (IF hist.msgs = <<>> THEN {{}} ELSE Contexts), a \in Answers :
       Step(r, [pc |-> "user", st |-> sess,
                route |-> Route[req[r].text, ctx, sess.question,
                                      IF sess.focus = 0 THEN 0 ELSE 1, a]])
  /\ UNCHANGED <<hist, arch, sess, task, active, ids, inputs, faults, ghosts>>

\* Append the user's message, then take a branch.
AppendUser(r) ==
  /\ req[r].pc = "user"
  /\ ids' = ids + 1
  /\ \E ok \in BOOLEAN :
       /\ StoreAppend(ids + 1, "user", ok)
       /\ Step(r, IF ok THEN [pc |-> Branch(req[r]), branch |-> Branch(req[r])]
                        ELSE Fails(r))
       /\ quiet' = (quiet /\ ok)
  /\ UNCHANGED <<arch, sess, task, active, card, shown, gone, overlap>>

\* The placeholder of a reply that a model writes, one for each branch.
Placeholder(r, branch) ==
  /\ req[r].pc = branch
  /\ ids' = ids + 1
  /\ \E ok \in BOOLEAN :
       /\ StoreAppend(ids + 1, "running", ok)
       /\ Step(r, IF ok THEN [pc |-> "talk", reply |-> ids + 1]
                        ELSE Fails(r))
       /\ quiet' = (quiet /\ ok)
  /\ UNCHANGED <<arch, sess, task, active, card, shown, gone, overlap>>

AppendFollowup(r) == Placeholder(r, "followup")
AppendFocused(r) == Placeholder(r, "focused")
AppendDirect(r) == Placeholder(r, "direct")

\* AgentLoop.Run: one tool call and its result, at most MaxEvents of them.
ToolCall(r) ==
  /\ req[r].pc = "talk"
  /\ req[r].branch = "direct" /\ req[r].n < MaxEvents
  /\ \E ok \in BOOLEAN :
       /\ StoreUpsert(req[r].reply, "tool_result", ok)
       /\ quiet' = (quiet /\ ok)
  /\ Step(r, [n |-> req[r].n + 1])
  /\ UNCHANGED <<arch, sess, task, active, ids, card, shown, gone, overlap>>

\* The stream, a second call without it, or a text that says what failed:
\* whatever the model does, the reply is written.
streamConversationReply(r) ==
  /\ \E ok \in BOOLEAN :
       /\ StoreUpsert(req[r].reply, "responded", ok)
       /\ quiet' = (quiet /\ ok)
  /\ Step(r, Goto("save"))
  /\ UNCHANGED <<arch, sess, task, active, ids, card, shown, gone, overlap>>

composeFollowupArtifactReply(r) ==
  /\ req[r].pc = "talk" /\ req[r].branch \in {"followup", "focused"}
  /\ streamConversationReply(r)

\* The agent loop ends with a text, or its tool rounds are used up.
composeAgentDirectReply(r) ==
  /\ req[r].pc = "talk" /\ req[r].branch = "direct"
  /\ \E ok \in BOOLEAN :
       /\ StoreUpsert(req[r].reply, "responded", ok)
       /\ quiet' = (quiet /\ ok)
  /\ Step(r, Goto("save"))
  /\ UNCHANGED <<arch, sess, task, active, ids, card, shown, gone, overlap>>

\* There is no agent loop, or it failed.
composeDirectReply(r) ==
  /\ req[r].pc = "talk" /\ req[r].branch = "direct"
  /\ streamConversationReply(r)

SaveReplied(r) ==
  /\ req[r].pc = "save"
  /\ \E question \in BOOLEAN : SaveSessionState(Replied(req[r], question))
  /\ Step(r, Over("done"))
  /\ UNCHANGED <<hist, arch, task, active, ids, ghosts>>

\* A card is pending.  Yes: Send again with the card's goal; no: say so;
\* anything else is a new goal.
AnswerNo(r) ==
  /\ req[r].pc = "answer"
  /\ isNegativeConfirmation(req[r].text) /\ ~isAffirmativeConfirmation(req[r].text)
  /\ ids' = ids + 1
  /\ \E ok \in BOOLEAN :
       /\ StoreAppend(ids + 1, "responded", ok)
       /\ quiet' = (quiet /\ ok)
  /\ Step(r, [pc |-> "forget", reply |-> ids + 1])
  /\ UNCHANGED <<arch, sess, task, active, card, shown, gone, overlap>>

SaveForgotten(r) ==
  /\ req[r].pc = "forget"
  /\ SaveSessionState(Forget(req[r].st))
  /\ Step(r, Over("done"))
  /\ UNCHANGED <<hist, arch, task, active, ids, ghosts>>

AnswerYes(r) ==
  /\ req[r].pc = "answer"
  /\ isAffirmativeConfirmation(req[r].text)
  /\ SaveSessionState(Forget(req[r].st))
  /\ Step(r, [pc |-> "load", depth |-> req[r].depth + 1, source |-> "intent-confirmation",
              text |-> parseConfirmation(req[r].st, req[r].text)])
  /\ UNCHANGED <<hist, arch, task, active, ids, ghosts>>

AnswerOther(r) ==
  /\ req[r].pc = "answer"
  /\ ~isAffirmativeConfirmation(req[r].text) /\ ~isNegativeConfirmation(req[r].text)
  /\ SaveSessionState(Forget(req[r].st))
  /\ Step(r, [pc |-> "load", depth |-> req[r].depth + 1])
  /\ UNCHANGED <<hist, arch, task, active, ids, ghosts>>

\* The Send made for an answer failed.
Complain(r) ==
  /\ req[r].pc = "complain"
  /\ ids' = ids + 1
  /\ \E ok \in BOOLEAN : StoreAppend(ids + 1, "failed", ok)
  /\ Step(r, OverWith(ids + 1))
  /\ quiet' = FALSE
  /\ UNCHANGED <<arch, sess, task, active, card, shown, gone, overlap>>

AppendCard(r) ==
  /\ req[r].pc = "card"
  /\ ids' = ids + 1
  /\ \E ok \in BOOLEAN :
       /\ StoreAppend(ids + 1, "awaiting_confirmation", ok)
       /\ Step(r, IF ok THEN [pc |-> "offer", reply |-> ids + 1] ELSE Fails(r))
       /\ card' = IF ok THEN req[r].text ELSE card
       /\ shown' = IF ok THEN shown \cup {req[r].text} ELSE shown
       /\ quiet' = (quiet /\ ok)
  /\ UNCHANGED <<arch, sess, task, active, gone, overlap>>

SaveOffer(r) ==
  /\ req[r].pc = "offer"
  /\ SaveSessionState(Offer(req[r].st, req[r].text))
  /\ Step(r, Over("done"))
  /\ UNCHANGED <<hist, arch, task, active, ids, ghosts>>

\* Orchestrator.SubmitTask, first part: CreateTask.  A task without a skill is
\* given one when it is planned.
CreateTask(r) ==
  /\ req[r].pc = "submit"
  /\ \E skill \in Skills :
       /\ skill = req[r].route.skill \/ req[r].route.skill = ""
       /\ task' = Append(task, [goal |-> req[r].text, skill |-> skill, act |-> req[r].route.act,
                                profile |-> req[r].profile, tagged |-> req[r].tagged,
                                by |-> "chat", state |-> "inbox"])
  /\ Step(r, [pc |-> "advance", task |-> Len(task) + 1])
  /\ UNCHANGED <<hist, arch, sess, active, ids, inputs, faults, ghosts>>

\* SubmitTask, second part: Advance.  The request goes on with the task it
\* is handed, whether it is the created one or not.
AdvanceTask(r) ==
  /\ req[r].pc = "advance"
  /\ \E i \in DOMAIN task :
       /\ Advance(task, i)
       /\ Step(r, [pc |-> "queue", task |-> i, goal |-> task[i].goal, seen |-> task'[i].state,
                   calm |-> Undisturbed(req[r].task)])
  /\ UNCHANGED <<hist, arch, sess, ids, inputs, faults, ghosts>>

\* The message that no task could be created.
Refuse(r, ok) ==
  /\ ids' = ids + 1
  /\ StoreAppend(ids + 1, None, ok)
  /\ Step(r, OverWith(ids + 1))
  /\ quiet' = (quiet /\ ok)
  /\ UNCHANGED <<arch, sess, card, shown, gone, overlap>>

\* Other SubmitTask calls have taken the created task on, and it is finished.
AdvanceFindsNone(r) ==
  /\ req[r].pc = "advance"
  /\ ~ActiveTask(task) /\ Waiting(task) = {}
  /\ \E ok \in BOOLEAN : Refuse(r, ok)
  /\ active' = 0
  /\ UNCHANGED task

\* A file operation of SubmitTask fails; the created task stays where it is.
SubmitFails(r) ==
  /\ req[r].pc \in {"submit", "advance"}
  /\ Fault
  /\ ids' = ids + 1
  /\ hist' = IF hist.torn THEN hist ELSE File(Put(hist.msgs, ids + 1, None))
  /\ Step(r, OverWith(ids + 1))
  /\ quiet' = FALSE
  /\ IF req[r].pc = "advance" THEN Halfway ELSE UNCHANGED task
  /\ UNCHANGED <<arch, sess, active, card, shown, gone, overlap>>

AppendQueued(r) ==
  /\ req[r].pc = "queue"
  /\ ids' = ids + 1
  /\ \E ok \in BOOLEAN :
       /\ StoreAppend(ids + 1, "queued", ok)
       /\ Step(r, IF ok THEN [pc |-> "start", reply |-> ids + 1] ELSE Fails(r))
       /\ quiet' = (quiet /\ ok)
  /\ UNCHANGED <<arch, sess, task, active, card, shown, gone, overlap>>

SaveTaskStart(r) ==
  /\ req[r].pc = "start"
  /\ SaveSessionState(updateStateForTaskStart(req[r].st, req[r].task))
  /\ Step(r, Goto("active"))
  /\ UNCHANGED <<hist, arch, task, active, ids, ghosts>>

\* The task as SubmitTask handed it back, and as the runner finds it.
Starts(r) == req[r].seen \in {"active", "planned"}
Runnable(r) == task[req[r].task].state \in {"active", "planned"}

\* The reply shows that the task is being worked on; the synchronous path
\* says so only of a task it runs.  The state is that of the submission.
UpsertActive(r) ==
  /\ req[r].pc = "active"
  /\ IF req[r].async \/ Starts(r)
     THEN \E ok \in BOOLEAN :
            /\ StoreUpsert(req[r].reply, activeTaskStage(task[req[r].task].skill), ok)
            /\ quiet' = (quiet /\ ok)
     ELSE UNCHANGED <<hist, inputs, faults, quiet>>
  /\ Step(r, Goto(IF Starts(r) THEN "run" ELSE "summary"))
  /\ UNCHANGED <<arch, sess, task, active, ids, card, shown, gone, overlap>>

ReportProgress(r) ==
  /\ req[r].pc = "run" /\ req[r].n < MaxEvents
  /\ \E ok \in BOOLEAN, e \in Progress :
       /\ StoreUpsert(req[r].reply, normalizeProgressStage(task[req[r].task].skill, e), ok)
       /\ quiet' = (quiet /\ ok)
  /\ Step(r, [n |-> req[r].n + 1])
  /\ UNCHANGED <<arch, sess, task, active, ids, card, shown, gone, overlap>>

\* RunTaskWithProgress returns; its error is "failed" to the background
\* completion only, and may leave the task active.
RunTask(r) ==
  /\ req[r].pc = "run"
  /\ \E ok, moved \in BOOLEAN :
       /\ moved => Runnable(r)
       /\ ok => moved
       /\ IF moved THEN \E out \in Ends(req[r].task) : Stops(req[r].task, out)
          ELSE UNCHANGED <<task, active>>
       /\ Step(r, [pc |-> IF ok \/ ~req[r].async THEN "summary" ELSE "close",
                   failed |-> ~ok /\ req[r].async, seen |-> task'[req[r].task].state])
  /\ UNCHANGED <<hist, arch, sess, ids, inputs, faults, ghosts>>

UpsertSummarizing(r) ==
  /\ req[r].pc = "summary"
  /\ \E ok \in BOOLEAN :
       /\ StoreUpsert(req[r].reply, "summarizing", ok)
       /\ quiet' = (quiet /\ ok)
  /\ Step(r, Goto("compose"))
  /\ UNCHANGED <<arch, sess, task, active, ids, card, shown, gone, overlap>>

\* composeAssistantMessage: the streamed text, shown as it comes.
Compose(r) ==
  /\ req[r].pc = "compose"
  /\ \/ \E ok \in BOOLEAN :
          /\ StoreUpsert(req[r].reply, "running", ok)
          /\ quiet' = (quiet /\ ok)
     \/ UNCHANGED <<hist, inputs, faults, quiet>>
  /\ Step(r, Goto("close"))
  /\ UNCHANGED <<arch, sess, task, active, ids, card, shown, gone, overlap>>

\* The last write of the reply.  The synchronous path leaves its stage at
\* "summarizing" and stops when the write fails.
Close(r) ==
  /\ req[r].pc = "close"
  /\ \E ok \in BOOLEAN :
       /\ StoreUpsert(req[r].reply,
                      IF req[r].failed THEN "failed"
                      ELSE IF req[r].async THEN finalStage(req[r].seen)
                      ELSE "summarizing", ok)
       /\ Step(r, IF ok \/ req[r].async THEN Goto("finalize") ELSE Fails(r))
       /\ quiet' = (quiet /\ ok)
  /\ UNCHANGED <<arch, sess, task, active, ids, card, shown, gone, overlap>>

\* finalizeSessionState loads the session state ...
Finalize(r) ==
  /\ req[r].pc = "finalize"
  /\ \E question \in BOOLEAN :
       Step(r, [pc |-> "finsave", st |-> Finalized(sess, req[r].task, question)])
  /\ UNCHANGED <<hist, arch, sess, task, active, ids, inputs, faults, ghosts>>

\* ... and saves it.
SaveFinalized(r) ==
  /\ req[r].pc = "finsave"
  /\ SaveSessionState(req[r].st)
  /\ Step(r, Over("done"))
  /\ UNCHANGED <<hist, arch, task, active, ids, ghosts>>

Proceed(r) ==
  \/ Load(r) \/ AppendUser(r) \/ AppendFollowup(r) \/ AppendFocused(r) \/ AppendDirect(r)
  \/ ToolCall(r) \/ composeFollowupArtifactReply(r)
  \/ composeAgentDirectReply(r) \/ composeDirectReply(r)
  \/ SaveReplied(r) \/ AnswerNo(r) \/ SaveForgotten(r) \/ AnswerYes(r)
  \/ AnswerOther(r) \/ Complain(r) \/ AppendCard(r) \/ SaveOffer(r)
  \/ CreateTask(r) \/ AdvanceTask(r) \/ AdvanceFindsNone(r) \/ SubmitFails(r)
  \/ AppendQueued(r) \/ SaveTaskStart(r)
  \/ UpsertActive(r) \/ ReportProgress(r) \/ RunTask(r) \/ UpsertSummarizing(r)
  \/ Compose(r) \/ Close(r) \/ Finalize(r) \/ SaveFinalized(r)

WritesState == {"save", "forget", "answer", "offer", "start", "finsave"}
WritesHistory ==
  {"user", "followup", "focused", "direct", "talk", "answer", "complain", "card",
   "submit", "advance", "queue", "active", "run", "summary", "compose", "close"}

\* The daemon stops with requests open, and starts again: the file one of them
\* was writing may be broken, and the active task is planned (Recover).
Crash ==
  /\ Fault /\ Open # {}
  /\ req' = [r \in DOMAIN req |-> IF r \in Open THEN With(req[r], Over("lost")) ELSE req[r]]
  /\ hist' \in IF \E r \in Open : req[r].pc \in WritesHistory THEN Broken(hist) ELSE {hist}
  /\ sess' \in IF \E r \in Open : req[r].pc \in WritesState THEN {sess, Blank} ELSE {sess}
  /\ IF ActiveTask(task) THEN task' = [task EXCEPT ![active].state = "planned"]
     ELSE IF \E r \in Open : req[r].pc = "advance" THEN Halfway ELSE UNCHANGED task
  /\ active' = 0
  /\ quiet' = FALSE
  /\ UNCHANGED <<arch, ids, card, shown, gone, overlap>>
-----------------------------------------------------------------------------
Init ==
  /\ hist = Absent /\ arch = Absent /\ sess = Blank
  /\ task = <<>> /\ active = 0 /\ req = <<>> /\ ids = 0
  /\ inputs = 0 /\ faults = 0
  /\ card = None /\ shown = {} /\ gone = {} /\ overlap = FALSE /\ quiet = TRUE

Next ==
  \/ \E k \in Kinds : Begin(k)
  \/ \E r \in Request : r \in DOMAIN req /\ Proceed(r)
  \/ SessionAction \/ TaskAction \/ OtherSubmit \/ Crash

Spec == Init /\ [][Next]_vars
-----------------------------------------------------------------------------
Stored == DOMAIN hist.msgs \cup DOMAIN arch.msgs

Settled == {"responded", "awaiting_confirmation", "done", "awaiting_approval",
            "blocked", "failed", None}

\* The files, the session state and the requests have their types, and a
\* reply is a message that was given an identifier.
TypeOK ==
  /\ \A f \in {hist, arch} : f.there \in BOOLEAN /\ f.torn \in BOOLEAN
                            /\ DOMAIN f.msgs \subseteq 1..ids
  /\ active \in 0..Len(task) /\ sess.focus \in 0..Len(task) /\ sess.question \in BOOLEAN
  /\ sess.pending \in {None, "confirm", "summarize"}
  /\ sess.refs \in Seq(Text)
  /\ \A r \in DOMAIN req : req[r].task \in 0..Len(task) /\ req[r].reply \in 0..ids
                          /\ req[r].text \in Text
  /\ ids \in Nat /\ inputs \in 0..MaxInputs /\ faults \in 0..MaxFaults
  /\ card \in Text \cup {None} /\ shown \subseteq Text /\ gone \subseteq 1..ids

\* A stored message leaves the session's files only by a delete, unless a write
\* failed or an archive or a restore met an older copy (store.go:155-237: the
\* archive is written before the history is removed, and back).
NothingLost == [][quiet' => (Stored \subseteq Stored' \/ DeleteSession)]_vars

\* What a delete removed while no request was open never comes back: no copy is
\* left behind that a restore or a late write could bring back (store.go:211-237).
StaysGone == gone \cap Stored = {}

\* When a request is over its reply no longer shows work in progress, whatever
\* the other requests and the session buttons did meanwhile, unless a write
\* failed, the daemon stopped or a copy was overwritten (service.go:679-721,
\* 1319-1371).  A task run synchronously is left out: its reply keeps
\* "summarizing" (service.go:431-437).
RepliesSettle ==
  quiet => \A r \in DOMAIN req :
    req[r].pc = "done" /\ (req[r].task = 0 \/ req[r].async) /\ req[r].reply \in DOMAIN hist.msgs
      => hist.msgs[req[r].reply] \in Settled

\* A message becomes a task only with the user's go-ahead: its goal was shown
\* on a card, or its turn was a follow-up, or the client asked for root or named
\* its own message a confirmation (service.go:1739-1767); for every interleaving
\* of requests.  A task of another client may run in its place (LatestGoal).
GreenLit ==
  \A i \in DOMAIN task :
    \/ task[i].by = "other" \/ task[i].goal \in shown \/ task[i].act \in FollowupActs
    \/ task[i].profile # "user" \/ task[i].tagged

\* Used one turn at a time, and with nobody else's task in the way, a
\* confirmation answers about and runs the goal of the last card, not of an
\* earlier one that was refined or refused, nor of an older task that still
\* waits (service.go:361-437, 1837-1903, orchestrator.go:61-113).
LatestGoal ==
  \A r \in DOMAIN req :
    req[r].calm /\ req[r].source = "intent-confirmation" /\ ~req[r].tagged
      => req[r].goal = req[r].answers

\* Send calls itself at most once for an answer, and once more for each state
\* file it could not write (service.go:1853-1903).
RecursionEnds == ~overlap => \A r \in DOMAIN req : req[r].depth =< 1 + faults

\* Every request comes to an end that the user sees, and files and requests
\* keep their types: RepliesSettle, RecursionEnds and TypeOK.
RequestsEnd == TypeOK /\ RepliesSettle /\ RecursionEnds
=============================================================================
