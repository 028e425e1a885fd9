# A verification project for MnemosyneOS

MnemosyneOS is a Go daemon that keeps an AI user's tasks, approvals, actions,
chat sessions and memory in JSON files and serves them over HTTP. This
directory models its core in TLA+, checks it with TLC and proves the main
results with TLAPS. Paths below are relative to the repository.

## 1. Inventory

| Component | State it keeps | Operations | Hard behaviour |
|---|---|---|---|
| Approval store (`internal/approval`) | `approvals/<status>/<id>.json`, one mutex | Create, Approve, Deny, Consume, Get, List | record moved by remove-then-write; one-shot token; expiry; torn files |
| Task store, orchestrator (`internal/airuntime`) | `tasks/<state>/<id>.json`, `state/runtime.json`, one mutex per operation | SubmitTask/Advance, ApproveTask, DenyTask, RequeueTask, Recover | operations made of several locked steps; MoveTask from any state; crash inside MoveTask |
| Skill runner (`internal/skills/runner.go`) | none of its own (tasks, runtime.json, cards, observations) | RunTask, the skills, root approval path | no claim on a task; works on a copy; load and save of runtime.json in two steps |
| Executor, action store (`internal/execution`) | `actions/<status>/<id>.json` | ExecuteShell, FileRead, FileWrite, replay | token consumed first; retries; idempotency check and save not atomic |
| HTTP API, web console (`internal/api`) | none | approve/deny/run tasks and approvals, direct execution | several locked operations per handler, concurrent requests |
| Memory store, journal (`internal/memory`) | maps, `cards/`, `edges/`, `journal.jsonl` | CreateCard, UpdateCard, TouchCard, CreateEdge, DecayAndCompact, RebuildProjections | three replicas written in sequence; failed writes; crash; rebuild race |
| Memory governance (`internal/memory/*.go`) | card versions and statuses | promotion, conflict detection, decay, procedures, upgrades | query first, write later; ticker goroutine |
| Memory scheduler (`internal/memoryscheduler`) | a state file | EvaluateAndSchedule | check then act across two stores, cooldown |
| Recall, memory orchestrator (`internal/recall`, `internal/memoryorchestrator`) | none | packets of cards, feedback on their use | feedback comes after the model call |
| Chat sessions and routing (`internal/chat`) | per session a history, a state and an archive file | Send, answers to confirmation cards, archive, restore, delete | asynchronous second half; load-to-save windows around model calls; Send calls itself |
| Agent loop, model stream (`chat/agent_loop.go`, `model/runtime.go`) | messages of one turn | model and tool rounds, streamed fallback | chunks in any cut and order; failure after tools ran |
| Skill registry (`skills/manifest.go`, `registry.go`) | a map, manifest files, `state/skills.json` | load, register, reload, switch | no lock; reloads that overlap; error paths |
| Model settings (`internal/model`, `api/web.go`) | config, profiles and last test, each in memory and in a file | save, apply, delete, test, request | file and memory in different orders around the lock; environment overlays |
| Chat page (`api/web.go`, `api/web_templates.go`) | what each connection sent last; the page's nodes | events, deltas, refreshes, optimistic sends | three unsynchronised sources of one list |
| Daemon control (`cmd/mnemosynectl/daemon.go`, `runtimeapp`) | `state/daemon.json`, processes | start, stop, restart, status; Build, Recover, listen | PID reuse, overlapping commands, slow starts |
| Regression harness (`internal/harness`) | run directories, baselines | run, save, check, sum up | names with a resolution of a second; kills; paths of moved files |
| File access policy, connectors | none | decisions on paths; calls to services | - |

Interactions. Handlers call the orchestrator, the approval store and the
runner; the runner calls the executor, which calls the approval store
(`authorizeProfile`), and writes cards to the memory store; a finished task
makes the runner call the memory scheduler, which submits a task; the chat
submits, approves and runs tasks, and calls the model through the gateway. Every
store locks a single operation, so
nothing that spans two operations is atomic.

What makes each part correct, in a line:
approvals are used at most once and only if granted; a task is in one place,
runs only when planned and is not lost; root actions happen under an approval
of their own task or one their client named; the replicas of memory never contradict what a caller was
told; cards out of use stay out; maintenance is neither doubled nor starved; a
chat loses no message and starts only work that was approved; the registry is
what files and settings define, and a done task is complete; a daemon is found
by the command that has to stop it; settings survive a restart; the page shows
what is stored; a baseline check tells drift and nothing else.

PROJECT.json lists all components, the ones not modelled too, and the hazards
of the code with the properties that cover them; a hazard's note says what does
not hold.

## 2. Modules

| Module | Models | State and actions |
|---|---|---|
| `ApprovalGrant` | what the approval store promises | `phase` of an approval, how often it was accepted; Request, Grant, Revoke, Spend, Lose |
| `Approvals` | `approval/store.go` | `whole`/`torn`: status directories that hold a complete or a cut-short file; `op`: the call between its removal and its write. Refines `ApprovalGrant` |
| `TaskRuntime` | `airuntime`, the runner's and the handlers' effect on tasks | `task[t]`: directory of a task's file; `runtime`: runtime.json; `call[c]`: step and local copies of each request. One action per locked store operation; Crash (inside MoveTask) and CrashCreating (inside CreateTask), which may leave a torn file; Recover in two steps |
| `RootExecution` | runner + approvals + orchestrator + executor + handlers for root tasks | composes with `ApprovalGrant` (by INSTANCE) in place of the files; tasks with `root_approval_id`, which a client may set when it submits the task (`carried`); Advance and planning; ledgers of actions performed |
| `MemoryStore` | `memory/store.go`, `journal.go`, `DecayAndCompact` | the three replicas of cards and edges, `op` under the mutex, faults in every write |
| `Execution` | `execution/executor.go`, `store.go` | `whole`/`torn`: directories with a record of each action; `call[c]`: step and attempt of each request; ledgers of attempts, successes and reports. One action per store operation and per attempt, WriteFails and Crash in any of them |
| `MemoryScheduler` | `memoryscheduler/scheduler.go` | `last`: the age of LastTriggeredAt in the state file; `call[c]`: step of each evaluation; candidates, open consolidations and a busy runtime as the world around. One action per read or write of a store |
| `MemoryLife` | `memory/governance.go`, `consolidator.go`, `upgrade.go`, `conflict.go`, `procedural.go`, `scheduler.go`, `recall`, `memoryorchestrator`, the cards skills write | `status`, `score`, `age`, `text`, `refs`, `edges` of cards; `scope`, `over` (Supersedes): what users may set too, with any status; `gov`: the governance loop; `pass[p]`: consolidations; chat turns with the packet they recalled. One action per call of the store |
| `ChatRouting`, `Chat` | `chat/service.go`, `intent.go`, `route_agent.go`, `dialogue_agent.go`, `store.go` | `hist`, `arch`, `sess`: the session's files; `req`: requests with their step, copy of the state and reply; `task`, `active`: the tasks and the one runtime.json names, since SubmitTask hands chat whatever task Advance returns. `ChatRouting` is the decision, as operators on the marks of a message, the session state and the model's answer |
| `SkillRegistry`, `SkillRunner` | `skills/registry.go`, `manifest.go`, `runner.go`, `external.go` | `reg`, `manifest`, `state`: the registry and its files, reloads step by step; tasks with artifact, observation and cards; `run[r]`: runs at each step of a handler; ApproveTask and DenyTask; approvals of external root commands |
| `DaemonControl` | `cmd/mnemosynectl/daemon.go`, `appcli/serve.go`, `runtimeapp/app.go` | `proc`: processes; `pidfile`; `cmd[c]`: command lines at each read, signal and write |
| `ModelConfig`, `ModelSettings` | `model/runtime.go`, `profiles.go`, `lasttest.go`, the settings handlers of `api/web.go` | normalisation, validation, overlays and request limits as operators; three stores in memory and on disk, `call[t]`: the request of each browser tab |
| `AgentTurn` | `chat/agent_loop.go`, `skills/agent_skills.go`, `streamConversationReply`, `streamWithProfile` | `msgs`: the conversation; `trace`: what is shown; `partials`, `content`: a stream being put together, shown without Markdown marks (`normalizeAssistantText`) |
| `ChatStream` | `handleWebChatEvents`, the script of `web_templates.go` | `store`; `answers`: what Service.Send writes, also when the message is gone (Upsert appends it); `last`: what the connection sent; `events`; `view`: the page's nodes; fetches under way |
| `HarnessBaseline` | `internal/harness`, `cmd/mnemosyne-harness` | `dirs`: runs with their reports; `base`: baselines; the command under way |
| `Console` | - | the five parts above, one of which a behaviour follows; they share no state |
| `ApprovalsProofs`, `TaskRuntimeProofs`, `MemoryProofs`, `LifecycleProofs` (of `MemoryLife` and `Execution`), `ConsoleProofs`, `HarnessProofs`, `SkillRunnerProofs`, `ChatProofs` | - | theorems |
| `MC*` | - | instances for TLC |

Composition. `Approvals` is shown to implement `ApprovalGrant` (checked and
proved), and `RootExecution` uses `ApprovalGrant` as its approval store; a token
is identified with its approval there, which `TokensDistinct` justifies.
`TaskRuntime` treats the approval path as an outcome of a run; `RootExecution`
treats planned and active as one state, since the runner and RequeueTask accept
both alike, and it leaves out runtime.json, which no decision of that path reads.
`RootExecution` takes an action as one step (Act); `Execution` has its steps, and
starts where authorizeProfile and the checks of command and path have passed.
`SkillRunner` extends `SkillRegistry`: runs resolve their skill in the registry
that reloads are filling. `Chat` extends `ChatRouting`. `MemoryLife` takes a
call of the store as a step; `MemoryStore` has what it does to the replicas.
What one of these leaves open (the outcome of a task in `Chat`, of an action in
`SkillRunner`) another one models. `Console` is a disjoint composition.

Abstractions. Ids are numbers in order of creation. Task contents, commands,
outputs, messages and scores are left out. In `MemoryStore` a card is the set of
its versions (only appended), so one replica is behind another exactly when its
set is smaller. Action ids (`action-<UnixNano>`) are taken to be distinct: two
requests in the same nanosecond are not modelled. In `Execution` a fingerprint
stands for kind, profile and arguments. In `MemoryScheduler` a policy is its
threshold, and one for cards of another scope or type a threshold that is never
reached. In `Chat` a message is the set of marks the code's phrase tests give it
(affirmative, question, operational, ...), and what the model says of it is
chosen; a source is `intent-confirmation` or another, a profile `root`, that in
another spelling (which gets neither a card nor an approval, since one test
ignores case and the others do not) or `user`. A SubmitTask of another client
is one step there, and task files are neither torn nor lost, which is left to
`TaskRuntime`. The activation state a request may carry is left out of
`MemoryLife`. In `MemoryLife` scores are thousandths, time is counted in ticks of the
loop, topics stand for clusters of events, and which cards a search recalls is
chosen among those that may be recalled. In `SkillRunner` a handler is the
sequence of its effects. In `AgentTurn` a text is the sequence of its
characters, as far as trimming and normalising tell them apart; in `ChatStream`
it is the sequence of its pieces, so that cutting and rendering are what they do
to pieces. In `HarnessBaseline` the outcome of a step stands for all fields that
are compared, and a path is the sequence of its names; its files are
artifacts, whose contents are compared (`harness/diff.go:211`, 286-335), while
observations are only counted, which is part of the outcome. The copy of an
artifact is named for its step, without the index and the file name that
`rollup.go:540` adds, so the model overwrites old copies more often than the code. Numbers typed in a form
are chosen around the limits. An error return before any change is no step. A file that a
crash or a failed write cut short does not parse. Writes may also fail with the
process alive, but for those of `TaskRuntime`, which fail only by a crash.

## 3. Runs

| Run | Shows |
|---|---|
| `approvals` | RecordsSound (OneResidence, TokensDistinct), UsedAsGranted (OneShot, DeniedNeverUsed) and the refinement, with errors, crashes and torn files in every operation |
| `task_concurrent` | PointerSound (InboxUntouched, BusyIffPointed) and RecoveredClean for all interleavings of two callers |
| `task_sequential` | OneActivePerCrash, DoneFinal, ComesBack when requests come one at a time |
| `root_safety` | Authorised: one action per approval (OneActionPerApproval), only granted (ActsOnlyGranted), and for the task it was requested for or whose client named it (OnlyClientsBorrow, AwaitingNamesRequest) |
| `root_liveness` | an approved and rerun root task executes, with ApproveTask as the way out of a stale awaiting_approval |
| `memory` | NothingForgotten (ReplicasOrdered, AckedDurable) and EdgeEndsExist before any rebuild, and DiskMatchesMemory with RebuildProjections racing mutations, under failed writes, torn files, crashes |
| `execution` | RecordsHonest (OneFile, OutputHonest, ReportedKept) and NeverTooOften (DoneNeverRedone, AttemptsBounded) with two callers, three requests, a failed write and a crash; RepeatsBounded: overlapping requests with one key, and faults, are the only ways to carry it out again; Answered |
| `scheduler` | CountsBounded: evaluations that race open at most one consolidation each; CooldownKept: what is left of the cooldown when skips drop the time it is counted from; NotStarved: candidates lead to a consolidation |
| `memlife` | NoRevival: neither feedback on an old packet nor decay nor an upgrade brings back a card out of use, only a user can; CardsConsistent: a promoted card has put out the one it supersedes when consolidations do not overlap and no user set these fields (SupersededOut; a search result may be found again), facts keep all their evidence but for a fault or a user (EvidenceLinked); Forgotten, ConflictReported: liveness of the governance loop |
| `chat` | NothingLost and StaysGone for the session's files; RequestsEnd: no finished request leaves a reply that shows work (RepliesSettle), and Send calls itself a bounded number of times (RecursionEnds); GreenLit: only approved goals become tasks of the chat, for every order of requests; LatestGoal: with nothing in the way, a yes runs the last card's goal and the answer is about it |
| `skills` | RegistryHonest: reloads that overlap and panic leave all built-in skills (BuiltinsSurvive), a reload that ran alone gives what files and settings define (ReloadHonest); DoneComplete, ActsBounded (ActsOncePerRun, OneCommandPerGrant) for runs that race reloads, approvals and denials of the task, each other and faults |
| `console` | OneDaemon (DaemonTracked, RecoverAlone, OnlyDaemonsStopped) when commands do not overlap; SettingsSurvive, ConfigUsable (ProfilesUsable, RequestsWithin); ToolsHonest (ConversationWellFormed, TraceHonest), StreamFaithful (StreamWhole, PartialIsPrefix, AnswerIsWhole); PageHonest (ShownAsStored); ReportsHonest (CheckHonest, RollupHonest) |

A property with parts in parentheses is their conjunction. Where no theorem
states a module's type invariant by itself, it is a part of a property of its
run: CountsBounded, CardsConsistent, RequestsEnd, RegistryHonest, ActsBounded
and the properties of `console`.

Where a property has a condition, it is because the code does not give more.
What was met while modelling and does not hold:

- MoveTask (`airuntime/store.go:146`) and the action store's Move remove a file
  before they write the new one; a crash in between loses the task or the record
  (PROJECT_DIRECTION.md:136 wants both durable).
- When a crash cuts short the file of the task that runtime.json names, Recover
  fails on every start (ComesBack is checked without torn files); so does a
  daemon whose config.json or profiles.json was cut short.
- A root approval that is granted before awaitApproval moves the task
  (`skills/runner.go:1876`) leaves it waiting; approving and rerunning
  (README.md:293) does not help, ApproveTask does.
- After a crash between snapshot and journal, ReplayFromJournal misses what a
  restart shows (README.md:534).
- One manifest that does not load makes a reload skip the switches of all skills
  (`skills/runner.go:177`).
- A client of POST /tasks can put the approval of another task into the metadata
  (`api/server.go:359`); resolveRootApproval (`skills/runner.go:1836`) does not
  compare the task, so the task runs under it. OnlyClientsBorrow exempts it.
- Chat runs and reports on whichever task Advance returns, an older one included
  (`chat/service.go:361`, `airuntime/orchestrator.go:68-113`).
- A client that sends `intent-confirmation` as its source gets no card
  (`chat/service.go:1757`); GreenLit exempts it.
- A user may set any status of a card, so one that was superseded can be active
  beside its successor (`api/server.go:577`).
- A denied task fails even when it was done (`airuntime/orchestrator.go:127`), and
  when it is run again it acts again; ActsBounded counts the denial.
- A run that resolves its skill during a reload falls back to task-plan or is
  refused (`skills/runner.go:230`).
- An answer that outlives its deleted session comes back at the end of the list
  (`chat/store.go:82`), and a page may keep showing it elsewhere until the whole
  list is sent again (`displaced` in `ChatStream`).
- The card "Reply \"start\" to begin" (`chat/service.go:1786`) is not reached by
  that reply while a task has the focus: the continuation of the focused task
  comes first (lines 1257-1278).
- Cards of type fact and event are never recalled (`recall/service.go:131`;
  README.md:357 says `recall_memory` searches "for relevant facts and
  procedures").
- Two starts that overlap run two daemons, the second of which runs Recover on
  the tasks of the first; two consolidations that overlap may leave a card and
  the one it supersedes both active.
- With a relative root, as GETTING_STARTED.md:127 uses, a harness run with files
  never matches its baseline (`harness/diff.go:83`).

Bounds. Two approvals give every pair of operations on one record and on two,
and a token presented for another record; two profiles a wrong profile; a TTL
of 1 and three ticks, expiry before and after use. Two callers and two tasks give
every race of two requests on one task or on two; the third task of the
sequential run is an inbox task beside an orphaned and an active one. Two root
approvals for one task arise when two first runs overlap, the worst case the
code has. Two cards give edges in both directions and between a card and
itself; three versions let both cards be written and one again after a fault;
two crashes, a second one after a recovery. Three actions and two callers give
an action that is completed, one that overlaps it and one that comes later; the
requests have the same key with equal and with different fingerprints, no key,
and a count that starts beyond its maximum. A threshold that one candidate
reaches and one that it does not, and a cooldown of two ticks, give every kind
of skip, before, during and after the cooldown. In `memory` one failed write and
one crash meet in either order, with a rebuild anywhere. `memlife` follows
one of four worlds of cards: two events and the fact they become, two facts that
contradict and of which one supersedes the other, a procedure, a search result.
Three inputs of `chat` are two requests that overlap, or a card, its answer and
a button, or another client's task in between; four texts are a yes, a no and two
pieces of work, sent as user, as root or with a tagged source. The requests of
users in `memlife` are those that interfere with what the program keeps: a card
made active at once while it supersedes another, with evidence or in another
scope, and a revival of the card it supersedes. `skills` has one task with two runs, two users of the registry, and
manifests that are good, that clash with a built-in skill and that do not load.
`console` has two terminals with three processes, two tabs with three forms, a
loop of two rounds (the code's six differ from two only in number), chunks with
text, white space, marks cut in two, list items and tool calls out of order, one message sent from the page
and one from elsewhere with a window of three and one of the two timers after a
send, and two scenarios run twice in one second or in two. The harness was also
checked once with three runs and three scopes, and the page with both timers
(`Delays = {300, 1200}`, one event on its way): nothing new. The theorems need
none of these bounds.

Fairness. `TaskRuntime!FairSpec`: a goroutine that serves a request goes on, and
a started daemon goes on with its start; nothing makes clients call.
`RootExecution!RootFairSpec`: the same, and, because the liveness property is about
an operator and a client who follow the README, an operator who decides on
every request and a client who reruns the task (strong fairness: they try again
when another request got in between).
`Execution!FairSpec`: a goroutine that serves a request goes on and an attempt
ends, which the timeout of a command is for. `MemoryScheduler!SchedulerFairSpec`: an
evaluation goes on, time passes, and tasks of the skills whose policies the
candidates can satisfy keep finishing, which is what calls the scheduler.
`MemoryLife!Fairness`: time passes, the governance loop ticks and goes on, and a
consolidation that was started goes on; nothing makes clients use cards.

CHECK_DEADLOCK is off but for `memlife`, whose loop never stops: elsewhere the
bounds on ids, versions and time, and clients that stop calling, end behaviours
legitimately.

## 4. Proofs

`ApprovalsProofs`. The inductive invariant adds to TypeOK and OneResidence that
uses and denials agree with the directories: an approval with a file under
pending or approved, or in flight from there to anything but consumed, has
never been used; and that a token drawn is at most `issued`, with tokens of
approved records pairwise different. OneShot, DeniedNeverUsed and
TokensDistinct follow, and every step of the files is a step or a stutter of
`ApprovalGrant` under `PhaseOf`.

`TaskRuntimeProofs`. InboxUntouched and BusyIffPointed are not inductive: a
caller may write back a runtime state it loaded long ago. The invariant adds
that every runtime state in a caller's hands is paired (busy iff it names a task)
and names no task that is still in the inbox, that ids in hands were drawn
before `nextId`, that only CreateTask puts a task in the inbox, and what each
step of a call knows of its task (`CallOK`). RecoveredClean follows from what
the start's first half leaves for the second (`BootClean`).

`ApprovalsProofs`, root tasks (`RootIInv`). OneActionPerApproval, ActsOnlyGranted,
OnlyClientsBorrow and AwaitingNamesRequest speak of what was done, so the
invariant says what calls hold in between: an approval in a call's hand was
requested, and belongs to the task in its hand or was named by the client that
submitted it (`CallOK`); so is the one a task names (`TaskOK`); an approval that acted is consumed, was granted and acted at most
once (`ApprovalOK`), and between Authorize and Act it is consumed and has not
acted yet (`CallOK`); no two calls are there with the same approval (`Solo`).
Without Solo the first of two such calls would act and the second too.

`MemoryProofs`, the store. The journal is written from the map and the map is
read back from the files, so ReplicasOrdered needs the third side, journal within
map (`JournalBehind`), and that the file equals the map's card between
persistCard and the event (`Persisted`). AckedDurable adds that one fault cuts
short a file or the journal, not both (`OneFault`). EdgeEndsExist needs that maps
and files agree but for the card under way (`Agree`), and the same property of
the files (`EdgesFit`). All of this is for as long as no rebuild has
happened (~rebuilt); TypeOK and DiskMatchesMemory are proved with rebuilds too.
For the latter, as long as no write failed, maps and files differ only in what the
call under way is about to write and, while a rebuild holds the mutex, in
anything (`Match`).

`MemoryProofs`, the scheduler. That races open at most one consolidation per
caller is not inductive, since a caller may have checked and not yet submitted:
`Room` counts the callers about to submit with the open consolidations.
CooldownKept follows from what an evaluation that was alone from its first read
knows (`SoloOK`), from its being the only one under way (`SoloAlone`), and from
the file's time being the true one unless a skip dropped it or a save is due
(`Tracked`).

`LifecycleProofs`, cards. The governance loop and the consolidations write what they
queried earlier, so `LInv` says what they hold: cards that exist, and texts that
were read (`GovOK`, `PassOK`). EvidenceLinked is inductive beside that. NoRevival
follows from what a step may do to the status of a card and to the cards that
consolidations hold (`Moves`, `HeldMoves`, proved once per action). SupersededOut
is about the time between consolidations and needs what goes on during one: a
card is younger than the one it supersedes (`Ordered`), so that oldest first is
the right order, and a card that was promoted has put the other out, where no pass
holds it, or the pass is about to (`Replaced`). Two passes that had queried the same
candidates may promote the replaced card again, so CardsConsistent is proved, as it
is checked, for consolidations that do not overlap (`Alone`). What
users set by hand is exempt: the ledger `byhand` names the cards whose status,
supersession or evidence a request set otherwise than the program would; the others
keep what they supersede, also in what a pass has read (`ReadOK`).

`LifecycleProofs`, actions. The properties speak of records, and what a record will be is
in the hands of a call, so the invariant says what each step of a call knows
(`CallOK`: in which directory its record is, how many attempts it made, whether
its output is in place, and where the output it replays comes from) beside what
is true of each record (`RecOK`). No two calls have the same
action (`Apart`), and an action that was not started has no record and no
ledger (`Fresh`). DoneNeverRedone and ReportedKept rest on one fact: a record
under completed/ is never removed, since Move removes only what its own call
saved under running/. RepeatsBounded counts: as long as a request has no completed
record, each success of it is with a call that is about to record it, or was lost
by a crash or a failed write; from then on successes and the calls that may still
get one are together within the callers and what was lost, since later calls
find the record (`Bound`, `Room`, `ReplayBacked`).

`TaskRuntimeProofs`, one request at a time. DoneFinal and OneActivePerCrash are
false when requests overlap, so both theorems assume that there is one caller
(`Alone`), and the second that it never uses ApproveTask, which activates a task
whatever runtime.json names. `OInv` adds to IInv what the step of the single
call knows of its task and of the runtime state it loaded (`Steady`), and counts
the active tasks that neither runtime.json nor the call names (`Stray`): only a
crash adds one, and Recover never does.

`ConsoleProofs`, daemon. As long as commands do not overlap, what a command is
about to do tells which processes there are (`Stage`, `Orderly`): that is what
DaemonTracked, RecoverAlone and OnlyDaemonsStopped have in common (`DInv`).

`ConsoleProofs`, settings. SettingsSurvive compares what a restart would load with
what is in memory. A load normalises and overlays the environment on what was
normalised before, so the proof rests on lemmas about the operators of
`ModelConfig`: normalizeConfig yields limits in range (`Normal`) and leaves a
normal configuration as it is, and so does an overlay of an environment that
says nothing. `SInv` says of each store that a restart brings what memory holds
unless the only request under way is between its file and its memory write
(`Synced`, `InStep`). ConfigUsable follows from its type part.

`ConsoleProofs`, agent turn. ToolsHonest is about positions in the conversation:
`UInv` says that the calls of a message are answered in order right after it
(`Matched`, with `Due` the last position they take), where the open message is
(`Opened`), how many rounds there were (`Counted`), and that the trace is what the
tool messages say (`Traced`). The calls of a streamed message are put together
from fragments by a recursive function; that its values have the right form for
every number of fragments is an induction, done by hand with a least
counterexample (below).

`ConsoleProofs`, stream. StreamFaithful compares what the code put together chunk by
chunk with the whole of what was sent. `Built` says what each call under construction
must be when some fragments were received: the arguments of its index in order, and the
last id and name that are not empty. One fragment more keeps it (`Grew`, which
splits on whether the fragment is for this index, for another or for a new one), all
fragments of a chunk do (`Climb`), and so does the chunk; the text shown is the
normalised text of the pieces so far, and what stays is that of all of them.

`ConsoleProofs`, page. The events on their way are part of what the page will show.
`Tracks` says of a list of nodes that, once the events after a given one are applied,
it shows the settled messages of what the connection sent last (`last`), as stored and
in the order of the window, or that a full list to come replaces it. `Follows`
asks this of the page and of each full list on its way; it needs that an event which
touches a settled message is followed by one that brings the message as it is
(`Corrected`), and that lists, events and fetches hold only ids already given, once and
in the order of the window (`SentBefore`). The window slides as messages are appended
(`Slides`). An answer is written again only after its send was stored (`Drafted`),
so one that is gone and that nobody has seen may be appended like a new one; one
that was seen (`Seen`) sets `displaced`, and the order of the window is not required
(`Order`) until nothing but the whole list is on its way. `ShownAsStored` is
`Tracks` when no event is left and `last` is the window. The
proof showed that the ledger `behind` was too weak: a page whose fetch was answered
with an older list than the events it had already applied can lack a message that no
event will bring again. `Overtaken` now says exactly when a fetched list is that.

`HarnessProofs`. ReportsHonest is about what is read back from reports and files that
runs, saves, kills and deletions left. `HInv` says where the files of runs and
baselines lie, as paths of known lengths and names, so that deleting a run takes no file
of another run or of a baseline (`FilesPlaced`, `RunsKept`); what the report of
each directory, of the run under way and of each run about to be saved holds
(`RunsKept`, `UnderWay`, `SavesKept`); and that the baseline of a slug, or the copy
about to become it, keeps what the ledger says the saved run showed (`Kept`,
`Remembered`). CheckHonest follows by comparing the two reports step by step
(`ReportsCompared`); with a relative root every path of a report resolves to one
that is not there. RollupHonest is about a pass over the reports: `SumsTo` says
what the first k add up to, one more keeps it (`TallyAdds`), and `Climb` gives it for
all. The latest run is known by its second only, and it is the right one since
runs start in the order of their seconds. `HInv` was checked with TLC first, with
both kinds of root.

`SkillRunnerProofs`, registry. A reload writes the registry step by step while
others read it. `RInv` says for a reload that is alone which part of its result
is in place (`Phase`, `Alone`), that a built-in skill which is missing will still
be registered by a reload under way (`Covered`), and that a file a reload has
listed is there when it comes to it (`Snapshot`). What loading the first files
gives is a recursive function of their number (`After`).

`SkillRunnerProofs`, runner. DoneComplete and ActsBounded need what a run still
has to do: the rest of its handler is an end of that handler (`RunOK`, `Left`);
what is no longer in the rest has been written, as long as runs of the task do not
overlap (`Single`); every action on such a task, and every request not yet
decided, is backed by a run that failed, by the one under way or by the one that
completed it (`Backed`); and commands done or about to be done are at most the
consumed approvals (`Spent`).

`ChatProofs`. Every copy of the session state, in the file and in the hands of a
request, holds only goals that a card has shown (`StateOK`), and what a request
may assume at its step is listed by step (`Knows`): GreenLit follows.
StaysGone needs that no reply a request will still write is among the deleted
messages (a part of `Knows`). For NothingLost and
RequestsEnd no two requests write the same reply (`Apart`) and the last write of
a reply is the settled one, in the history or in the archive's copy of it
(`Final`, `Copies`); Send's recursion is bounded since a goal that was answered
has left the state it is called with (`Depth`, `Shallow`). For LatestGoal, as long
as turns come one at a time the goal in the state is the last card's (`Calm`), and
a created task that nobody is in the way of is the one Advance hands back
(`Undisturbed`).

The inductive invariants of the approval, task, root, memory, card and chat modules
were checked with TLC on the runs' instances before they were proved.
Assumptions: the ASSUMEs of the modules only (bounds are natural numbers, sets
of ids are finite, the tables of providers, handlers and files have the form the
code gives them), but for the hypotheses of DoneFinal, OneActivePerCrash and
CardsConsistent named above. The library's induction theorems take an operator, which the provers
cannot instantiate; where a recursive function is reasoned about, the proof takes
the least number at which a statement fails (`Least`, `Climb`, from
WFMin and NatLessThanWellFounded) instead.

Only model-checked: the liveness properties (ComesBack, ApprovedTaskActs,
Answered, NotStarved, Forgotten, ConflictReported: liveness under fairness is out
of the prover's reach).

## 5. Not modelled

Left out:

- the file access policy: a pure decision over paths, whose meaning depends on
  symbolic links that are resolved when a file is opened;
- connectors (mail, GitHub, web search): clients of services; `SkillRunner` has
  their answers as results, refusals and errors;
- the recognition of phrases and topics, prompts, ranking by scores, HTTP
  transport and wire formats: text and numbers that no property tells apart;
- pages other than the chat, argument parsing and the terminal client: no state;
- the effect of harness steps on a runtime, fixtures and the model stub: they
  are the system under test.
