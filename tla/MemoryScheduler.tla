-------------------------- MODULE MemoryScheduler --------------------------
(***************************************************************************)
(* The memory scheduler (internal/memoryscheduler/scheduler.go): when a    *)
(* task is done, the runner asks whether to submit a memory-consolidate    *)
(* task.  EvaluateAndSchedule looks at the candidate cards, at its own     *)
(* state file, at runtime.json and at the task list, one after the other   *)
(* and without a lock, then submits and saves its state.  Every run of a   *)
(* skill has a Scheduler of its own on the one state file.                 *)
(*                                                                         *)
(* Of cards and tasks only numbers matter: the eligible candidates, and    *)
(* the consolidation tasks that are open (inbox, planned, active,          *)
(* awaiting_approval or blocked).  Time is the age of LastTriggeredAt;     *)
(* past Cooldown it makes no difference.  A policy for cards of another    *)
(* scope or type is a threshold that the candidates never reach.           *)
(***************************************************************************)
EXTENDS Integers, FiniteSets

CONSTANTS
  Caller,       \* the goroutines that finish tasks
  Thresholds,   \* the MinCandidates of the skills' policies
  Cooldown,     \* Config.Cooldown
  MaxCards,     \* bound: eligible candidates at a time
  MaxByHand,    \* bound: consolidations that clients open
  MaxFaults     \* bound: calls that fail and crashes

ASSUME MemorySchedulerAssumption ==
  /\ IsFiniteSet(Caller)
  /\ Thresholds \subseteq Nat \ {0}
  /\ Cooldown \in Nat \ {0}
  /\ MaxCards \in Nat
  /\ MaxByHand \in Nat
  /\ MaxFaults \in Nat

Never == -1
Age == 0..Cooldown

VARIABLES
  cards,     \* eligible candidate cards
  lastTriggered,      \* memory_scheduler.json: the age of LastTriggeredAt, or Never
  busy,      \* runtime.json names an active task
  open,      \* open consolidation tasks
  call,      \* each caller's evaluation
  byHand,    \* consolidations that clients opened so far
  faults,    \* calls that failed and crashes so far
  since,     \* ledger: the age of the last submission, or Never
  forgotten  \* ledger: its time was dropped from the state file

world == <<cards, busy, open, byHand, faults>>
ledgers == <<since, forgotten>>
schedulerVars == <<world, lastTriggered, call, ledgers>>

\* min: MinCandidates; save: the LastTriggeredAt to save; keeps: whether the
\* call means to keep the time of the last submission; solo: no other call
\* overlaps it.
NoCall == [pc |-> "idle", min |-> 1, save |-> Never, keeps |-> TRUE, solo |-> TRUE]

SchedulerInit ==
  /\ cards = 0 /\ busy = FALSE /\ open = 0 /\ byHand = 0 /\ faults = 0
  /\ lastTriggered = Never
  /\ call = [c \in Caller |-> NoCall]
  /\ since = Never /\ forgotten = FALSE

-----------------------------------------------------------------------------
(***************************************************************************)
(* EvaluateAndSchedule                                                     *)
(***************************************************************************)

AtStep(c, pc) == call[c].pc = pc
Goto(c, pc) == call' = [call EXCEPT ![c].pc = pc]
SaveNext(c, t, keeps) ==
  call' = [call EXCEPT ![c].pc = "save", ![c].save = t, ![c].keeps = keeps]

\* DecayAndCompact leaves candidates alone.
Evaluate(c, m) ==
  /\ AtStep(c, "idle")
  /\ call' = [d \in Caller |->
       IF d = c
       THEN [NoCall EXCEPT !.pc = "count", !.min = m,
                           !.solo = \A e \in Caller : AtStep(e, "idle")]
       ELSE [call[d] EXCEPT !.solo = @ /\ AtStep(d, "idle")]]
  /\ UNCHANGED <<world, lastTriggered, ledgers>>

\* eligibleCandidates: none, or fewer than the threshold, is a skip that
\* saves a state without LastTriggeredAt.
CountCandidates(c) ==
  /\ AtStep(c, "count")
  /\ IF cards = 0 \/ cards < call[c].min THEN SaveNext(c, Never, FALSE) ELSE Goto(c, "query")
  /\ UNCHANGED <<world, lastTriggered, ledgers>>

\* The second query counts candidates of every type.
QueryAgain(c) ==
  /\ AtStep(c, "query")
  /\ \/ cards = 0 /\ SaveNext(c, Never, FALSE)
     \/ Goto(c, "load")
  /\ UNCHANGED <<world, lastTriggered, ledgers>>

\* loadState: a file that another caller is writing, or that does not
\* parse, is no state at all.
Loadable(c) ==
  {lastTriggered} \cup (IF \E d \in Caller \ {c} : AtStep(d, "save") THEN {Never} ELSE {})

\* Mutant: a skip for the cooldown saves the state without its time.
LoadStateForgets(c) ==
  /\ AtStep(c, "load")
  /\ \E t \in Loadable(c) :
       IF t # Never /\ t < Cooldown THEN SaveNext(c, Never, TRUE) ELSE Goto(c, "runtime")
  /\ UNCHANGED <<world, lastTriggered, ledgers>>

\* Mutant: a skip for the cooldown starts it again.
LoadStateRenews(c) ==
  /\ AtStep(c, "load")
  /\ \E t \in Loadable(c) :
       IF t # Never /\ t < Cooldown THEN SaveNext(c, 0, TRUE) ELSE Goto(c, "runtime")
  /\ UNCHANGED <<world, lastTriggered, ledgers>>

LoadState(c) ==
  /\ AtStep(c, "load")
  /\ \E t \in Loadable(c) :
       IF t # Never /\ t < Cooldown THEN SaveNext(c, t, TRUE) ELSE Goto(c, "runtime")
  /\ UNCHANGED <<world, lastTriggered, ledgers>>

LoadRuntime(c) ==
  /\ AtStep(c, "runtime")
  /\ IF busy THEN SaveNext(c, Never, FALSE) ELSE Goto(c, "list")
  /\ UNCHANGED <<world, lastTriggered, ledgers>>

\* Mutant: the task list is not searched.
ListTasksUnread(c) ==
  /\ AtStep(c, "list")
  /\ Goto(c, "submit")
  /\ UNCHANGED <<world, lastTriggered, ledgers>>

ListTasks(c) ==
  /\ AtStep(c, "list")
  /\ IF open > 0 THEN SaveNext(c, Never, FALSE) ELSE Goto(c, "submit")
  /\ UNCHANGED <<world, lastTriggered, ledgers>>

Submitted ==
  /\ open' = open + 1
  /\ since' = 0 /\ forgotten' = FALSE

SubmitTask(c) ==
  /\ AtStep(c, "submit")
  /\ Submitted
  /\ SaveNext(c, 0, TRUE)
  /\ UNCHANGED <<cards, busy, byHand, faults, lastTriggered>>

SaveState(c) ==
  /\ AtStep(c, "save")
  /\ lastTriggered' = call[c].save
  /\ forgotten' = (forgotten \/ ~call[c].keeps \/ ~call[c].solo)
  /\ call' = [call EXCEPT ![c] = NoCall]
  /\ UNCHANGED <<world, since>>

Fault == faults < MaxFaults /\ faults' = faults + 1

\* LoadState, ListTasks or SubmitTask fails and nothing is saved; a task may
\* have been created all the same, by a SubmitTask that failed in Advance.
EvaluateFails(c) ==
  /\ Fault
  /\ call[c].pc \in {"runtime", "list", "submit"}
  /\ \/ UNCHANGED <<open, since, forgotten>>
     \/ AtStep(c, "submit") /\ open' = open + 1 /\ since' = 0 /\ forgotten' = TRUE
  /\ call' = [call EXCEPT ![c] = NoCall]
  /\ UNCHANGED <<cards, busy, byHand, lastTriggered>>

\* The file is not written, or cut short; a skip ignores the error.
SaveFails(c) ==
  /\ Fault
  /\ AtStep(c, "save")
  /\ lastTriggered' \in {lastTriggered, Never}
  /\ forgotten' = (forgotten \/ lastTriggered' # since)
  /\ call' = [call EXCEPT ![c] = NoCall]
  /\ UNCHANGED <<cards, busy, open, byHand, since>>

\* A crash loses what was to be saved, and the file that was being written.
SchedulerCrash ==
  /\ Fault
  /\ lastTriggered' \in {lastTriggered}
                         \cup (IF \E c \in Caller : AtStep(c, "save") THEN {Never} ELSE {})
  /\ forgotten' = (forgotten \/ lastTriggered' # since)
  /\ call' = [c \in Caller |-> NoCall]
  /\ UNCHANGED <<cards, busy, open, byHand, since>>

-----------------------------------------------------------------------------
(***************************************************************************)
(* The world around                                                        *)
(***************************************************************************)

\* A skill writes a candidate.
CreateCandidate ==
  /\ cards < MaxCards
  /\ cards' = cards + 1
  /\ UNCHANGED <<busy, open, byHand, faults, lastTriggered, call, ledgers>>

\* runMemoryConsolidate: PromoteCandidates may leave some; a run that fails
\* later leaves the task open.
Consolidate ==
  /\ open > 0
  /\ open' \in {open - 1, open}
  /\ cards' \in 0..cards
  /\ UNCHANGED <<busy, byHand, faults, lastTriggered, call, ledgers>>

\* DenyTask
DenyConsolidation ==
  /\ open > 0
  /\ open' = open - 1
  /\ UNCHANGED <<cards, busy, byHand, faults, lastTriggered, call, ledgers>>

\* A client has a denied consolidation run again, or submits one.
OpenByHand ==
  /\ byHand < MaxByHand
  /\ byHand' = byHand + 1
  /\ open' = open + 1
  /\ UNCHANGED <<cards, busy, faults, lastTriggered, call, ledgers>>

\* A task becomes active, or none is any more.
RuntimeChanges ==
  /\ busy' = ~busy
  /\ UNCHANGED <<cards, open, byHand, faults, lastTriggered, call, ledgers>>

Older(t) == IF t = Never \/ t = Cooldown THEN t ELSE t + 1

Tick ==
  /\ lastTriggered' = Older(lastTriggered)
  /\ since' = Older(since)
  /\ call' = [c \in Caller |-> [call[c] EXCEPT !.save = Older(@)]]
  /\ UNCHANGED <<world, forgotten>>

Step(c) ==
  \/ CountCandidates(c) \/ QueryAgain(c) \/ LoadState(c) \/ LoadRuntime(c)
  \/ ListTasks(c) \/ SubmitTask(c) \/ SaveState(c)

SchedulerNext ==
  \/ \E c \in Caller :
       \/ Step(c)
       \/ EvaluateFails(c) \/ SaveFails(c)
       \/ \E m \in Thresholds : Evaluate(c, m)
  \/ SchedulerCrash
  \/ CreateCandidate \/ Consolidate \/ DenyConsolidation \/ OpenByHand
  \/ RuntimeChanges \/ Tick

SchedulerSpec == SchedulerInit /\ [][SchedulerNext]_schedulerVars

\* Goroutines go on, time passes, and skills of every policy that the
\* candidates can satisfy keep finishing.
SchedulerFairSpec ==
  /\ SchedulerSpec
  /\ \A c \in Caller : WF_schedulerVars(Step(c))
  /\ \A c \in Caller : \A m \in Thresholds \cap 1..MaxCards : SF_schedulerVars(Evaluate(c, m))
  /\ WF_schedulerVars(Tick)

-----------------------------------------------------------------------------
(***************************************************************************)
(* Properties                                                              *)
(***************************************************************************)

Steps == {"idle", "count", "query", "load", "runtime", "list", "submit", "save"}
Time == Age \cup {Never}

\* The types of the state file, the calls and the counts.
SchedulerTypeOK ==
  /\ cards \in 0..MaxCards /\ open \in Nat /\ byHand \in 0..MaxByHand
  /\ busy \in BOOLEAN /\ forgotten \in BOOLEAN /\ faults \in 0..MaxFaults
  /\ lastTriggered \in Time /\ since \in Time
  /\ call \in [Caller -> [pc: Steps, min: Thresholds \cup {1}, save: Time, keeps: BOOLEAN,
                       solo: BOOLEAN]]

\* However many skills finish at once, no more consolidations are open than
\* there are callers, apart from those that clients opened: with one caller
\* at a time, one.
OpenBounded == open <= Cardinality(Caller) + byHand

\* All counts keep their bounds: SchedulerTypeOK and OpenBounded.
CountsBounded == SchedulerTypeOK /\ OpenBounded

\* An evaluation that no other overlaps submits a consolidation within the
\* cooldown of the one before only after a skip for another reason, an
\* overlap or a fault dropped its time from the state file.
CooldownKept ==
  [][\A c \in Caller :
       AtStep(c, "submit") /\ call[c].solo /\ open' > open /\ byHand' = byHand =>
         since = Never \/ since = Cooldown \/ forgotten]_schedulerVars

\* Enough candidates are not left lying while the runtime is idle: they are
\* consolidated or a consolidation is open.
NotStarved ==
  \A m \in Thresholds : cards >= m ~> (open > 0 \/ cards < m \/ busy)
=============================================================================
