------------------------- MODULE TaskRuntimeProofs -------------------------
(***************************************************************************)
(* Proofs about the task files, for any number of callers, tasks and       *)
(* crashes.                                                                *)
(*                                                                         *)
(* InboxUntouched is not inductive as it stands: a call may load           *)
(* runtime.json and write it back much later, and CreateTask makes a new   *)
(* inbox task under an id that somebody might already hold.  IInv adds     *)
(* that every id held anywhere was created (Known) and that the loaded     *)
(* states agree with themselves (Paired).                                  *)
(***************************************************************************)
EXTENDS TaskRuntime, FiniteSetTheorems, TLAPS

\* Task t has left the inbox, or t is no task.
Left(t) == t \in Task => task[t] # "inbox"

Paired(r) == r.status = "busy" <=> r.active # None

\* The steps before Advance has picked a task.
Advancing == {"idle", "adv_load", "adv_check", "adv_clear", "adv_list"}

\* What one call contributes to the invariant.
CallOK(r) ==
  /\ r.pc \notin Advancing => r.task \in Task
  /\ r.pc \in Committed => Left(r.task)
  /\ Left(r.seen.active)
  /\ Paired(r.seen)
  /\ r.task < nextId
  /\ r.seen.active < nextId

\* A task with a file was created: the ids still to come have none.
Known == \A t \in Task : t < nextId \/ task[t] = "none"

IInv ==
  /\ TypeOK
  /\ Known
  /\ Left(runtime.active)
  /\ Paired(runtime)
  /\ runtime.active < nextId
  /\ \A c \in Caller : CallOK(call[c])

USE DEF None

LEMMA NoneNotTask == None \notin Task
  BY TaskRuntimeAssumption DEF Task

LEMMA TaskNat == \A t \in Task : t \in Nat
  BY DEF Task

LEMMA IdleOK == Idle \in RuntimeState /\ Paired(Idle)
  BY DEF Idle, RuntimeState, Paired

LEMMA NoCallType == NoCall \in CallState
  BY IdleOK DEF NoCall, CallState, Label

\* The next step of a call and its fields, whatever step it takes.
LEMMA BecomesType ==
  ASSUME call \in [Caller -> CallState], NEW c \in Caller,
         NEW r \in CallState, Becomes(c, r)
  PROVE  call' \in [Caller -> CallState]
  BY NoCallType DEF Becomes

LEMMA NoCallOK ==
  ASSUME nextId \in Nat \ {0}
  PROVE  CallOK(NoCall)
  BY NoneNotTask DEF CallOK, NoCall, Idle, Paired, Left, Committed, Advancing

\* What IInv says of the call of c.
LEMMA CallFacts ==
  ASSUME IInv, NEW c \in Caller
  PROVE  /\ call[c] \in CallState /\ CallOK(call[c])
         /\ nextId \in Nat \ {0}
         /\ call[c].seen \in RuntimeState
         /\ call[c].task \in Nat /\ call[c].seen.active \in Nat
<1>1. call[c] \in CallState /\ CallOK(call[c])
  BY DEF IInv, TypeOK
<1>2. nextId \in Nat \ {0}
  BY TaskRuntimeAssumption DEF IInv, TypeOK
<1>3. call[c].seen \in RuntimeState /\ call[c].task \in Task \cup {None}
  BY <1>1 DEF CallState
<1>4. call[c].seen.active \in Task \cup {None}
  BY <1>3 DEF RuntimeState
<1>5. call[c].task \in Nat /\ call[c].seen.active \in Nat
  BY <1>3, <1>4, TaskNat
<1> QED
  BY <1>1, <1>2, <1>3, <1>5, Zenon

\* A step of one call keeps the other calls' share of the invariant if it
\* puts no task that exists back into the inbox.
LEMMA CallsKept ==
  ASSUME IInv, NEW c \in Caller, NEW r \in CallState, Becomes(c, r),
         nextId' \in Nat, nextId' >= nextId,
         \A t \in Task : t < nextId /\ task'[t] = "inbox" => task[t] = "inbox",
         CallOK(r)'
  PROVE  \A d \in Caller : CallOK(call[d])'
<1> SUFFICES ASSUME NEW d \in Caller PROVE CallOK(call[d])'
  OBVIOUS
<1>0. nextId \in Nat \ {0}
  BY CallFacts
<1>1. CASE d # c
  <2>1. call'[d] = call[d]
    BY <1>1 DEF Becomes, IInv, TypeOK
  <2>2. CallOK(call[d]) /\ call[d].task \in Nat /\ call[d].seen.active \in Nat
    BY CallFacts
  <2> QED
    BY <1>0, <2>1, <2>2 DEF CallOK, Left, Paired, Task, Committed, Advancing
<1>2. CASE d = c
  <2>1. CASE r.pc = "idle"
    <3>1. call'[c] = NoCall
      BY <2>1 DEF Becomes, IInv, TypeOK
    <3> QED
      BY <1>0, <1>2, <3>1, NoneNotTask
      DEF CallOK, NoCall, Idle, Paired, Left, Committed, Advancing, Task
  <2>2. CASE r.pc # "idle"
    <3>1. call'[c] = r
      BY <2>2 DEF Becomes, IInv, TypeOK
    <3> QED
      BY <1>2, <3>1 DEF CallOK, Left, Paired, Committed, Task, Advancing
  <2> QED
    BY <2>1, <2>2
<1> QED
  BY <1>1, <1>2

\* The three shapes of a step that leaves the task files alone: it goes on
\* with what it has, it loads runtime.json, it saves runtime.json.
LEMMA QuietStep ==
  ASSUME IInv, NEW c \in Caller, NEW r \in CallState, Becomes(c, r), CallOK(r),
         UNCHANGED <<task, mode, nextId, crashes>>,
         NEW s \in RuntimeState, runtime' = s, Left(s.active), Paired(s),
         s.active < nextId
  PROVE  IInv'
<1>1. TypeOK'
  <2>1. (call \in [Caller -> CallState])'
    BY BecomesType DEF IInv, TypeOK, CallState, RuntimeState, Task, Label
  <2> QED
    BY <2>1 DEF IInv, TypeOK, RuntimeState, Task, CallState, Label, Stored
<1>2. \A d \in Caller : CallOK(call[d])'
  <2>1. CallOK(r)'
    BY DEF CallOK, Left, Paired, Committed, Task, Advancing
  <2> QED
    BY <2>1, CallsKept, CallFacts
<1>3. (Left(runtime.active) /\ Paired(runtime) /\ runtime.active < nextId)'
  BY DEF Left, Paired, Task
<1>4. Known'
  BY DEF IInv, Known, Task
<1> QED
  BY <1>1, <1>2, <1>3, <1>4 DEF IInv

LEMMA RuntimeFacts ==
  ASSUME IInv
  PROVE  /\ runtime \in RuntimeState /\ Left(runtime.active) /\ Paired(runtime)
         /\ runtime.active < nextId
         /\ Idle \in RuntimeState /\ Left(Idle.active) /\ Paired(Idle)
         /\ Idle.active < nextId
  BY IdleOK, NoneNotTask, TaskRuntimeAssumption DEF IInv, TypeOK, Left, Idle

LEMMA ReadsStep ==
  ASSUME IInv, NEW c \in Caller, NEW at, NEW next \in Label,
         next \in Committed => Left(call[c].task),
         at \notin Advancing \/ next \in Advancing,
         Reads(c, at, next)
  PROVE  IInv'
<1>1. PICK r : r = [call[c] EXCEPT !.pc = next]
  OBVIOUS
<1>2. r \in CallState /\ CallOK(r)
  BY <1>1, CallFacts DEF CallState, CallOK, Reads, At
<1>3. Becomes(c, r)
  BY <1>1 DEF Reads, Go
<1>4. PICK s : s = runtime
  OBVIOUS
<1> QED
  BY <1>2, <1>3, <1>4, RuntimeFacts, QuietStep DEF Reads

LEMMA SavesStep ==
  ASSUME IInv, NEW c \in Caller, NEW at, NEW next \in Label,
         next \in Committed => Left(call[c].task),
         at \notin Advancing \/ next \in Advancing,
         NEW s \in RuntimeState, Left(s.active), Paired(s), s.active < nextId,
         Saves(c, at, s, next)
  PROVE  IInv'
<1>1. PICK r : r = [call[c] EXCEPT !.pc = next]
  OBVIOUS
<1>2. r \in CallState /\ CallOK(r)
  BY <1>1, CallFacts DEF CallState, CallOK, Saves, At
<1>3. Becomes(c, r)
  BY <1>1 DEF Saves, Go
<1> QED
  BY <1>2, <1>3, QuietStep DEF Saves

\* The locked MoveTask: no code moves a task back to the inbox.
LEMMA MoveStepStep ==
  ASSUME IInv, NEW c \in Caller, NEW at, NEW next \in Label,
         NEW s \in Stored \ {"inbox"}, MoveStep(c, at, s, next)
  PROVE  IInv'
<1> DEFINE t == call[c].task
<1>0. /\ UNCHANGED <<runtime, mode, nextId, crashes>>
      /\ \/ Movable(t) /\ task' = [task EXCEPT ![t] = s] /\ Go(c, next)
         \/ task' = task /\ Go(c, "idle")
  BY DEF MoveStep, Moved
<1>1. \A u \in Task : task'[u] = "inbox" => task[u] = "inbox"
  BY <1>0 DEF IInv, TypeOK
<1>2. task' \in [Task -> Stored \cup {"none", "lost", "torn"}]
  BY <1>0 DEF IInv, TypeOK
<1>3. PICK r \in CallState : Becomes(c, r) /\ CallOK(r)'
  <2>1. CASE Movable(t) /\ task' = [task EXCEPT ![t] = s] /\ Go(c, next)
    <3>1. PICK r : r = [call[c] EXCEPT !.pc = next]
      OBVIOUS
    <3>2. r \in CallState /\ Becomes(c, r)
      BY <2>1, <3>1, CallFacts DEF CallState, Go
    <3>3. r.task = t /\ r.seen = call[c].seen
      BY <3>1, CallFacts DEF CallState
    <3>4. t \in Task /\ task'[t] # "inbox"
      BY <2>1 DEF IInv, TypeOK, Movable
    <3>5. CallOK(r)'
      BY <1>0, <1>1, <3>3, <3>4, CallFacts DEF CallOK, Left, Paired, Task, Committed, Advancing
    <3> QED
      BY <3>2, <3>5
  <2>2. CASE task' = task /\ Go(c, "idle")
    <3>1. PICK r : r = [call[c] EXCEPT !.pc = "idle"]
      OBVIOUS
    <3>2. r \in CallState /\ Becomes(c, r)
      BY <2>2, <3>1, CallFacts DEF CallState, Go, Label
    <3>3. r.task = t /\ r.seen = call[c].seen /\ r.pc = "idle"
      BY <3>1, CallFacts DEF CallState
    <3>5. CallOK(r)'
      BY <1>0, <1>1, <3>3, CallFacts DEF CallOK, Left, Paired, Task, Committed, Advancing
    <3> QED
      BY <3>2, <3>5
  <2> QED
    BY <1>0, <2>1, <2>2
<1>4. TypeOK'
  <2>1. (call \in [Caller -> CallState])'
    BY <1>3, BecomesType DEF IInv, TypeOK, CallState, RuntimeState, Task, Label
  <2> QED
    BY <1>0, <1>2, <2>1 DEF IInv, TypeOK, RuntimeState, Task, Stored
<1>5. \A d \in Caller : CallOK(call[d])'
  BY <1>0, <1>1, <1>3, CallsKept, CallFacts
<1>6. (Left(runtime.active) /\ Paired(runtime) /\ runtime.active < nextId)'
  BY <1>0, <1>1 DEF IInv, Left, Paired, Task
<1>7. Known'
  <2>1. t < nextId
    BY CallFacts DEF CallOK
  <2>2. \A u \in Task : u = t \/ task'[u] = task[u]
    BY <1>0 DEF IInv, TypeOK
  <2> QED
    BY <1>0, <2>1, <2>2 DEF IInv, Known, Task
<1> QED
  BY <1>4, <1>5, <1>6, <1>7 DEF IInv

\* A request begins: it holds nothing but the id of a task that was created.
LEMMA BeginStep ==
  ASSUME IInv, NEW c \in Caller, NEW kind, NEW t \in Task,
         NEW first \in Label \ Committed,
         NEW follow \in {"idle", "activate", "run_get"},
         Begin(c, kind, t, first, follow)
  PROVE  IInv'
<1>1. PICK r : r = [pc |-> first, task |-> t, seen |-> Idle, then |-> follow]
  OBVIOUS
<1>2. r \in CallState /\ CallOK(r)
  BY <1>1, RuntimeFacts DEF CallState, CallOK, Begin
<1>3. PICK s : s = runtime
  OBVIOUS
<1> QED
  BY <1>1, <1>2, <1>3, RuntimeFacts, QuietStep DEF Begin

\* CreateTask puts a task into the inbox whose id nobody holds.
LEMMA SubmitStep == ASSUME IInv, NEW c \in Caller, Submit(c) PROVE IInv'
<1>0. /\ UNCHANGED <<runtime, mode, crashes>> /\ nextId \in Task
      /\ task' = [task EXCEPT ![nextId] = "inbox"] /\ nextId' = nextId + 1
      /\ Go(c, "adv_load")
  BY DEF Submit, Moved
<1>1. \A u \in Task : u < nextId /\ task'[u] = "inbox" => task[u] = "inbox"
  BY <1>0, TaskNat DEF IInv, TypeOK
<1>2. task' \in [Task -> Stored \cup {"none", "lost", "torn"}]
  BY <1>0 DEF IInv, TypeOK, Stored
<1>3. nextId \in Nat \ {0} /\ nextId' \in Nat /\ nextId' \in 1..(MaxTasks + 1)
  BY <1>0, TaskRuntimeAssumption DEF Task
<1>4. PICK r : r = [call[c] EXCEPT !.pc = "adv_load"]
  OBVIOUS
<1>5. r \in CallState /\ Becomes(c, r)
  BY <1>0, <1>4, CallFacts DEF CallState, Go, Label
<1>6. r.task = call[c].task /\ r.seen = call[c].seen /\ r.pc = "adv_load"
  BY <1>4, CallFacts DEF CallState
<1>7. CallOK(r)'
  BY <1>0, <1>1, <1>3, <1>6, CallFacts DEF CallOK, Left, Paired, Task, Committed, Advancing
<1>8. TypeOK'
  <2>1. (call \in [Caller -> CallState])'
    BY <1>5, BecomesType DEF IInv, TypeOK, CallState, RuntimeState, Task, Label
  <2> QED
    BY <1>0, <1>2, <1>3, <2>1 DEF IInv, TypeOK, RuntimeState, Task, Stored
<1>9. \A d \in Caller : CallOK(call[d])'
  BY <1>0, <1>1, <1>3, <1>5, <1>7, CallsKept
<1>10. (Left(runtime.active) /\ Paired(runtime) /\ runtime.active < nextId)'
  <2>1. runtime.active \in Nat
    BY TaskNat DEF IInv, TypeOK, RuntimeState
  <2> QED
    BY <1>0, <1>1, <1>3, <2>1 DEF IInv, Left, Paired, Task
<1>11. Known'
  <2>1. \A u \in Task : u = nextId \/ task'[u] = task[u]
    BY <1>0 DEF IInv, TypeOK
  <2>2. \A u \in Task : u < nextId \/ u = nextId => u < nextId'
    BY <1>0, <1>3, TaskNat
  <2> QED
    BY <2>1, <2>2 DEF IInv, Known, Task
<1> QED
  BY <1>8, <1>9, <1>10, <1>11 DEF IInv

LEMMA AdvLoadStep == ASSUME IInv, NEW c \in Caller, AdvLoad(c) PROVE IInv'
<1>1. PICK r : r = IF runtime.active # None
                   THEN [call[c] EXCEPT !.pc = "adv_check", !.seen = runtime]
                   ELSE [call[c] EXCEPT !.pc = "adv_list"]
  OBVIOUS
<1>2. r \in CallState /\ CallOK(r)
  BY <1>1, CallFacts, RuntimeFacts DEF CallState, CallOK, Label, Committed, Advancing
<1>3. Becomes(c, r) /\ UNCHANGED <<task, runtime, mode, nextId, crashes>>
  BY <1>1 DEF AdvLoad
<1>4. PICK s : s = runtime
  OBVIOUS
<1> QED
  BY <1>2, <1>3, <1>4, RuntimeFacts, QuietStep

LEMMA ClearLoadStep == ASSUME IInv, NEW c \in Caller, ClearLoad(c) PROVE IInv'
<1>1. PICK r : r = [call[c] EXCEPT !.pc = "clr_save", !.seen = runtime]
  OBVIOUS
<1>2. call[c].pc = "clr_load" /\ Becomes(c, r)
      /\ UNCHANGED <<task, runtime, mode, nextId, crashes>>
  BY <1>1 DEF ClearLoad, At
<1>3. r \in CallState /\ CallOK(r)
  BY <1>1, <1>2, CallFacts, RuntimeFacts DEF CallState, CallOK, Label, Committed, Advancing
<1>4. PICK s : s = runtime
  OBVIOUS
<1> QED
  BY <1>2, <1>3, <1>4, RuntimeFacts, QuietStep

LEMMA AdvListStep == ASSUME IInv, NEW c \in Caller, AdvList(c) PROVE IInv'
<1>0. UNCHANGED <<task, runtime, mode, nextId, crashes>>
  BY DEF AdvList
<1>1. PICK s : s = runtime
  OBVIOUS
<1>2. ASSUME NEW r \in CallState, CallOK(r), Becomes(c, r) PROVE IInv'
  BY <1>0, <1>1, <1>2, RuntimeFacts, QuietStep
<1>3. CASE Go(c, "idle")
  <2>1. PICK r : r = [call[c] EXCEPT !.pc = "idle"]
    OBVIOUS
  <2>2. r \in CallState /\ CallOK(r) /\ Becomes(c, r)
    BY <1>3, <2>1, CallFacts DEF CallState, CallOK, Label, Committed, Advancing, Go
  <2> QED
    BY <1>2, <2>2
<1>4. ASSUME NEW t \in Pending,
             Becomes(c, [NoCall EXCEPT !.task = t,
                  !.pc = IF task[t] = "inbox" THEN "plan"
                         ELSE IF task[t] = "planned" THEN "activate" ELSE "idle"])
      PROVE  IInv'
  <2>1. PICK l : l = IF task[t] = "inbox" THEN "plan"
                     ELSE IF task[t] = "planned" THEN "activate" ELSE "idle"
    OBVIOUS
  <2>2. PICK r : r = [NoCall EXCEPT !.task = t, !.pc = l]
    OBVIOUS
  <2>3. Becomes(c, r)
    BY <1>4, <2>1, <2>2
  <2>4. t \in Task /\ t < nextId /\ (l \in Committed => task[t] # "inbox")
    BY <2>1 DEF Pending, IInv, Known, Committed
  <2>5. r \in CallState
    BY <2>1, <2>2, <2>4, NoCallType DEF CallState, Label
  <2>6. r.pc = l /\ r.task = t /\ r.seen = Idle
    BY <2>2 DEF NoCall
  <2>7. CallOK(r)
    BY <2>4, <2>6, RuntimeFacts DEF CallOK, Left
  <2> QED
    BY <1>2, <2>3, <2>5, <2>7
<1> QED
  BY <1>3, <1>4, Zenon DEF AdvList

\* What a crash or Recover does to the files.
LEMMA Restart ==
  ASSUME IInv, TypeOK',
         nextId' = nextId,
         \A d \in Caller : call'[d] = call[d] \/ call'[d] = NoCall,
         runtime' \in {runtime, Idle},
         \A t \in Task : task'[t] = task[t] \/ (t < nextId /\ task'[t] # "inbox")
  PROVE  IInv'
<1>1. Known'
  BY DEF IInv, Known, Task
<1>2. (Left(runtime.active) /\ Paired(runtime) /\ runtime.active < nextId)'
  BY RuntimeFacts DEF Left, Paired, Task, Idle
<1>3. ASSUME NEW d \in Caller PROVE CallOK(call[d])'
  <2>1. CallOK(call[d]) /\ CallOK(NoCall)
    BY CallFacts, NoCallOK
  <2> QED
    BY <2>1 DEF CallOK, Left, Paired, Task, Committed, Advancing, NoCall, Idle
<1> QED
  BY <1>1, <1>2, <1>3 DEF IInv

LEMMA CrashStep == ASSUME IInv, Crash PROVE IInv'
<1>1. /\ nextId' = nextId /\ mode' = "boot" /\ crashes' = crashes + 1
      /\ crashes < MaxCrashes /\ call' = [d \in Caller |-> NoCall]
      /\ runtime' \in {runtime, Idle}
  BY DEF Crash
<1>2. \/ task' = task
      \/ \E t \in Task, s \in {"lost", "torn"} :
           t < nextId /\ task' = [task EXCEPT ![t] = s]
  <2>1. ASSUME NEW t \in Task, t < nextId, CrashFiles(t)
        PROVE  \E u \in Task, s \in {"lost", "torn"} :
                 u < nextId /\ task' = [task EXCEPT ![u] = s]
    BY <2>1 DEF CrashFiles, Moved
  <2>2. ASSUME NEW c \in Caller, Movable(call[c].task)
        PROVE  call[c].task \in Task /\ call[c].task < nextId
    BY <2>2, CallFacts DEF Movable, CallOK
  <2>3. runtime.active # None => runtime.active \in Task /\ runtime.active < nextId
    BY DEF IInv, TypeOK, RuntimeState
  <2> QED
    BY <2>1, <2>2, <2>3 DEF Crash
<1>3. task' \in [Task -> Stored \cup {"none", "lost", "torn"}]
  BY <1>2 DEF IInv, TypeOK
<1>4. TypeOK'
  <2>1. (call \in [Caller -> CallState])'
    BY <1>1, NoCallType DEF CallState, RuntimeState, Task, Label
  <2>2. (crashes \in 0..MaxCrashes)'
    BY <1>1, TaskRuntimeAssumption DEF IInv, TypeOK
  <2>3. (runtime \in RuntimeState)'
    BY <1>1, RuntimeFacts DEF RuntimeState, Task
  <2> QED
    BY <1>1, <1>3, <2>1, <2>2, <2>3 DEF IInv, TypeOK, Task, Stored
<1>5. \A t \in Task : task'[t] = task[t] \/ (t < nextId /\ task'[t] # "inbox")
  BY <1>2 DEF IInv, TypeOK
<1> QED
  BY <1>1, <1>4, <1>5, Restart

LEMMA CrashCreatingStep == ASSUME IInv, CrashCreating PROVE IInv'
<1>0. /\ nextId \in Task /\ task' = [task EXCEPT ![nextId] = "torn"]
      /\ nextId' = nextId + 1 /\ mode' = "boot" /\ crashes' = crashes + 1
      /\ crashes < MaxCrashes /\ call' = [d \in Caller |-> NoCall]
      /\ runtime' = runtime
  BY DEF CrashCreating, Moved
<1>1. nextId \in Nat \ {0} /\ nextId' \in Nat /\ nextId' \in 1..(MaxTasks + 1)
  BY <1>0, TaskRuntimeAssumption DEF Task
<1>2. TypeOK'
  <2>1. (call \in [Caller -> CallState])'
    BY <1>0, NoCallType DEF CallState, RuntimeState, Task, Label
  <2>2. (crashes \in 0..MaxCrashes)'
    BY <1>0, TaskRuntimeAssumption DEF IInv, TypeOK
  <2> QED
    BY <1>0, <1>1, <2>1, <2>2 DEF IInv, TypeOK, Task, Stored, RuntimeState
<1>3. Known'
  <2>1. \A u \in Task : u = nextId \/ task'[u] = task[u]
    BY <1>0 DEF IInv, TypeOK
  <2>2. \A u \in Task : u < nextId \/ u = nextId => u < nextId'
    BY <1>0, <1>1, TaskNat
  <2> QED
    BY <2>1, <2>2 DEF IInv, Known, Task
<1>4. (Left(runtime.active) /\ Paired(runtime) /\ runtime.active < nextId)'
  <2>1. runtime.active \in Nat
    BY TaskNat DEF IInv, TypeOK, RuntimeState
  <2> QED
    BY <1>0, <1>1, <2>1 DEF IInv, TypeOK, Left, Paired, Task
<1>5. \A d \in Caller : CallOK(call[d])'
  BY <1>0, <1>1, NoneNotTask
  DEF CallOK, NoCall, Idle, Paired, Left, Committed, Advancing, Task
<1> QED
  BY <1>2, <1>3, <1>4, <1>5 DEF IInv

LEMMA RecoverTaskStep == ASSUME IInv, RecoverTask PROVE IInv'
<1>1. UNCHANGED <<runtime, call, nextId, crashes>> /\ mode' = "boot_save"
  BY DEF RecoverTask
<1>2. \/ task' = task
      \/ /\ runtime.active \in Task /\ runtime.active < nextId
         /\ task' = [task EXCEPT ![runtime.active] = "planned"]
  BY DEF RecoverTask, Moved, IInv, TypeOK, RuntimeState
<1>3. task' \in [Task -> Stored \cup {"none", "lost", "torn"}]
  BY <1>2 DEF IInv, TypeOK, Stored
<1>4. TypeOK'
  BY <1>1, <1>3 DEF IInv, TypeOK, Task, Stored, RuntimeState, CallState, Label
<1>5. \A t \in Task : task'[t] = task[t] \/ (t < nextId /\ task'[t] # "inbox")
  BY <1>2 DEF IInv, TypeOK
<1> QED
  BY <1>1, <1>4, <1>5, Restart

LEMMA RecoverSaveStep == ASSUME IInv, RecoverSave PROVE IInv'
<1>1. UNCHANGED <<task, call, nextId, crashes>> /\ mode' = "up" /\ runtime' = Idle
  BY DEF RecoverSave
<1>2. TypeOK'
  BY <1>1, IdleOK DEF IInv, TypeOK, Task, Stored, RuntimeState, CallState, Label
<1> QED
  BY <1>1, <1>2, Restart

\* The steps of a call, one for each shape.
LEMMA StepStep == ASSUME IInv, NEW c \in Caller, Step(c) PROVE IInv'
<1> USE DEF Label, Committed, Advancing
<1>1. CASE AdvCheck(c)
  BY <1>1, ReadsStep DEF AdvCheck
<1>2. CASE AdvClear(c)
  BY <1>2, SavesStep, RuntimeFacts DEF AdvClear
<1>3. CASE PlanTask(c)
  BY <1>3, MoveStepStep DEF PlanTask, Stored
<1>4. CASE ActivateTask(c)
  BY <1>4, MoveStepStep DEF ActivateTask, Stored
<1>5. CASE ActSave(c)
  <2>1. call[c].pc = "act_save"
    BY <1>5 DEF ActSave, Saves, At
  <2>2. Left(call[c].task) /\ call[c].task \in Task \cup {None} /\ call[c].task < nextId
    BY <2>1, CallFacts DEF CallOK, CallState
  <2>3. PICK s : s = Busy(call[c].task)
    OBVIOUS
  <2>4. s \in RuntimeState /\ s.active = call[c].task /\ s.status = "busy"
    BY <2>2, <2>3 DEF Busy, RuntimeState
  <2>5. call[c].task # None
    BY <2>1, CallFacts, NoneNotTask DEF CallOK
  <2> QED
    BY <1>5, <2>2, <2>3, <2>4, <2>5, SavesStep DEF ActSave, Paired
<1>6. CASE RequeueGet(c)
  BY <1>6, ReadsStep DEF RequeueGet, Got, Requeueable, Left
<1>7. CASE RequeueLoad(c)
  <2>1. Left(call[c].task)
    BY <1>7, CallFacts DEF RequeueLoad, Reads, At, CallOK
  <2> QED
    BY <1>7, <2>1, ReadsStep DEF RequeueLoad
<1>8. CASE RequeueSave(c)
  <2>1. Left(call[c].task)
    BY <1>8, CallFacts DEF RequeueSave, Saves, At, CallOK
  <2> QED
    BY <1>8, <2>1, SavesStep, RuntimeFacts DEF RequeueSave
<1>9. CASE RequeueMove(c)
  BY <1>9, MoveStepStep, CallFacts DEF RequeueMove, CallState, Stored
<1>10. CASE DenyMove(c)
  BY <1>10, MoveStepStep DEF DenyMove, Stored
<1>11. CASE RefuseMove(c)
  BY <1>11, MoveStepStep DEF RefuseMove, Stored
<1>12. CASE RunGet(c)
  BY <1>12, ReadsStep DEF RunGet, Got, Left
<1>13. CASE RunEnd(c)
  BY <1>13, MoveStepStep, ReadsStep DEF RunEnd, Stored
<1>14. CASE ClearSave(c)
  <2>1. PICK s : s = IF call[c].seen.active = call[c].task THEN Idle ELSE call[c].seen
    OBVIOUS
  <2>2. s \in RuntimeState /\ Left(s.active) /\ Paired(s) /\ s.active < nextId
    BY <2>1, RuntimeFacts, CallFacts DEF CallOK
  <2> QED
    BY <1>14, <2>1, <2>2, SavesStep DEF ClearSave
<1> QED
  BY <1>1, <1>2, <1>3, <1>4, <1>5, <1>6, <1>7, <1>8, <1>9, <1>10, <1>11, <1>12,
     <1>13, <1>14, AdvLoadStep, AdvListStep, ClearLoadStep DEF Step

LEMMA BeginsStep ==
  ASSUME IInv, NEW c \in Caller, NEW t \in Task,
         \/ ApproveTask(c, t) \/ GrantTask(c, t) \/ DenyTask(c, t)
         \/ RefuseTask(c, t) \/ RunTask(c, t) \/ WebRunTask(c, t)
  PROVE  IInv'
  BY BeginStep DEF ApproveTask, GrantTask, DenyTask, RefuseTask, RunTask, WebRunTask,
     Label, Committed

LEMMA InitIInv == Init => IInv
<1> SUFFICES ASSUME Init PROVE IInv
  OBVIOUS
<1>1. TypeOK
  BY IdleOK, NoCallType, TaskRuntimeAssumption DEF Init, TypeOK
<1>2. \A c \in Caller : CallOK(call[c])
  BY NoCallOK DEF Init
<1> QED
  BY <1>1, <1>2, IdleOK, NoneNotTask DEF Init, IInv, Known, Left, Idle

LEMMA StepIInv == IInv /\ [Next]_vars => IInv'
<1> SUFFICES ASSUME IInv, [Next]_vars PROVE IInv'
  OBVIOUS
<1>1. CASE UNCHANGED vars
  <2>1. TypeOK'
    BY <1>1 DEF IInv, TypeOK, vars, Task, Stored, RuntimeState, CallState, Label
  <2> QED
    BY <1>1, <2>1, Restart DEF vars
<1> QED
  BY <1>1, SubmitStep, BeginsStep, StepStep, CrashStep, CrashCreatingStep, RecoverTaskStep,
     RecoverSaveStep DEF Next

LEMMA Inductive == Spec => []IInv
  BY InitIInv, StepIInv, PTL DEF Spec

\* The task files, runtime.json and the calls' local state keep their types.
THEOREM TypeCorrect == Spec => []TypeOK
<1>1. IInv => TypeOK
  BY DEF IInv
<1> QED
  BY Inductive, <1>1, PTL

\* No task is run, requeued, activated or named by runtime.json before it was
\* planned: for any number of concurrent requests and crashes.
THEOREM InboxUntouchedHolds == Spec => []InboxUntouched
<1>1. IInv => InboxUntouched
  BY DEF IInv, InboxUntouched, CallOK, Left
<1> QED
  BY Inductive, <1>1, PTL

\* Stale copies of runtime.json never separate the status from the pointer.
THEOREM BusyIffPointedHolds == Spec => []BusyIffPointed
<1>1. IInv => BusyIffPointed
  BY DEF IInv, BusyIffPointed, Paired
<1> QED
  BY Inductive, <1>1, PTL

-----------------------------------------------------------------------------
(***************************************************************************)
(* Recovery                                                                *)
(***************************************************************************)

\* Between the two halves of Recover the task that runtime.json names is no
\* longer active.
BootClean ==
  mode = "boot_save" /\ runtime.active # None => task[runtime.active] # "active"

\* A request is served only while the daemon is up, and leaves it up.
LEMMA ServedUp ==
  ASSUME NEW c \in Caller,
         \/ Submit(c) \/ Step(c)
         \/ \E t \in Task : ApproveTask(c, t) \/ GrantTask(c, t) \/ DenyTask(c, t)
                            \/ RefuseTask(c, t) \/ RunTask(c, t) \/ WebRunTask(c, t)
  PROVE  mode = "up" /\ mode' = "up"
<1>1. ASSUME NEW at, NEW next, Reads(c, at, next) PROVE mode = "up" /\ mode' = "up"
  BY <1>1 DEF Reads, At
<1>2. ASSUME NEW at, NEW r, NEW next, Saves(c, at, r, next)
      PROVE  mode = "up" /\ mode' = "up"
  BY <1>2 DEF Saves, At
<1>3. ASSUME NEW at, NEW s, NEW next, MoveStep(c, at, s, next)
      PROVE  mode = "up" /\ mode' = "up"
  BY <1>3 DEF MoveStep, At
<1>4. ASSUME NEW k, NEW t, NEW f, NEW n, Begin(c, k, t, f, n)
      PROVE  mode = "up" /\ mode' = "up"
  BY <1>4 DEF Begin, At
<1>5. CASE Submit(c)
  BY <1>5 DEF Submit, At
<1>6. CASE Step(c)
  BY <1>1, <1>2, <1>3, <1>6 DEF Step, AdvLoad, AdvCheck, AdvClear, AdvList, PlanTask,
     ActivateTask, ActSave, RequeueGet, RequeueLoad, RequeueSave, RequeueMove,
     DenyMove, RefuseMove, RunGet, RunEnd, ClearLoad, ClearSave, At
<1>7. CASE \E t \in Task : ApproveTask(c, t) \/ GrantTask(c, t) \/ DenyTask(c, t)
                           \/ RefuseTask(c, t) \/ RunTask(c, t) \/ WebRunTask(c, t)
  BY <1>4, <1>7 DEF ApproveTask, GrantTask, DenyTask, RefuseTask, RunTask, WebRunTask
<1> QED
  BY <1>5, <1>6, <1>7

LEMMA BootCleanHolds == Spec => []BootClean
<1>1. Init => BootClean
  BY DEF Init, BootClean
<1>2. IInv /\ BootClean /\ [Next]_vars => BootClean'
  <2> SUFFICES ASSUME IInv, BootClean, [Next]_vars PROVE BootClean'
    OBVIOUS
  <2>1. CASE RecoverTask
    BY <2>1 DEF RecoverTask, BootClean, Moved, IInv, TypeOK, RuntimeState
  <2>2. CASE UNCHANGED vars
    BY <2>2 DEF vars, BootClean
  <2>3. CASE Crash \/ CrashCreating \/ RecoverSave
    BY <2>3 DEF Crash, CrashCreating, RecoverSave, BootClean
  <2> QED
    BY <2>1, <2>2, <2>3, ServedUp DEF Next, BootClean
<1> QED
  BY <1>1, <1>2, Inductive, PTL DEF Spec

\* When the daemon serves again after a crash, runtime.json names no task and
\* the task it named is not left active.
THEOREM RecoveredCleanHolds == Spec => RecoveredClean
<1> DEFINE Clean ==
      mode # "up" /\ mode' = "up" =>
        /\ runtime'.active = None
        /\ runtime.active # None => task'[runtime.active] # "active"
<1>1. BootClean /\ [Next]_vars => [Clean]_vars
  <2> SUFFICES ASSUME BootClean, Next, mode # "up", mode' = "up"
               PROVE  /\ runtime'.active = None
                      /\ runtime.active # None => task'[runtime.active] # "active"
    OBVIOUS
  <2>1. RecoverSave
    BY ServedUp DEF Next, Crash, CrashCreating, RecoverTask
  <2> QED
    BY <2>1 DEF RecoverSave, BootClean, Idle
<1> QED
  BY <1>1, BootCleanHolds, PTL DEF Spec, RecoveredClean

\* runtime.json never names a task that was not planned, and is busy exactly when
\* it names one (activateTask, clearActiveTask, RequeueTask).
THEOREM PointerSoundHolds == Spec => []PointerSound
  BY InboxUntouchedHolds, BusyIffPointedHolds, PTL DEF PointerSound

-----------------------------------------------------------------------------
(***************************************************************************)
(* One caller at a time                                                    *)
(*                                                                         *)
(* Neither result holds with two callers: each step acts on what an        *)
(* earlier one read, and the mutex is free in between.  With one caller,   *)
(* what a call has checked of its task stays true until it moves it        *)
(* (Unfinished), and what it has loaded of runtime.json is what is there   *)
(* (Steady).                                                               *)
(***************************************************************************)

\* Requests come one after the other.
Alone == \A c, d \in Caller : c = d

\* The steps after a check that excludes a finished task.
Checked == {"plan", "activate", "rq_load", "rq_save", "rq_move", "run_end"}

Unfinished == \A c \in Caller : call[c].pc \in Checked => task[call[c].task] # "done"

\* What one call knows of runtime.json and of its task's file.
Steady(q) ==
  /\ q.pc \in {"adv_list", "plan", "activate", "act_save"} => runtime.active = None
  /\ q.pc \in {"adv_check", "adv_clear", "clr_save"} => q.seen = runtime
  /\ q.pc = "adv_clear" /\ runtime.active # None => task[runtime.active] # "active"
  /\ q.pc \in {"clr_load", "clr_save"} => task[q.task] # "active"
  /\ q.pc = "rq_save" => runtime.active = q.task
  /\ q.then # "activate"

\* A call is about to name t in runtime.json, or has just unnamed it.
InHand(t) ==
  /\ mode = "up" /\ runtime.active = None
  /\ \E c \in Caller : call[c].pc \in {"act_save", "rq_move"} /\ call[c].task = t

\* The active tasks that a crash left behind.
Stray == {t \in Task : task[t] = "active" /\ t # runtime.active /\ ~InHand(t)}

OInv ==
  /\ BootClean
  /\ mode # "up" => \A c \in Caller : call[c] = NoCall
  /\ \A c \in Caller : Steady(call[c])
  /\ Cardinality(Stray) <= crashes

LEMMA NoCallIdle ==
  NoCall.pc = "idle" /\ NoCall.then = "idle" /\ NoCall.task = None
  BY DEF NoCall

\* The only call after a step.
LEMMA Sole ==
  ASSUME IInv, Alone, NEW c \in Caller, NEW r, Becomes(c, r)
  PROVE  /\ \A d \in Caller : d = c
         /\ call'[c] = IF r.pc = "idle" THEN NoCall ELSE r
  BY DEF IInv, TypeOK, Becomes, Alone

\* The call record after a step that only changes the label.
LEMMA GoFacts ==
  ASSUME IInv, Alone, NEW c \in Caller, NEW next \in Label, Go(c, next)
  PROVE  /\ \A d \in Caller : d = c
         /\ call'[c].pc = next
         /\ next = "idle" => call'[c] = NoCall
         /\ next # "idle" => /\ call'[c].task = call[c].task
                             /\ call'[c].seen = call[c].seen
                             /\ call'[c].then = call[c].then
  <1>1. PICK r : r = [call[c] EXCEPT !.pc = next] OBVIOUS
  <1>2. /\ r.pc = next /\ r.task = call[c].task
        /\ r.seen = call[c].seen /\ r.then = call[c].then
    BY <1>1, CallFacts DEF CallState
  <1>3. Becomes(c, r) BY <1>1 DEF Go
  <1> QED BY <1>2, <1>3, Sole, NoCallIdle

\* What one MoveTask leaves.
LEMMA MoveFacts ==
  ASSUME IInv, Alone, NEW c \in Caller, NEW at, NEW s, NEW next \in Label,
         MoveStep(c, at, s, next)
  PROVE  /\ mode = "up" /\ call[c].pc = at /\ UNCHANGED <<runtime, mode, nextId, crashes>>
         /\ \/ /\ Movable(call[c].task) /\ Go(c, next)
               /\ task'[call[c].task] = s
               /\ \A u \in Task : u # call[c].task => task'[u] = task[u]
            \/ ~Movable(call[c].task) /\ task' = task /\ Go(c, "idle")
  BY DEF MoveStep, Moved, Movable, IInv, TypeOK, At

LEMMA ReadsDone ==
  ASSUME IInv, Unfinished, Alone, NEW c \in Caller, NEW at, NEW next \in Label,
         next \in Checked => task[call[c].task] # "done",
         \/ Reads(c, at, next)
         \/ \E r : Saves(c, at, r, next)
  PROVE  Unfinished'
  <1>1. Go(c, next) /\ UNCHANGED task BY DEF Reads, Saves
  <1>2. /\ \A d \in Caller : d = c
        /\ call'[c].pc = next
        /\ next # "idle" => call'[c].task = call[c].task
    BY <1>1, GoFacts
  <1> QED BY <1>1, <1>2 DEF Unfinished, Checked

LEMMA MoveDone ==
  ASSUME IInv, Unfinished, Alone, NEW c \in Caller, NEW at, NEW s, NEW next \in Label,
         s # "done" \/ next \notin Checked,
         MoveStep(c, at, s, next)
  PROVE  Unfinished'
  <1>1. CASE /\ Movable(call[c].task) /\ Go(c, next)
             /\ task'[call[c].task] = s
    <2>1. /\ \A d \in Caller : d = c
          /\ call'[c].pc = next
          /\ next # "idle" => call'[c].task = call[c].task
      BY <1>1, GoFacts
    <2> QED BY <2>1, <1>1 DEF Unfinished, Checked
  <1>2. CASE Go(c, "idle")
    <2>1. (\A d \in Caller : d = c) /\ call'[c].pc = "idle"
      BY <1>2, GoFacts DEF Label
    <2> QED BY <2>1 DEF Unfinished, Checked
  <1> QED BY <1>1, <1>2, MoveFacts

\* A step that leaves the call at a label where nothing was checked.
LEMMA OtherDone ==
  ASSUME IInv, Alone, NEW c \in Caller, NEW r, Becomes(c, r), r.pc \notin Checked
  PROVE  Unfinished'
  <1>1. (\A d \in Caller : d = c) /\ call'[c] = IF r.pc = "idle" THEN NoCall ELSE r
    BY Sole
  <1> QED BY <1>1, NoCallIdle DEF Unfinished, Checked

LEMMA StepDone ==
  ASSUME IInv, Unfinished, Alone, NEW c \in Caller, Step(c)
  PROVE  Unfinished'
  <1> USE DEF Label, Checked
  <1>1. CASE AdvLoad(c)
    <2>1. PICK r : r = IF runtime.active # None
                       THEN [call[c] EXCEPT !.pc = "adv_check", !.seen = runtime]
                       ELSE [call[c] EXCEPT !.pc = "adv_list"]
      OBVIOUS
    <2>2. r.pc \in {"adv_check", "adv_list"} BY <2>1, CallFacts DEF CallState
    <2> QED BY <1>1, <2>1, <2>2, OtherDone DEF AdvLoad
  <1>2. CASE AdvList(c)
    <2>0. UNCHANGED task BY <1>2 DEF AdvList
    <2>1. CASE Go(c, "idle")
      <3>1. PICK r : r = [call[c] EXCEPT !.pc = "idle"] OBVIOUS
      <3>2. r.pc = "idle" /\ Becomes(c, r) BY <2>1, <3>1, CallFacts DEF CallState, Go
      <3> QED BY <3>2, OtherDone
    <2>2. ASSUME NEW t \in Pending,
                 Becomes(c, [NoCall EXCEPT !.task = t,
                      !.pc = IF task[t] = "inbox" THEN "plan"
                             ELSE IF task[t] = "planned" THEN "activate" ELSE "idle"])
          PROVE  Unfinished'
      <3>1. PICK r : r = [NoCall EXCEPT !.task = t,
                      !.pc = IF task[t] = "inbox" THEN "plan"
                             ELSE IF task[t] = "planned" THEN "activate" ELSE "idle"]
        OBVIOUS
      <3>2. r.task = t BY <3>1 DEF NoCall
      <3>3. (\A d \in Caller : d = c) /\ call'[c] = IF r.pc = "idle" THEN NoCall ELSE r
        BY <2>2, <3>1, Sole, ZenonT(60)
      <3>4. task[t] # "done" BY DEF Pending
      <3> QED BY <2>0, <3>2, <3>3, <3>4, NoCallIdle DEF Unfinished
    <2> QED BY <1>2, <2>1, <2>2, Zenon DEF AdvList
  <1>3. CASE ClearLoad(c)
    <2>1. PICK r : r = [call[c] EXCEPT !.pc = "clr_save", !.seen = runtime] OBVIOUS
    <2>2. r.pc = "clr_save" BY <2>1, CallFacts DEF CallState
    <2> QED BY <1>3, <2>1, <2>2, OtherDone DEF ClearLoad
  <1>4. CASE AdvCheck(c) BY <1>4, ReadsDone DEF AdvCheck
  <1>5. CASE AdvClear(c) BY <1>5, ReadsDone DEF AdvClear
  <1>6. CASE PlanTask(c) BY <1>6, MoveDone DEF PlanTask
  <1>7. CASE ActivateTask(c) BY <1>7, MoveDone DEF ActivateTask
  <1>8. CASE ActSave(c) BY <1>8, ReadsDone DEF ActSave
  <1>9. CASE RequeueGet(c) BY <1>9, ReadsDone DEF RequeueGet, Got, Requeueable
  <1>10. CASE RequeueLoad(c)
    <2>1. task[call[c].task] # "done"
      BY <1>10 DEF RequeueLoad, Reads, At, Unfinished
    <2> QED BY <1>10, <2>1, ReadsDone DEF RequeueLoad
  <1>11. CASE RequeueSave(c)
    <2>1. task[call[c].task] # "done"
      BY <1>11 DEF RequeueSave, Saves, At, Unfinished
    <2> QED BY <1>11, <2>1, ReadsDone DEF RequeueSave
  <1>12. CASE RequeueMove(c)
    <2>1. call[c].then \in Label BY CallFacts DEF CallState
    <2> QED BY <1>12, <2>1, MoveDone DEF RequeueMove
  <1>13. CASE DenyMove(c) BY <1>13, MoveDone DEF DenyMove
  <1>14. CASE RefuseMove(c) BY <1>14, MoveDone DEF RefuseMove
  <1>15. CASE RunGet(c) BY <1>15, ReadsDone DEF RunGet, Got
  <1>16. CASE RunEnd(c) BY <1>16, MoveDone, ReadsDone DEF RunEnd
  <1>17. CASE ClearSave(c) BY <1>17, ReadsDone DEF ClearSave
  <1> QED BY <1>1, <1>2, <1>3, <1>4, <1>5, <1>6, <1>7, <1>8, <1>9, <1>10, <1>11, <1>12,
             <1>13, <1>14, <1>15, <1>16, <1>17 DEF Step

LEMMA UnfinishedStep ==
  ASSUME Alone
  PROVE  IInv /\ Unfinished /\ [Next]_vars => Unfinished'
  <1> SUFFICES ASSUME IInv, Unfinished, [Next]_vars PROVE Unfinished'
    OBVIOUS
  <1>1. ASSUME NEW c \in Caller, Submit(c) PROVE Unfinished'
    <2>1. PICK r : r = [call[c] EXCEPT !.pc = "adv_load"] OBVIOUS
    <2>2. r.pc = "adv_load" /\ Becomes(c, r)
      BY <1>1, <2>1, CallFacts DEF CallState, Submit, Go
    <2> QED BY <2>2, OtherDone DEF Checked
  <1>2. ASSUME NEW c \in Caller, NEW kind, NEW t, NEW first \in {"rq_get", "run_get", "deny", "refuse"},
               NEW follow, Begin(c, kind, t, first, follow)
        PROVE  Unfinished'
    <2>1. PICK r : r = [pc |-> first, task |-> t, seen |-> Idle, then |-> follow] OBVIOUS
    <2> QED BY <1>2, <2>1, OtherDone DEF Begin, Checked
  <1>3. ASSUME NEW c \in Caller, NEW t \in Task,
               \/ ApproveTask(c, t) \/ GrantTask(c, t) \/ DenyTask(c, t)
               \/ RefuseTask(c, t) \/ RunTask(c, t) \/ WebRunTask(c, t)
        PROVE  Unfinished'
    BY <1>2, <1>3 DEF ApproveTask, GrantTask, DenyTask, RefuseTask, RunTask, WebRunTask
  <1>4. CASE Crash \/ CrashCreating
    BY <1>4, NoCallIdle DEF Crash, CrashCreating, Unfinished, Checked
  <1>5. CASE RecoverTask
    <2>1. UNCHANGED call /\ \A t \in Task : task'[t] = "done" => task[t] = "done"
      BY <1>5 DEF RecoverTask, Moved, IInv, TypeOK
    <2>2. \A c \in Caller : call[c].pc \in Checked => call[c].task \in Task
      BY CallFacts DEF CallOK, Checked, Advancing
    <2> QED BY <2>1, <2>2 DEF Unfinished
  <1>6. CASE RecoverSave BY <1>6 DEF RecoverSave, Unfinished
  <1>7. CASE UNCHANGED vars BY <1>7 DEF vars, Unfinished
  <1> QED BY <1>1, <1>3, <1>4, <1>5, <1>6, <1>7, StepDone DEF Next

\* Only a denial moves a finished task.
LEMMA DoneKept ==
  ASSUME Alone, IInv, Unfinished, Next,
         NEW t \in Task, task[t] = "done", task'[t] # "done"
  PROVE  \E c \in Caller : call[c].pc \in {"deny", "refuse"} /\ call[c].task = t
  <1>1. ASSUME NEW c \in Caller, NEW at, NEW s, NEW next,
               MoveStep(c, at, s, next)
        PROVE  call[c].pc = at /\ call[c].task = t
    BY <1>1 DEF MoveStep, Moved, Movable, IInv, TypeOK, At
  <1>2. ASSUME NEW c \in Caller, Step(c) PROVE call[c].pc \in {"deny", "refuse"} /\ call[c].task = t
    <2>1. ASSUME NEW at \in Checked, NEW s, NEW next, MoveStep(c, at, s, next) PROVE FALSE
      BY <2>1, <1>1 DEF Unfinished
    <2>2. CASE PlanTask(c) \/ ActivateTask(c) \/ RequeueMove(c)
      BY <2>1, <2>2 DEF PlanTask, ActivateTask, RequeueMove, Checked
    <2>3. CASE RunEnd(c) BY <2>1, <2>3 DEF RunEnd, Reads, Checked
    <2>4. CASE DenyMove(c) \/ RefuseMove(c)
      BY <1>1, <2>4 DEF DenyMove, RefuseMove
    <2> QED BY <1>2, <2>2, <2>3, <2>4
         DEF Step, AdvLoad, AdvCheck, AdvClear, AdvList, ActSave, RequeueGet, RequeueLoad,
             RequeueSave, RunGet, ClearLoad, ClearSave, Reads, Saves
  <1>3. nextId \in Task => task[nextId] = "none"
    <2>1. nextId \in Nat BY DEF IInv, TypeOK
    <2> QED BY <2>1 DEF IInv, Known
  <1>4. ASSUME NEW c \in Caller, Submit(c) PROVE FALSE
    BY <1>3, <1>4 DEF Submit, Moved, IInv, TypeOK
  <1>5. ASSUME NEW c \in Caller, NEW u \in Task,
               \/ ApproveTask(c, u) \/ GrantTask(c, u) \/ DenyTask(c, u)
               \/ RefuseTask(c, u) \/ RunTask(c, u) \/ WebRunTask(c, u)
        PROVE  FALSE
    <2>1. ASSUME NEW k, NEW f, NEW n, Begin(c, k, u, f, n) PROVE FALSE
      BY <2>1 DEF Begin
    <2> QED BY <1>5, <2>1 DEF ApproveTask, GrantTask, DenyTask, RefuseTask, RunTask, WebRunTask
  <1>6. CASE CrashCreating BY <1>3, <1>6 DEF CrashCreating, Moved, IInv, TypeOK
  <1>7. CASE RecoverTask BY <1>7 DEF RecoverTask, Moved, IInv, TypeOK
  <1>8. CASE RecoverSave BY <1>8 DEF RecoverSave
  <1>9. CASE Crash
    <2>1. ASSUME NEW u \in Task, CrashFiles(u) PROVE u = t
      BY <2>1 DEF CrashFiles, Moved, IInv, TypeOK
    <2>2. \/ \E c \in Caller : call[c].pc \in Moving /\ Movable(call[c].task)
                               /\ CrashFiles(call[c].task)
          \/ /\ runtime.active # None /\ task[runtime.active] = "active"
             /\ CrashFiles(runtime.active)
      BY <1>9 DEF Crash
    <2>3. CASE /\ runtime.active # None /\ task[runtime.active] = "active"
               /\ CrashFiles(runtime.active)
      <3>1. runtime.active \in Task BY <2>3 DEF IInv, TypeOK, RuntimeState
      <3> QED BY <2>1, <2>3, <3>1
    <2>4. ASSUME NEW c \in Caller, call[c].pc \in Moving, Movable(call[c].task),
                 CrashFiles(call[c].task)
          PROVE  call[c].pc \in {"deny", "refuse"} /\ call[c].task = t
      <3>1. call[c].task = t BY <2>1, <2>4 DEF Movable
      <3> QED BY <2>4, <3>1 DEF Moving, Unfinished, Checked
    <2> QED BY <2>2, <2>3, <2>4
  <1> QED BY <1>2, <1>4, <1>5, <1>6, <1>7, <1>8, <1>9 DEF Next

\* With one caller at a time a finished task stays finished until it is
\* denied, whatever crashes in between (RequeueTask, RunTaskWithProgress).
THEOREM DoneFinalHolds ==
  ASSUME Alone
  PROVE  Spec => DoneFinal
  <1>1. Init => Unfinished BY NoCallIdle DEF Init, Unfinished, Checked
  <1>2. IInv /\ Unfinished /\ [Next]_vars => Unfinished' BY UnfinishedStep
  <1>3. IInv /\ Unfinished /\ [Next]_vars =>
          [\A t \in Task : task[t] = "done" /\ task'[t] # "done" =>
             \E c \in Caller : call[c].pc \in {"deny", "refuse"} /\ call[c].task = t]_vars
    BY DoneKept
  <1> QED BY <1>1, <1>2, <1>3, Inductive, PTL DEF Spec, DoneFinal

-----------------------------------------------------------------------------
(***************************************************************************)
(* Active tasks                                                            *)
(***************************************************************************)

LEMMA StrayFinite ==
  IsFiniteSet(Stray) /\ IsFiniteSet({t \in Task : task[t] = "active"})
  <1>1. IsFiniteSet(Task) BY TaskRuntimeAssumption, FS_Interval DEF Task
  <1> QED BY <1>1, FS_Subset DEF Stray

\* Fewer strays, or one more with another crash, keep the count.
LEMMA StrayFewer ==
  ASSUME Cardinality(Stray) <= crashes, Stray' \subseteq Stray,
         crashes \in Nat, crashes' = crashes
  PROVE  Cardinality(Stray') <= crashes'
  <1>1. PICK S : S = Stray' OBVIOUS
  <1>2. /\ IsFiniteSet(Stray) /\ IsFiniteSet(S)
        /\ Cardinality(S) <= Cardinality(Stray)
    BY <1>1, StrayFinite, FS_Subset
  <1>3. Cardinality(S) \in Nat /\ Cardinality(Stray) \in Nat BY <1>2, FS_CardinalityType
  <1> QED BY <1>1, <1>2, <1>3

LEMMA StrayCrash ==
  ASSUME Cardinality(Stray) <= crashes, NEW x, Stray' \subseteq Stray \cup {x},
         crashes \in Nat, crashes' = crashes + 1
  PROVE  Cardinality(Stray') <= crashes'
  <1>1. PICK S : S = Stray' OBVIOUS
  <1>2. /\ IsFiniteSet(Stray) /\ IsFiniteSet(Stray \cup {x})
        /\ Cardinality(Stray \cup {x}) \in {Cardinality(Stray), Cardinality(Stray) + 1}
    BY StrayFinite, FS_AddElement
  <1>3. IsFiniteSet(S) /\ Cardinality(S) <= Cardinality(Stray \cup {x})
    BY <1>1, <1>2, FS_Subset
  <1>4. Cardinality(S) \in Nat /\ Cardinality(Stray) \in Nat
    BY <1>2, <1>3, FS_CardinalityType
  <1> QED BY <1>1, <1>2, <1>3, <1>4

\* A step of the only call.
LEMMA SoleStep ==
  ASSUME IInv, OInv, NEW c \in Caller, \A d \in Caller : d = c,
         mode = "up", mode' = "up", crashes' = crashes,
         Steady(call[c])', Stray' \subseteq Stray
  PROVE  OInv'
  <1>1. BootClean' BY DEF BootClean
  <1>2. \A d \in Caller : Steady(call[d])' BY DEF Steady
  <1>3. crashes \in Nat BY DEF IInv, TypeOK
  <1> QED BY <1>1, <1>2, <1>3, StrayFewer DEF OInv

\* A task becomes a stray only by becoming active, or by being dropped by
\* runtime.json or by the call that has it in hand.
LEMMA StrayKept ==
  ASSUME mode = "up", mode' = "up",
         \A t \in Task : task'[t] = "active" /\ t # runtime'.active /\ ~InHand(t)' =>
                         /\ task[t] = "active" /\ t # runtime.active /\ ~InHand(t)
  PROVE  Stray' \subseteq Stray
  BY DEF Stray

\* A step that only goes on, or saves s.
LEMMA ReadsOne ==
  ASSUME IInv, OInv, Alone, NEW c \in Caller, NEW at, NEW next \in Label,
         Reads(c, at, next), at \notin {"act_save", "rq_move"},
         next \notin {"adv_list", "plan", "activate", "act_save", "adv_check", "clr_load",
                      "clr_save"},
         next = "adv_clear" =>
           /\ call[c].seen = runtime
           /\ runtime.active # None => task[runtime.active] # "active",
         next = "rq_save" => runtime.active = call[c].task
  PROVE  OInv'
  <1>1. mode = "up" /\ call[c].pc = at /\ UNCHANGED <<task, runtime, mode, crashes>> /\ Go(c, next)
    BY DEF Reads, At
  <1>2. /\ \A d \in Caller : d = c
        /\ call'[c].pc = next
        /\ next = "idle" => call'[c] = NoCall
        /\ next # "idle" => /\ call'[c].task = call[c].task
                            /\ call'[c].seen = call[c].seen
                            /\ call'[c].then = call[c].then
    BY <1>1, GoFacts
  <1>3. Steady(call[c])'
    <2>1. call[c].then # "activate" BY DEF OInv, Steady
    <2> QED BY <1>1, <1>2, <2>1, NoCallIdle DEF Steady
  <1>4. Stray' \subseteq Stray BY <1>1, <1>2, StrayKept DEF InHand
  <1> QED BY <1>1, <1>2, <1>3, <1>4, SoleStep

LEMMA SavesOne ==
  ASSUME IInv, OInv, Alone, NEW c \in Caller, NEW at, NEW next \in {"idle", "adv_list", "rq_move"},
         NEW s, Saves(c, at, s, next),
         next = "adv_list" => s.active = None,
         \A t \in Task : task[t] = "active" /\ t # s.active /\ ~InHand(t)' =>
                         t # runtime.active /\ ~InHand(t)
  PROVE  OInv'
  <1>1. mode = "up" /\ call[c].pc = at /\ runtime' = s /\ UNCHANGED <<task, mode, crashes>>
        /\ Go(c, next)
    BY DEF Saves, At
  <1>2. /\ \A d \in Caller : d = c
        /\ call'[c].pc = next
        /\ next = "idle" => call'[c] = NoCall
        /\ next # "idle" => call'[c].then = call[c].then
    BY <1>1, GoFacts DEF Label
  <1>3. Steady(call[c])'
    <2>1. call[c].then # "activate" BY DEF OInv, Steady
    <2> QED BY <1>1, <1>2, <2>1, NoCallIdle DEF Steady
  <1>4. Stray' \subseteq Stray BY <1>1, StrayKept
  <1> QED BY <1>1, <1>2, <1>3, <1>4, SoleStep

\* One MoveTask: the task is no longer active, or it is now and in hand.
LEMMA MoveOne ==
  ASSUME IInv, OInv, Alone, NEW c \in Caller, NEW at \in Moving, NEW s,
         NEW next \in {"idle", "activate", "act_save", "clr_load", "run_get"},
         MoveStep(c, at, s, next),
         next \in {"activate", "act_save"} => runtime.active = None,
         s = "active" => next = "act_save"
  PROVE  OInv'
  <1>1. /\ mode = "up" /\ call[c].pc = at /\ UNCHANGED <<runtime, mode, nextId, crashes>>
        /\ \/ /\ Movable(call[c].task) /\ Go(c, next)
              /\ task'[call[c].task] = s
              /\ \A u \in Task : u # call[c].task => task'[u] = task[u]
           \/ ~Movable(call[c].task) /\ task' = task /\ Go(c, "idle")
    BY MoveFacts DEF Label
  <1>2. call[c].then # "activate" BY DEF OInv, Steady
  <1>3. call[c].task \in Task BY <1>1, CallFacts DEF CallOK, Moving, Advancing
  <1>4. CASE /\ Movable(call[c].task) /\ Go(c, next)
             /\ task'[call[c].task] = s
             /\ \A u \in Task : u # call[c].task => task'[u] = task[u]
    <2>1. /\ \A d \in Caller : d = c
          /\ call'[c].pc = next
          /\ next = "idle" => call'[c] = NoCall
          /\ next # "idle" => /\ call'[c].task = call[c].task
                              /\ call'[c].then = call[c].then
      BY <1>4, GoFacts DEF Label
    <2>2. Steady(call[c])' BY <1>1, <1>2, <1>4, <2>1, NoCallIdle DEF Steady
    <2>3. ASSUME NEW t \in Task, task'[t] = "active", t # runtime'.active, ~InHand(t)'
          PROVE  task[t] = "active" /\ t # runtime.active /\ ~InHand(t)
      <3>1. CASE t = call[c].task
        <4>1. next = "act_save" BY <3>1, <1>4, <2>3
        <4>2. InHand(t)' BY <4>1, <3>1, <1>1, <2>1 DEF InHand
        <4> QED BY <4>2, <2>3
      <3>2. CASE t # call[c].task BY <3>2, <1>1, <1>4, <2>1, <2>3 DEF InHand
      <3> QED BY <3>1, <3>2
    <2>4. Stray' \subseteq Stray BY <2>3, <1>1, StrayKept
    <2> QED BY <1>1, <2>1, <2>2, <2>4, SoleStep
  <1>5. CASE ~Movable(call[c].task) /\ task' = task /\ Go(c, "idle")
    <2>1. (\A d \in Caller : d = c) /\ call'[c] = NoCall BY <1>5, GoFacts DEF Label
    <2>2. Steady(call[c])' BY <2>1, NoCallIdle DEF Steady
    <2>3. task[call[c].task] # "active" BY <1>3, <1>5 DEF Movable, Stored
    <2>4. Stray' \subseteq Stray BY <1>1, <1>5, <2>1, <2>3, StrayKept DEF InHand
    <2> QED BY <1>1, <2>1, <2>2, <2>4, SoleStep
  <1> QED BY <1>1, <1>4, <1>5

LEMMA StepOne ==
  ASSUME IInv, OInv, Alone, NEW c \in Caller, Step(c)
  PROVE  OInv'
  <1>0. Steady(call[c]) /\ (\A d \in Caller : d = c) BY DEF OInv, Alone
  <1>1. CASE AdvLoad(c)
    <2>1. PICK r : r = IF runtime.active # None
                       THEN [call[c] EXCEPT !.pc = "adv_check", !.seen = runtime]
                       ELSE [call[c] EXCEPT !.pc = "adv_list"]
      OBVIOUS
    <2>2. /\ runtime.active # None => r.pc = "adv_check" /\ r.seen = runtime
          /\ runtime.active = None => r.pc = "adv_list"
          /\ r.then = call[c].then
      BY <2>1, CallFacts DEF CallState
    <2>3. /\ mode = "up" /\ call[c].pc = "adv_load"
          /\ Becomes(c, r) /\ UNCHANGED <<task, runtime, mode, nextId, crashes>>
      BY <1>1, <2>1 DEF AdvLoad, At
    <2>4. call'[c] = r BY <2>2, <2>3, Sole
    <2>5. Steady(call[c])' BY <1>0, <2>2, <2>3, <2>4 DEF Steady
    <2>6. Stray' \subseteq Stray BY <1>0, <2>2, <2>3, <2>4, StrayKept DEF InHand
    <2> QED BY <1>0, <2>3, <2>5, <2>6, SoleStep
  <1>2. CASE AdvList(c)
    <2>0. /\ UNCHANGED <<task, runtime, mode, nextId, crashes>>
          /\ mode = "up" /\ call[c].pc = "adv_list"
      BY <1>2 DEF AdvList, At
    <2>1. runtime.active = None BY <1>0, <2>0 DEF Steady
    <2>2. ASSUME call'[c].pc \in {"idle", "plan", "activate"}, call'[c].then = "idle"
          PROVE  OInv'
      <3>1. Steady(call[c])' BY <2>0, <2>1, <2>2 DEF Steady
      <3>2. Stray' \subseteq Stray BY <1>0, <2>0, <2>2, StrayKept DEF InHand
      <3> QED BY <1>0, <2>0, <3>1, <3>2, SoleStep
    <2>3. CASE Go(c, "idle")
      <3>1. call'[c] = NoCall BY <2>3, GoFacts DEF Label
      <3> QED BY <3>1, <2>2, NoCallIdle
    <2>4. ASSUME NEW t \in Pending,
                 Becomes(c, [NoCall EXCEPT !.task = t,
                      !.pc = IF task[t] = "inbox" THEN "plan"
                             ELSE IF task[t] = "planned" THEN "activate" ELSE "idle"])
          PROVE  OInv'
      <3>1. PICK r : r = [NoCall EXCEPT !.task = t,
                      !.pc = IF task[t] = "inbox" THEN "plan"
                             ELSE IF task[t] = "planned" THEN "activate" ELSE "idle"]
        OBVIOUS
      <3>2. r.pc \in {"idle", "plan", "activate"} /\ r.then = "idle" BY <3>1 DEF NoCall
      <3>3. call'[c] = IF r.pc = "idle" THEN NoCall ELSE r BY <2>4, <3>1, Sole
      <3> QED BY <3>2, <3>3, <2>2, NoCallIdle
    <2> QED BY <1>2, <2>3, <2>4, Zenon DEF AdvList
  <1>3. CASE ClearLoad(c)
    <2>1. PICK r : r = [call[c] EXCEPT !.pc = "clr_save", !.seen = runtime] OBVIOUS
    <2>2. /\ r.pc = "clr_save" /\ r.seen = runtime /\ r.task = call[c].task
          /\ r.then = call[c].then
      BY <2>1, CallFacts DEF CallState
    <2>3. /\ mode = "up" /\ call[c].pc = "clr_load"
          /\ Becomes(c, r) /\ UNCHANGED <<task, runtime, mode, nextId, crashes>>
      BY <1>3, <2>1 DEF ClearLoad, At
    <2>4. call'[c] = r BY <2>2, <2>3, Sole
    <2>5. Steady(call[c])' BY <1>0, <2>2, <2>3, <2>4 DEF Steady
    <2>6. Stray' \subseteq Stray BY <1>0, <2>2, <2>3, <2>4, StrayKept DEF InHand
    <2> QED BY <1>0, <2>3, <2>5, <2>6, SoleStep
  <1>4. CASE AdvCheck(c)
    <2>1. call[c].seen = runtime BY <1>0, <1>4 DEF AdvCheck, Reads, At, Steady
    <2>2. PICK next : next = IF task[call[c].seen.active] \in {"active", "torn"} THEN "idle" ELSE "adv_clear"
      OBVIOUS
    <2> QED BY <1>4, <2>1, <2>2, ReadsOne DEF AdvCheck, Label
  <1>5. CASE AdvClear(c)
    <2>1. mode = "up" /\ call[c].pc = "adv_clear" /\ runtime' = Idle
      BY <1>5 DEF AdvClear, Saves, At
    <2>2. \A t \in Task : task[t] = "active" => t # runtime.active /\ ~InHand(t)
      BY <1>0, <2>1, NoneNotTask DEF Steady, InHand
    <2> QED BY <1>5, <2>2, SavesOne DEF AdvClear, Idle
  <1>6. CASE PlanTask(c)
    <2>1. runtime.active = None BY <1>0, <1>6 DEF PlanTask, MoveStep, At, Steady
    <2> QED BY <1>6, <2>1, MoveOne DEF PlanTask, Moving
  <1>7. CASE ActivateTask(c)
    <2>1. runtime.active = None BY <1>0, <1>7 DEF ActivateTask, MoveStep, At, Steady
    <2> QED BY <1>7, <2>1, MoveOne DEF ActivateTask, Moving
  <1>8. CASE ActSave(c)
    <2>1. mode = "up" /\ call[c].pc = "act_save" BY <1>8 DEF ActSave, Saves, At
    <2>2. Busy(call[c].task).active = call[c].task BY DEF Busy
    <2>3. runtime.active = None BY <1>0, <2>1 DEF Steady
    <2>4. \A t \in Task : t # call[c].task => t # runtime.active /\ ~InHand(t)
      BY <1>0, <2>3, NoneNotTask DEF InHand
    <2> QED BY <1>8, <2>2, <2>4, SavesOne DEF ActSave
  <1>9. CASE RequeueGet(c)
    <2>1. PICK next : next = IF Got(c) \in Requeueable THEN "rq_load" ELSE "idle" OBVIOUS
    <2> QED BY <1>9, <2>1, ReadsOne DEF RequeueGet, Label
  <1>10. CASE RequeueLoad(c)
    <2>1. PICK next : next = IF runtime.active = call[c].task THEN "rq_save" ELSE "rq_move" OBVIOUS
    <2> QED BY <1>10, <2>1, ReadsOne DEF RequeueLoad, Label
  <1>11. CASE RequeueSave(c)
    <2>1. mode = "up" /\ call[c].pc = "rq_save" /\ mode' = "up" /\ Go(c, "rq_move") /\ runtime' = Idle
      BY <1>11 DEF RequeueSave, Saves, At
    <2>2. runtime.active = call[c].task BY <1>0, <2>1 DEF Steady
    <2>3. call'[c].pc = "rq_move" /\ call'[c].task = call[c].task
      BY <2>1, GoFacts DEF Label
    <2>5. \A t \in Task : ~InHand(t)' => t # call[c].task
      BY <2>1, <2>3 DEF InHand, Idle
    <2>6. \A t \in Task : ~InHand(t) BY <1>0, <2>1 DEF InHand
    <2> QED BY <1>11, <2>2, <2>5, <2>6, SavesOne DEF RequeueSave
  <1>12. CASE RequeueMove(c)
    <2>1. call[c].then \in {"idle", "run_get"}
      BY <1>0, CallFacts DEF CallState, Steady
    <2> QED BY <1>12, <2>1, MoveOne DEF RequeueMove, Moving
  <1>13. CASE DenyMove(c) BY <1>13, MoveOne DEF DenyMove, Moving
  <1>14. CASE RefuseMove(c) BY <1>14, MoveOne DEF RefuseMove, Moving
  <1>15. CASE RunGet(c)
    <2>1. PICK next : next = IF Got(c) \in {"planned", "active"} THEN "run_end" ELSE "idle" OBVIOUS
    <2> QED BY <1>15, <2>1, ReadsOne DEF RunGet, Label
  <1>16. CASE RunEnd(c) BY <1>16, MoveOne, ReadsOne DEF RunEnd, Moving, Label
  <1>17. CASE ClearSave(c)
    <2>1. mode = "up" /\ call[c].pc = "clr_save" BY <1>17 DEF ClearSave, Saves, At
    <2>2. call[c].seen = runtime /\ task[call[c].task] # "active"
      BY <1>0, <2>1 DEF Steady
    <2>3. PICK s : s = IF call[c].seen.active = call[c].task THEN Idle ELSE call[c].seen
      OBVIOUS
    <2>4. \A t \in Task : ~InHand(t) BY <1>0, <2>1 DEF InHand
    <2>5. \A t \in Task : task[t] = "active" /\ t # s.active => t # runtime.active
      BY <2>2, <2>3
    <2> QED BY <1>17, <2>3, <2>4, <2>5, SavesOne DEF ClearSave
  <1> QED BY <1>1, <1>2, <1>3, <1>4, <1>5, <1>6, <1>7, <1>8, <1>9, <1>10, <1>11, <1>12,
             <1>13, <1>14, <1>15, <1>16, <1>17 DEF Step

LEMMA BeginOne ==
  ASSUME IInv, OInv, Alone, NEW c \in Caller, NEW kind, NEW t,
         NEW first \in {"rq_get", "run_get", "deny", "refuse"},
         NEW follow \in {"idle", "run_get"}, Begin(c, kind, t, first, follow)
  PROVE  OInv'
  <1>1. PICK r : r = [pc |-> first, task |-> t, seen |-> Idle, then |-> follow] OBVIOUS
  <1>2. /\ mode = "up" /\ call[c].pc = "idle"
        /\ Becomes(c, r) /\ UNCHANGED <<task, runtime, mode, nextId, crashes>>
    BY <1>1 DEF Begin, At
  <1>3. call'[c] = r /\ \A d \in Caller : d = c BY <1>1, <1>2, Sole
  <1>4. r.pc = first /\ r.then = follow BY <1>1
  <1>5. Steady(call[c])' BY <1>3, <1>4 DEF Steady
  <1>6. Stray' \subseteq Stray BY <1>2, <1>3, <1>4, StrayKept DEF InHand
  <1> QED BY <1>2, <1>3, <1>5, <1>6, SoleStep

LEMMA SubmitOne ==
  ASSUME IInv, OInv, Alone, NEW c \in Caller, Submit(c)
  PROVE  OInv'
  <1>1. /\ mode = "up" /\ call[c].pc = "idle" /\ UNCHANGED <<runtime, mode, crashes>>
        /\ task' = [task EXCEPT ![nextId] = "inbox"] /\ Go(c, "adv_load")
    BY DEF Submit, At, Moved
  <1>2. /\ \A d \in Caller : d = c
        /\ call'[c].pc = "adv_load" /\ call'[c].then = call[c].then
    BY <1>1, GoFacts DEF Label
  <1>3. Steady(call[c])' BY <1>2 DEF Steady, OInv
  <1>4. \A t \in Task : task'[t] = "active" => task[t] = "active"
    BY <1>1 DEF IInv, TypeOK
  <1>5. Stray' \subseteq Stray BY <1>1, <1>2, <1>4, StrayKept DEF InHand
  <1> QED BY <1>1, <1>2, <1>3, <1>5, SoleStep

\* At most one active task is not a stray.
LEMMA Named ==
  ASSUME Alone
  PROVE  \E x : \A t \in Task : task[t] = "active" => t \in Stray \cup {x}
  <1>1. CASE \E c \in Caller : InHand(call[c].task)
    <2>1. PICK c \in Caller : InHand(call[c].task) BY <1>1
    <2>2. \A t \in Task : task[t] = "active" => t \in Stray \cup {call[c].task}
      BY <2>1, NoneNotTask DEF Stray, InHand, Alone
    <2> QED BY <2>2
  <1>2. CASE ~\E c \in Caller : InHand(call[c].task)
    <2>1. \A t : ~InHand(t) BY <1>2 DEF InHand
    <2>2. \A t \in Task : task[t] = "active" => t \in Stray \cup {runtime.active}
      BY <2>1 DEF Stray
    <2> QED BY <2>2
  <1> QED BY <1>1, <1>2

\* A crash adds one stray at most: the task in hand, or the one named by the
\* runtime.json it destroys.
LEMMA CrashOne ==
  ASSUME IInv, OInv, Alone, Crash \/ CrashCreating
  PROVE  OInv'
  <1>1. /\ mode' = "boot" /\ \A d \in Caller : call'[d] = NoCall
        /\ crashes' = crashes + 1
    BY DEF Crash, CrashCreating
  <1>2. \A t \in Task : task'[t] = "active" => task[t] = "active"
    BY DEF Crash, CrashCreating, CrashFiles, Moved, IInv, TypeOK
  <1>3. PICK x : \A t \in Task : task[t] = "active" => t \in Stray \cup {x} BY Named
  <1>4. Stray' \subseteq Stray \cup {x} BY <1>2, <1>3 DEF Stray
  <1>5. Cardinality(Stray)' <= crashes'
    <2>1. crashes \in Nat /\ Cardinality(Stray) <= crashes BY DEF IInv, TypeOK, OInv
    <2> QED BY <2>1, <1>1, <1>4, StrayCrash
  <1>6. \A d \in Caller : Steady(call[d])' BY <1>1, NoCallIdle DEF Steady
  <1> QED BY <1>1, <1>5, <1>6 DEF OInv, BootClean

LEMMA RecoverOne ==
  ASSUME IInv, OInv, BootClean', RecoverTask \/ RecoverSave
  PROVE  OInv'
  <1>1. /\ mode # "up" /\ UNCHANGED <<call, crashes>>
        /\ \A d \in Caller : call[d] = NoCall
    BY DEF RecoverTask, RecoverSave, OInv
  <1>2. \A d \in Caller : Steady(call[d])' BY <1>1, NoCallIdle DEF Steady
  <1>3. \A t \in Task : ~InHand(t) /\ ~InHand(t)' BY <1>1, NoCallIdle DEF InHand
  <1>4. CASE RecoverTask
    <2>1. runtime' = runtime /\ mode' # "up" BY <1>4 DEF RecoverTask
    <2>2. \A t \in Task : task'[t] = "active" => task[t] = "active"
      BY <1>4 DEF RecoverTask, Moved, IInv, TypeOK
    <2>3. Stray' \subseteq Stray BY <1>3, <2>1, <2>2 DEF Stray
    <2>4. crashes \in Nat /\ Cardinality(Stray) <= crashes BY DEF IInv, TypeOK, OInv
    <2> QED BY <1>1, <1>2, <2>1, <2>3, <2>4, StrayFewer DEF OInv
  <1>5. CASE RecoverSave
    <2>1. task' = task /\ mode' = "up" /\ mode = "boot_save" BY <1>5 DEF RecoverSave
    <2>2. runtime.active # None => task[runtime.active] # "active"
      BY <2>1 DEF OInv, BootClean
    <2>3. Stray' \subseteq Stray BY <1>3, <2>1, <2>2, NoneNotTask DEF Stray
    <2>4. crashes \in Nat /\ Cardinality(Stray) <= crashes BY DEF IInv, TypeOK, OInv
    <2> QED BY <1>1, <1>2, <2>1, <2>3, <2>4, StrayFewer DEF OInv
  <1> QED BY <1>4, <1>5

LEMMA OneStep ==
  ASSUME Alone, "approve" \notin Calls
  PROVE  IInv /\ OInv /\ [Next]_vars => OInv'
  <1> SUFFICES ASSUME IInv, OInv, [Next]_vars PROVE OInv'
    OBVIOUS
  <1>1. ASSUME NEW c \in Caller, NEW t \in Task,
               \/ ApproveTask(c, t) \/ GrantTask(c, t) \/ DenyTask(c, t)
               \/ RefuseTask(c, t) \/ RunTask(c, t) \/ WebRunTask(c, t)
        PROVE  OInv'
    <2>1. ~ApproveTask(c, t) BY DEF ApproveTask, Begin
    <2> QED BY <1>1, <2>1, BeginOne
         DEF GrantTask, DenyTask, RefuseTask, RunTask, WebRunTask
  <1>2. CASE RecoverTask \/ RecoverSave
    <2>1. BootClean'
      <3>1. CASE RecoverTask
        BY <3>1 DEF RecoverTask, BootClean, Moved, IInv, TypeOK, RuntimeState
      <3>2. CASE RecoverSave BY <3>2 DEF RecoverSave, BootClean
      <3> QED BY <1>2, <3>1, <3>2
    <2> QED BY <1>2, <2>1, RecoverOne
  <1>3. CASE UNCHANGED vars
    BY <1>3 DEF vars, OInv, BootClean, Steady, Stray, InHand, NoCall
  <1> QED BY <1>1, <1>2, <1>3, SubmitOne, StepOne, CrashOne DEF Next

\* With one caller at a time and no ApproveTask, each crash leaves at most one
\* active task that runtime.json does not name, however many there are and
\* whether or not they cut files short (activateTask, RequeueTask,
\* clearActiveTask, Recover).
THEOREM OneActivePerCrashHolds ==
  ASSUME Alone, "approve" \notin Calls
  PROVE  Spec => []OneActivePerCrash
  <1>1. Init => OInv
    <2> SUFFICES ASSUME Init PROVE OInv
      OBVIOUS
    <2>1. Stray = {} BY DEF Init, Stray
    <2>2. \A c \in Caller : Steady(call[c]) BY NoCallIdle DEF Init, Steady
    <2> QED BY <2>1, <2>2, FS_EmptySet DEF Init, OInv, BootClean
  <1>2. IInv /\ OInv /\ [Next]_vars => OInv' BY OneStep
  <1>3. IInv /\ OInv => OneActivePerCrash
    <2> SUFFICES ASSUME IInv, OInv PROVE OneActivePerCrash
      OBVIOUS
    <2>1. PICK A : A = {t \in Task : task[t] = "active"} OBVIOUS
    <2>2. PICK x : \A t \in Task : task[t] = "active" => t \in Stray \cup {x} BY Named
    <2>3. A \subseteq Stray \cup {x} BY <2>1, <2>2
    <2>4. /\ IsFiniteSet(Stray) /\ IsFiniteSet(Stray \cup {x}) /\ Cardinality(Stray) \in Nat
          /\ Cardinality(Stray \cup {x}) \in {Cardinality(Stray), Cardinality(Stray) + 1}
      BY StrayFinite, FS_AddElement, FS_CardinalityType
    <2>5. IsFiniteSet(A) /\ Cardinality(A) <= Cardinality(Stray \cup {x})
      BY <2>3, <2>4, FS_Subset
    <2>6. Cardinality(A) \in Nat BY <2>5, FS_CardinalityType
    <2>7. crashes \in Nat /\ Cardinality(Stray) <= crashes BY DEF IInv, TypeOK, OInv
    <2>8. Cardinality(A) <= 1 + crashes BY <2>4, <2>5, <2>6, <2>7
    <2> QED BY <2>1, <2>8 DEF OneActivePerCrash
  <1> QED BY <1>1, <1>2, <1>3, Inductive, PTL DEF Spec
=============================================================================
