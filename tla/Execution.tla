----------------------------- MODULE Execution -----------------------------
(***************************************************************************)
(* The executor and its action records (internal/execution/executor.go,    *)
(* store.go).  A request that passed authorizeProfile and the checks of    *)
(* command and path becomes an action: it is answered from a completed     *)
(* record with the same idempotency key and fingerprint, or it is recorded *)
(* under running/, attempted, and its record moved to completed/ or        *)
(* failed/.                                                                *)
(*                                                                         *)
(* The store's mutex covers one store operation.  Requests are served      *)
(* concurrently, any write may fail, and the process may die in any step;  *)
(* a record that was being written may be left cut short.  RootExecution   *)
(* has the authorization, and takes one action as one step.                *)
(***************************************************************************)
EXTENDS Naturals, FiniteSets

CONSTANTS
  Caller,      \* the goroutines that serve requests
  Request,     \* the requests clients make
  MaxActions,  \* bound: actions ever started
  MaxErrors,   \* bound: writes that fail
  MaxCrashes   \* bound: crashes

Kind == {"shell", "file-read", "file-write"}

\* key 0 stands for the empty idempotency key; print is the fingerprint of
\* kind, profile and arguments.
ASSUME ExecutionAssumption ==
  /\ IsFiniteSet(Caller)
  /\ Request \subseteq [kind: Kind, key: Nat, print: Nat, attempt: Nat, max: Nat]
  /\ MaxActions \in Nat
  /\ MaxErrors \in Nat
  /\ MaxCrashes \in Nat

\* Ids are action-<UnixNano>.
Action == 1..MaxActions
None == 0

\* The directories of records, in the order findLocked looks at them;
\* nothing is ever put under pending/.
Dir == {"running", "completed", "failed"}
Before(d) ==
  IF d = "running" THEN {} ELSE IF d = "completed" THEN {"running"} ELSE {"running", "completed"}

VARIABLES
  whole,      \* the directories with a complete record of each action
  torn,       \* the directories with a record that is cut short
  made,       \* the request behind each action
  output,     \* the action whose output a record holds
  call,       \* each caller's call
  nextId,     \* the next action's id
  errors,     \* writes that failed so far
  crashes,    \* crashes so far
  tries,      \* ledger: attempts made of each action
  succeeded,  \* ledger: actions with a successful attempt
  reported    \* ledger: actions reported as completed

files == <<whole, torn, output>>
ledgers == <<tries, succeeded, reported>>
vars == <<files, made, call, nextId, errors, crashes, ledgers>>

NoRequest == [kind |-> "none", key |-> 0, print |-> 0, attempt |-> 0, max |-> 0]

\* late: a matching action was completed before the call began.
NoCall == [pc |-> "idle", id |-> None, attempt |-> 0, found |-> None, late |-> FALSE]

Init ==
  /\ whole = [a \in Action |-> {}] /\ torn = [a \in Action |-> {}]
  /\ made = [a \in Action |-> NoRequest] /\ output = [a \in Action |-> None]
  /\ call = [c \in Caller |-> NoCall]
  /\ nextId = 1 /\ errors = 0 /\ crashes = 0
  /\ tries = [a \in Action |-> 0]
  /\ succeeded = {} /\ reported = {}

-----------------------------------------------------------------------------
(***************************************************************************)
(* Requests                                                                *)
(***************************************************************************)

NormalizeAttempt(r) == IF r.attempt > 0 THEN r.attempt ELSE 1
NormalizeMaxAttempts(r) == IF r.max > NormalizeAttempt(r) THEN r.max ELSE NormalizeAttempt(r)

\* What findCompletedByIdempotencyLocked compares; the profile is in print.
Same(q, r) == q.kind = r.kind /\ q.key = r.key /\ q.print = r.print

\* The completed records that answer r.
Completed(r) == {a \in Action : "completed" \in whole[a] /\ Same(made[a], r)}

At(c, pc) == call[c].pc = pc
Goto(c, pc) == call' = [call EXCEPT ![c].pc = pc]
Return(c) == call' = [call EXCEPT ![c] = NoCall]

\* ExecuteShell, ExecuteFileRead, ExecuteFileWrite up to tryReplay.
Execute(c, r) ==
  /\ At(c, "idle")
  /\ nextId \in Action
  /\ nextId' = nextId + 1
  /\ made' = [made EXCEPT ![nextId] = r]
  /\ call' = [call EXCEPT ![c] =
       [pc |-> "replay", id |-> nextId, attempt |-> NormalizeAttempt(r), found |-> None,
        late |-> r.key # 0 /\ Completed(r) # {}]]
  /\ UNCHANGED <<files, errors, crashes, ledgers>>

\* Mutant: tryReplay takes an unreadable record for none.
NoReplayUnread(c) ==
  LET r == made[call[c].id] IN
  /\ At(c, "replay")
  /\ \/ r.key = 0 \/ Completed(r) = {}
     \/ \E a \in Action : "completed" \in torn[a]
  /\ Goto(c, "save")
  /\ UNCHANGED <<files, made, nextId, errors, crashes, ledgers>>

\* tryReplay, first half.
NoReplay(c) ==
  LET r == made[call[c].id] IN
  /\ At(c, "replay")
  /\ r.key = 0 \/ (Completed(r) = {} /\ \A a \in Action : "completed" \notin torn[a])
  /\ Goto(c, "save")
  /\ UNCHANGED <<files, made, nextId, errors, crashes, ledgers>>

\* Mutant: the fingerprint is not compared.
FindCompletedAnyPrint(c) ==
  LET r == made[call[c].id] IN
  /\ At(c, "replay") /\ r.key # 0
  /\ \A a \in Action : "completed" \notin torn[a]
  /\ \E a \in Action :
       /\ "completed" \in whole[a] /\ made[a].kind = r.kind /\ made[a].key = r.key
       /\ call' = [call EXCEPT ![c].pc = "replayed", ![c].found = output[a]]
  /\ UNCHANGED <<files, made, nextId, errors, crashes, ledgers>>

\* The newest of the records found is used; which one that is does not
\* matter here.
FindCompleted(c) ==
  LET r == made[call[c].id] IN
  /\ At(c, "replay") /\ r.key # 0
  /\ \A a \in Action : "completed" \notin torn[a]
  /\ \E a \in Completed(r) :
       call' = [call EXCEPT ![c].pc = "replayed", ![c].found = output[a]]
  /\ UNCHANGED <<files, made, nextId, errors, crashes, ledgers>>

\* A record under completed/ that does not parse ends the search, and the
\* request, with an error.
FindFails(c) ==
  /\ At(c, "replay") /\ made[call[c].id].key # 0
  /\ \E a \in Action : "completed" \in torn[a]
  /\ Return(c)
  /\ UNCHANGED <<files, made, nextId, errors, crashes, ledgers>>

\* tryReplay, second half: the record of the replay is saved as completed.
SaveReplayed(c) ==
  LET a == call[c].id IN
  /\ At(c, "replayed")
  /\ whole' = [whole EXCEPT ![a] = @ \cup {"completed"}]
  /\ output' = [output EXCEPT ![a] = call[c].found]
  /\ reported' = reported \cup {a}
  /\ Return(c)
  /\ UNCHANGED <<torn, made, nextId, errors, crashes, tries, succeeded>>

Save(c) ==
  LET a == call[c].id IN
  /\ At(c, "save")
  /\ whole' = [whole EXCEPT ![a] = @ \cup {"running"}]
  /\ Goto(c, "attempt")
  /\ UNCHANGED <<torn, output, made, nextId, errors, crashes, ledgers>>

\* How an attempt that did not succeed ends, and which end is tried again.
Failure(kind) ==
  IF kind = "shell" THEN {"timeout", "process_exit", "execution_error"}
                    ELSE {"temporary", "io_error"}
Transient == {"timeout", "temporary"}

Tried(c) == tries' = [tries EXCEPT ![call[c].id] = @ + 1]

AttemptSucceeds(c) ==
  LET a == call[c].id IN
  /\ At(c, "attempt")
  /\ Tried(c)
  /\ succeeded' = succeeded \cup {a}
  /\ output' = [output EXCEPT ![a] = a]
  /\ Goto(c, "completed")
  /\ UNCHANGED <<whole, torn, made, nextId, errors, crashes, reported>>

\* Mutant: at the maximum the loop starts over.
AttemptFailsStartsOver(c) ==
  LET a == call[c].id
      r == made[a]
  IN
  /\ At(c, "attempt")
  /\ \E f \in Failure(r.kind) :
       IF f \in Transient
       THEN call' = [call EXCEPT ![c].attempt =
              IF @ < NormalizeMaxAttempts(r) THEN @ + 1 ELSE NormalizeAttempt(r)]
       ELSE Goto(c, "failed")
  /\ UNCHANGED <<files, made, nextId, errors, crashes, ledgers>>

\* shouldRetry: a timeout of a command or a temporary error of a file, while
\* attempts are left.
AttemptFails(c) ==
  LET a == call[c].id
      r == made[a]
  IN
  /\ At(c, "attempt")
  /\ Tried(c)
  /\ \E f \in Failure(r.kind) :
       IF f \in Transient /\ call[c].attempt < NormalizeMaxAttempts(r)
       THEN call' = [call EXCEPT ![c].attempt = @ + 1]
       ELSE Goto(c, "failed")
  /\ UNCHANGED <<files, made, nextId, errors, crashes, succeeded, reported>>

\* The record of a that Move finds and removes: the first file, if it parses.
Removed(a) ==
  {d \in whole[a] : Before(d) \cap (whole[a] \cup torn[a]) = {}}

\* Mutant: the record goes to failed/ whatever the outcome.
MoveToFailed(c, d) ==
  LET a == call[c].id IN
  /\ At(c, d)
  /\ whole' = [whole EXCEPT ![a] = (@ \ Removed(a)) \cup {"failed"}]
  /\ Return(c)
  /\ UNCHANGED <<torn, output, made, nextId, errors, crashes, tries, succeeded, reported>>

\* Store.Move to completed/ or failed/, and the answer.
Move(c, d) ==
  LET a == call[c].id IN
  /\ At(c, d)
  /\ whole' = [whole EXCEPT ![a] = (@ \ Removed(a)) \cup {d}]
  /\ reported' = IF d = "completed" THEN reported \cup {a} ELSE reported
  /\ Return(c)
  /\ UNCHANGED <<torn, output, made, nextId, errors, crashes, tries, succeeded>>

-----------------------------------------------------------------------------
(***************************************************************************)
(* Faults                                                                  *)
(***************************************************************************)

\* What the store operation of c leaves when it fails or dies on its way.
HalfWritten(c) ==
  LET a == call[c].id
      Cut(d) == torn' = [torn EXCEPT ![a] = @ \cup {d}]
  IN
  \/ UNCHANGED <<whole, torn>>
  \/ At(c, "save") /\ Cut("running") /\ UNCHANGED whole
  \/ At(c, "replayed") /\ Cut("completed") /\ UNCHANGED whole
  \/ \E d \in {"completed", "failed"} :
       /\ At(c, d)
       /\ whole' = [whole EXCEPT ![a] = @ \ Removed(a)]
       /\ UNCHANGED torn \/ Cut(d)

\* A write fails and the request ends with an error.
WriteFails(c) ==
  /\ call[c].pc \in {"save", "replayed", "completed", "failed"}
  /\ errors < MaxErrors
  /\ errors' = errors + 1
  /\ HalfWritten(c)
  /\ Return(c)
  /\ UNCHANGED <<output, made, nextId, crashes, ledgers>>

\* The process dies and is started again; nothing looks at old records.
Crash ==
  /\ crashes < MaxCrashes
  /\ crashes' = crashes + 1
  /\ \E c \in Caller : HalfWritten(c)
  /\ call' = [c \in Caller |-> NoCall]
  /\ UNCHANGED <<output, made, nextId, errors, ledgers>>

Step(c) ==
  \/ NoReplay(c) \/ FindCompleted(c) \/ FindFails(c) \/ SaveReplayed(c)
  \/ Save(c) \/ AttemptSucceeds(c) \/ AttemptFails(c)
  \/ \E d \in {"completed", "failed"} : Move(c, d)

Next ==
  \/ \E c \in Caller : Step(c) \/ WriteFails(c) \/ \E r \in Request : Execute(c, r)
  \/ Crash

Spec == Init /\ [][Next]_vars

\* A goroutine that serves a request goes on; an attempt ends (a command has
\* a deadline).
FairSpec == Spec /\ \A c \in Caller : WF_vars(Step(c))

-----------------------------------------------------------------------------
(***************************************************************************)
(* Properties                                                              *)
(***************************************************************************)

Steps == {"replay", "replayed", "save", "attempt", "completed", "failed"}

CallState ==
  [pc: Steps \cup {"idle"}, id: Action \cup {None}, attempt: Nat,
   found: Action \cup {None}, late: BOOLEAN]

\* The types of records, calls and ledgers; a call has an action.
TypeOK ==
  /\ whole \in [Action -> SUBSET Dir] /\ torn \in [Action -> SUBSET Dir]
  /\ made \in [Action -> Request \cup {NoRequest}]
  /\ output \in [Action -> Action \cup {None}]
  /\ call \in [Caller -> CallState]
  /\ \A c \in Caller : call[c].pc # "idle" => call[c].id \in Action
  /\ nextId \in 1..(MaxActions + 1)
  /\ errors \in 0..MaxErrors /\ crashes \in 0..MaxCrashes
  /\ tries \in [Action -> Nat]
  /\ succeeded \subseteq Action /\ reported \subseteq Action

\* An action has one file at most, whatever a failed or interrupted Move
\* leaves, so its status is what List and Get say.
OneFile ==
  \A a \in Action :
    /\ whole[a] \cap torn[a] = {}
    /\ \A d, e \in whole[a] \cup torn[a] : d = e

\* What a completed record says was done: its output comes from an action of
\* the same request that did succeed, and a replay never ran.
OutputHonest ==
  \A a \in Action :
    "completed" \in whole[a] =>
      /\ output[a] \in succeeded
      /\ Same(made[a], made[output[a]])
      /\ output[a] # a => tries[a] = 0 /\ made[a].key # 0

\* A request with an idempotency key whose action was completed before it
\* came is never carried out again, whatever the calls around it do and
\* across failed writes and crashes.
DoneNeverRedone ==
  \A c \in Caller : call[c].late => call[c].pc \in {"replay", "replayed"}

\* What a client was told is completed stays on record as completed.
ReportedKept == \A a \in reported : "completed" \in whole[a]

\* No action is attempted more often than its request allows, also when the
\* client's count starts beyond its maximum.
AttemptsBounded ==
  \A a \in Action :
    tries[a] > 0 =>
      tries[a] + NormalizeAttempt(made[a]) <= NormalizeMaxAttempts(made[a]) + 1

\* The action store tells what was done: OneFile, OutputHonest and
\* ReportedKept.
RecordsHonest == OneFile /\ OutputHonest /\ ReportedKept

\* No request is carried out when it need not be: DoneNeverRedone and
\* AttemptsBounded.
NeverTooOften == DoneNeverRedone /\ AttemptsBounded

\* How often a request with a key can succeed: once in each caller that was
\* past tryReplay when the first record was completed, and again for what a
\* fault kept from being recorded.
RepeatsBounded ==
  \A r \in Request :
    r.key # 0 =>
      Cardinality({a \in succeeded : Same(made[a], r)})
        <= Cardinality(Caller) * (1 + crashes) + errors

\* Every request is answered.
Answered == \A c \in Caller : call[c].pc # "idle" ~> call[c].pc = "idle"
=============================================================================
