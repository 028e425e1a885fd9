----------------------------- MODULE Approvals -----------------------------
(***************************************************************************)
(* The approval store (internal/approval/store.go): the files              *)
(* approvals/<status>/<approval id>.json and the operations on them.       *)
(*                                                                         *)
(* Every operation runs under the store's mutex.  One that changes a       *)
(* record first removes the old file and then writes the new one, so it    *)
(* is two steps here: the step that reads, decides and removes sets `op`   *)
(* (the mutex is held), and Write or WriteLost ends it.  WriteLost is both *)
(* an I/O error of os.WriteFile and a crash of the process: the store      *)
(* keeps nothing in memory, so the two leave the same files behind.        *)
(* A call that returns an error before the removal changes nothing and is  *)
(* no step.                                                                *)
(***************************************************************************)
EXTENDS Naturals

CONSTANTS
  MaxApprovals,  \* bound: how many approvals are ever created
  Profiles,      \* execution profiles
  TTL,           \* Store.defaultTTL
  MaxTime        \* bound: when the clock stops

ASSUME ApprovalsAssumption ==
  /\ MaxApprovals \in Nat
  /\ TTL \in Nat
  /\ MaxTime \in Nat

\* Ids are approval-<UnixNano>: their order is the order of creation, and
\* the order in which os.ReadDir lists a directory.
Approval == 1..MaxApprovals

Status == {"pending", "approved", "denied", "consumed"}

VARIABLES
  whole,     \* whole[a]: the statuses s with a complete approvals/s/a.json
  torn,      \* torn[a]: the statuses s with an approvals/s/a.json cut short
  profile,   \* ExecutionProfile of each record
  token,     \* ApprovalToken in a's file under approved/ (0: none)
  expires,   \* ExpiresAt in a's file under approved/
  nextId,    \* the id the next Create draws
  issued,    \* tokens drawn so far: randomToken never repeats one
  now,       \* time.Now()
  op,        \* the operation that holds the mutex between its two steps
  uses,      \* ledger: how often Consume returned a's record without error
  denied     \* ledger: the approvals for which Deny returned without error

files == <<whole, torn, profile, token, expires, nextId, issued>>
ledger == <<uses, denied>>
vars == <<files, now, op, ledger>>

OpKind == {"create", "approve", "deny", "consume"}

\* The status an operation writes.
Target(k) == IF k = "create" THEN "pending" ELSE IF k = "approve" THEN "approved"
             ELSE IF k = "deny" THEN "denied" ELSE "consumed"

NoOp == [kind |-> "none", id |-> 0, from |-> "none", expires |-> 0]

Free == op = NoOp

\* findLocked looks under pending, approved, denied, consumed in this order.
Before == [pending |-> {}, approved |-> {"pending"},
           denied |-> {"pending", "approved"},
           consumed |-> {"pending", "approved", "denied"}]

\* The directories that hold a file of a.
Where(a) == whole[a] \cup torn[a]

\* The call that holds the mutex is moving a.
InFlight(a) == op.kind # "none" /\ op.id = a

\* findLocked returns a's record, and its status is s.
Found(a, s) ==
  /\ s \in whole[a]
  /\ Before[s] \cap Where(a) = {}

-----------------------------------------------------------------------------

Init ==
  /\ whole = [a \in Approval |-> {}]
  /\ torn = [a \in Approval |-> {}]
  /\ profile = [a \in Approval |-> "none"]
  /\ token = [a \in Approval |-> 0]
  /\ expires = [a \in Approval |-> 0]
  /\ nextId = 1 /\ issued = 0 /\ now = 0
  /\ op = NoOp
  /\ uses = [a \in Approval |-> 0]
  /\ denied = {}

\* Create: a fresh pending record, no file to remove.
Create(p) ==
  /\ Free
  /\ nextId \in Approval
  /\ op' = [kind |-> "create", id |-> nextId, from |-> "none", expires |-> 0]
  /\ profile' = [profile EXCEPT ![nextId] = p]
  /\ nextId' = nextId + 1
  /\ UNCHANGED <<whole, torn, token, expires, issued, now, ledger>>

\* Mutant: Approve leaves the pending file behind.
ApproveKeepsPending(a) ==
  /\ Free
  /\ Found(a, "pending")
  /\ issued' = issued + 1
  /\ op' = [kind |-> "approve", id |-> a, from |-> "pending", expires |-> now + TTL]
  /\ UNCHANGED <<whole, torn, profile, token, expires, nextId, now, ledger>>

\* Approve: only a pending record; draws the token and the deadline.
Approve(a) ==
  /\ Free
  /\ Found(a, "pending")
  /\ issued' = issued + 1
  /\ whole' = [whole EXCEPT ![a] = @ \ {"pending"}]
  /\ op' = [kind |-> "approve", id |-> a, from |-> "pending", expires |-> now + TTL]
  /\ UNCHANGED <<torn, profile, token, expires, nextId, now, ledger>>

\* Mutant: Deny does not look at the status.
DenyAnyStatus(a) ==
  /\ Free
  /\ \E s \in Status :
       /\ Found(a, s)
       /\ whole' = [whole EXCEPT ![a] = @ \ {s}]
       /\ op' = [kind |-> "deny", id |-> a, from |-> s, expires |-> 0]
  /\ UNCHANGED <<torn, profile, token, expires, nextId, issued, now, ledger>>

\* Deny: a pending or an approved record.
Deny(a) ==
  /\ Free
  /\ \E s \in {"pending", "approved"} :
       /\ Found(a, s)
       /\ whole' = [whole EXCEPT ![a] = @ \ {s}]
       /\ op' = [kind |-> "deny", id |-> a, from |-> s, expires |-> 0]
  /\ UNCHANGED <<torn, profile, token, expires, nextId, issued, now, ledger>>

Matches(a, p, t) ==
  /\ "approved" \in whole[a]
  /\ profile[a] = p
  /\ token[a] = t

\* Mutant: Consume writes the consumed record before it removes the approved one.
ConsumeKeepsFile(a, p, t) ==
  /\ Free
  /\ t # 0
  /\ Matches(a, p, t)
  /\ now <= expires[a]
  /\ op' = [kind |-> "consume", id |-> a, from |-> "approved", expires |-> 0]
  /\ UNCHANGED <<files, now, ledger>>

\* Consume scans approved/ in id order and ends at the first match or at the
\* first file it cannot parse.  An expired match is an error that leaves the
\* record approved.
Consume(a, p, t) ==
  /\ Free
  /\ t # 0
  /\ Matches(a, p, t)
  /\ \A b \in Approval : b < a => ~Matches(b, p, t) /\ "approved" \notin torn[b]
  /\ now <= expires[a]
  /\ whole' = [whole EXCEPT ![a] = @ \ {"approved"}]
  /\ op' = [kind |-> "consume", id |-> a, from |-> "approved", expires |-> 0]
  /\ UNCHANGED <<torn, profile, token, expires, nextId, issued, now, ledger>>

\* writeLocked succeeds and the operation returns the record.
Write ==
  /\ op.kind \in OpKind
  /\ whole' = [whole EXCEPT ![op.id] = @ \cup {Target(op.kind)}]
  /\ op' = NoOp
  /\ IF op.kind = "approve"
     THEN /\ token' = [token EXCEPT ![op.id] = issued]
          /\ expires' = [expires EXCEPT ![op.id] = op.expires]
     ELSE UNCHANGED <<token, expires>>
  /\ uses' = [uses EXCEPT ![op.id] = IF op.kind = "consume" THEN @ + 1 ELSE @]
  /\ denied' = IF op.kind = "deny" THEN denied \cup {op.id} ELSE denied
  /\ UNCHANGED <<torn, profile, nextId, issued, now>>

\* The write fails or the process dies: no file, or one that does not parse.
WriteLost ==
  /\ op.kind \in OpKind
  /\ torn' \in {torn, [torn EXCEPT ![op.id] = @ \cup {Target(op.kind)}]}
  /\ op' = NoOp
  /\ UNCHANGED <<whole, profile, token, expires, nextId, issued, now, ledger>>

Tick ==
  /\ now < MaxTime
  /\ now' = now + 1
  /\ UNCHANGED <<files, op, ledger>>

Next ==
  \/ \E p \in Profiles : Create(p)
  \/ \E a \in Approval : Approve(a) \/ Deny(a)
  \/ \E a \in Approval, p \in Profiles, t \in 0..issued : Consume(a, p, t)
  \/ Write
  \/ WriteLost
  \/ Tick

Spec == Init /\ [][Next]_vars

-----------------------------------------------------------------------------
(***************************************************************************)
(* Properties                                                              *)
(***************************************************************************)

Ops == [kind: OpKind, id: Approval, from: Status \cup {"none"}, expires: Nat]
         \cup {NoOp}

\* The types of the store's files, of the operation under the mutex and of
\* the ledgers; tokens written to files were drawn by Approve.
TypeOK ==
  /\ whole \in [Approval -> SUBSET Status]
  /\ torn \in [Approval -> SUBSET Status]
  /\ profile \in [Approval -> Profiles \cup {"none"}]
  /\ token \in [Approval -> Nat]
  /\ \A a \in Approval : token[a] <= issued
  /\ expires \in [Approval -> Nat]
  /\ nextId \in 1..(MaxApprovals + 1)
  /\ issued \in Nat
  /\ now \in Nat
  /\ op \in Ops
  /\ uses \in [Approval -> Nat]
  /\ denied \subseteq Approval

\* Removing the old file before writing the new one keeps every approval in
\* at most one status directory whatever the point at which a call dies; no
\* file is left while the call that moves it is between its two steps, and
\* ids not yet drawn have no file.
OneResidence ==
  \A a \in Approval :
    /\ \A s, r \in Where(a) : s = r
    /\ Where(a) # {} => ~InFlight(a)
    /\ Where(a) # {} \/ InFlight(a) => a < nextId

\* Consume accepts each approval at most once: not for two racing callers,
\* not after a crash in the middle of an earlier Consume.
OneShot == \A a \in Approval : uses[a] <= 1

\* An approval that Deny reported as denied never lets an action through,
\* and none that was used is ever reported as denied.
DeniedNeverUsed == \A a \in denied : uses[a] = 0

\* No two approvals that can be consumed carry the same token, so a token
\* names the one approval a human granted (Consume matches by token only).
TokensDistinct ==
  \A a, b \in Approval :
    /\ "approved" \in whole[a]
    /\ "approved" \in whole[b]
    /\ token[a] = token[b]
    => a = b

\* A record and its token are where one approval is: OneResidence and
\* TokensDistinct.
RecordsSound == OneResidence /\ TokensDistinct

\* What callers are told of an approval's use is so: OneShot and
\* DeniedNeverUsed.
UsedAsGranted == OneShot /\ DeniedNeverUsed

\* Where an approval stands for its callers: its directory, or, while a call
\* is between its two steps, the directory it was removed from.
PhaseOf(a) ==
  IF InFlight(a) THEN op.from
  ELSE IF whole[a] # {} THEN CHOOSE s \in whole[a] : TRUE
  ELSE IF a < nextId THEN "lost" ELSE "none"

Grant == INSTANCE ApprovalGrant
           WITH phase <- [a \in Approval |-> PhaseOf(a)], accepted <- uses

\* The file protocol implements the one-shot capability.
ImplementsGrant == Grant!Spec
=============================================================================
