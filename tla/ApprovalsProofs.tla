-------------------------- MODULE ApprovalsProofs --------------------------
(***************************************************************************)
(* Proofs about approvals: the store (Approvals), for any number of        *)
(* approvals, any profiles and any TTL, and root tasks, which act under    *)
(* them (RootExecution), for any number of callers, tasks and approvals.   *)
(*                                                                         *)
(* OneShot and DeniedNeverUsed are not inductive.  IInv adds what makes    *)
(* them so: an approval has at most one file and none while it is being    *)
(* moved (OneResidence), and one that was used or denied has no file under *)
(* pending/ or approved/ from which it could be used again (Settled).      *)
(***************************************************************************)
EXTENDS Approvals, RootExecution, TLAPS

USE DEF Status, OpKind

LEMMA InitType == Init => TypeOK
  BY ApprovalsAssumption DEF Init, TypeOK, Ops, NoOp, Approval

\* What an operation under the mutex looks like.
LEMMA OpType ==
  ASSUME TypeOK, op.kind # "none"
  PROVE  /\ op.kind \in OpKind /\ op.id \in Approval
         /\ op.from \in Status \cup {"none"} /\ op.expires \in Nat
  BY DEF TypeOK, Ops, NoOp

LEMMA FreeNoOp == Free => op.kind = "none"
  BY DEF Free, NoOp

\* Each action keeps the types; the steps name the variables it changes.
LEMMA CreateType == ASSUME TypeOK, NEW p \in Profiles, Create(p) PROVE TypeOK'
<1>1. (op \in Ops)'
  BY DEF Create, Ops
<1>2. (profile \in [Approval -> Profiles \cup {"none"}])'
  BY DEF Create, TypeOK
<1>3. (nextId \in 1..(MaxApprovals + 1))'
  BY ApprovalsAssumption DEF Create, TypeOK, Approval
<1> QED
  BY <1>1, <1>2, <1>3 DEF Create, TypeOK, ledger

LEMMA ApproveType == ASSUME TypeOK, NEW a \in Approval, Approve(a) PROVE TypeOK'
<1>1. (op \in Ops)'
  BY ApprovalsAssumption DEF Approve, Ops, TypeOK
<1>2. (whole \in [Approval -> SUBSET Status])'
  BY DEF Approve, TypeOK
<1>3. (issued \in Nat /\ \A b \in Approval : token[b] <= issued)'
  BY DEF Approve, TypeOK
<1> QED
  BY <1>1, <1>2, <1>3 DEF Approve, TypeOK, ledger

LEMMA DenyType == ASSUME TypeOK, NEW a \in Approval, Deny(a) PROVE TypeOK'
<1>1. (op \in Ops)'
  BY DEF Deny, Ops
<1>2. (whole \in [Approval -> SUBSET Status])'
  BY DEF Deny, TypeOK
<1> QED
  BY <1>1, <1>2 DEF Deny, TypeOK, ledger

LEMMA ConsumeType ==
  ASSUME TypeOK, NEW a \in Approval, NEW p \in Profiles, NEW t \in 0..issued,
         Consume(a, p, t)
  PROVE  TypeOK'
<1>1. (op \in Ops)'
  BY DEF Consume, Ops
<1>2. (whole \in [Approval -> SUBSET Status])'
  BY DEF Consume, TypeOK
<1> QED
  BY <1>1, <1>2 DEF Consume, TypeOK, ledger

LEMMA WriteType == ASSUME TypeOK, Write PROVE TypeOK'
<1>0. op.id \in Approval /\ op.kind \in OpKind /\ op.expires \in Nat
  BY DEF TypeOK, Write, Ops, NoOp
<1>1. (whole \in [Approval -> SUBSET Status])'
  BY <1>0 DEF TypeOK, Write, Target
<1>2. (token \in [Approval -> Nat] /\ \A a \in Approval : token[a] <= issued)'
  <2>1. CASE op.kind = "approve"
    BY <1>0, <2>1 DEF TypeOK, Write
  <2>2. CASE op.kind # "approve"
    BY <2>2 DEF TypeOK, Write
  <2> QED
    BY <2>1, <2>2
<1>3. (expires \in [Approval -> Nat])'
  BY <1>0 DEF TypeOK, Write
<1>4. (uses \in [Approval -> Nat] /\ denied \subseteq Approval)'
  BY <1>0 DEF TypeOK, Write
<1>5. (op \in Ops)'
  BY DEF Write, NoOp, Ops
<1> QED
  BY <1>1, <1>2, <1>3, <1>4, <1>5 DEF Write, TypeOK

LEMMA WriteLostType == ASSUME TypeOK, WriteLost PROVE TypeOK'
<1>0. op.id \in Approval /\ op.kind \in OpKind
  BY DEF TypeOK, WriteLost, Ops, NoOp
<1>1. (torn \in [Approval -> SUBSET Status])'
  BY <1>0 DEF TypeOK, WriteLost, Target
<1>2. (op \in Ops)'
  BY DEF WriteLost, NoOp, Ops
<1> QED
  BY <1>1, <1>2 DEF WriteLost, TypeOK, ledger

LEMMA TickType == ASSUME TypeOK, Tick PROVE TypeOK'
  BY DEF TypeOK, Tick, files, ledger, Ops, NoOp, Approval

LEMMA StepType == TypeOK /\ [Next]_vars => TypeOK'
<1> SUFFICES ASSUME TypeOK, [Next]_vars PROVE TypeOK'
  OBVIOUS
<1>1. CASE UNCHANGED vars
  BY <1>1 DEF TypeOK, vars, files, ledger, Ops, NoOp, Approval
<1> QED
  BY <1>1, CreateType, ApproveType, DenyType, ConsumeType, WriteType,
     WriteLostType, TickType DEF Next

\* The store's files, its pending operation and the ledgers keep their types.
THEOREM TypeCorrect == Spec => []TypeOK
  BY InitType, StepType, PTL DEF Spec

-----------------------------------------------------------------------------
(***************************************************************************)
(* Safety                                                                  *)
(***************************************************************************)

\* One approval's share of the inductive invariant: one file at most, none
\* while the approval is being moved; and once it was used or denied, none
\* under pending/ or approved/ from which it could be used again.
Safe(a) ==
  /\ \A s, r \in Where(a) : s = r
  /\ whole[a] \cap torn[a] = {}
  /\ Where(a) # {} => ~InFlight(a)
  /\ Where(a) # {} \/ InFlight(a) => a < nextId
  /\ uses[a] \in {0, 1}
  /\ uses[a] = 1 \/ a \in denied =>
       /\ "pending" \notin Where(a) /\ "approved" \notin Where(a)
       /\ ~InFlight(a)
       /\ a < nextId
  /\ uses[a] = 1 => a \notin denied

\* Tokens in files are older than the one Approve has drawn but not written.
TokensOld == op.kind = "approve" => \A a \in Approval : token[a] < issued

IInv ==
  /\ TypeOK
  /\ \A a \in Approval : Safe(a)
  /\ TokensOld
  /\ TokensDistinct

LEMMA InitIInv == Init => IInv
<1> SUFFICES ASSUME Init PROVE IInv
  OBVIOUS
<1>1. op.kind = "none"
  BY DEF Init, NoOp
<1>2. \A a \in Approval : Where(a) = {} /\ uses[a] = 0 /\ whole[a] = {}
  BY DEF Init, Where
<1>3. denied = {}
  BY DEF Init
<1> QED
  BY InitType, <1>1, <1>2, <1>3
  DEF IInv, Safe, TokensOld, TokensDistinct, InFlight

\* A step that does not touch b's files and ledgers, and does not take b in
\* hand, keeps b safe.
LEMMA Untouched ==
  ASSUME TypeOK, TypeOK', NEW b \in Approval, Safe(b),
         whole'[b] = whole[b], torn'[b] = torn[b], uses'[b] = uses[b],
         b \in denied' <=> b \in denied,
         nextId' >= nextId,
         InFlight(b)' => InFlight(b)
  PROVE  Safe(b)'
<1>1. Where(b)' = Where(b)
  BY DEF Where
<1>2. b < nextId => b < nextId'
  BY DEF TypeOK, Approval
<1> QED
  BY <1>1, <1>2 DEF Safe

\* A step that takes b in hand and removes its only file keeps b safe.
LEMMA Taken ==
  ASSUME NEW b \in Approval,
         Where(b)' = {}, uses'[b] = 0, b \notin denied', b < nextId'
  PROVE  Safe(b)'
  BY DEF Safe, Where

\* Tokens stay distinct when no file appears under approved/.
LEMMA TokensKept ==
  ASSUME TokensDistinct, token' = token,
         \A b \in Approval : "approved" \in whole'[b] => "approved" \in whole[b]
  PROVE  TokensDistinct'
  BY DEF TokensDistinct, Approval

LEMMA CreateStep == ASSUME IInv, NEW p \in Profiles, Create(p) PROVE IInv'
<1>1. TypeOK'
  BY CreateType DEF IInv
<1>2. nextId' = nextId + 1 /\ nextId \in Nat
  BY ApprovalsAssumption DEF Create, IInv, TypeOK
<1>3. ASSUME NEW b \in Approval PROVE Safe(b)'
  <2>1. whole'[b] = whole[b] /\ torn'[b] = torn[b] /\ uses' = uses /\ denied' = denied
    BY DEF Create, ledger
  <2>2. CASE b = nextId
    <3>1. b \in Nat /\ ~(b < nextId) /\ b < nextId'
      BY <1>2, <2>2
    <3>2. Where(b)' = {} /\ uses[b] = 0 /\ b \notin denied
      BY <2>1, <3>1 DEF IInv, Safe, Where
    <3> QED
      BY <2>1, <3>1, <3>2, Taken
  <2>3. CASE b # nextId
    BY <1>1, <1>2, <2>1, <2>3, Untouched DEF IInv, Create, InFlight
  <2> QED
    BY <2>2, <2>3
<1>4. TokensOld'
  BY DEF Create, TokensOld
<1>5. TokensDistinct'
  BY TokensKept DEF Create, IInv
<1> QED
  BY <1>1, <1>3, <1>4, <1>5 DEF IInv

\* Approve, Deny and Consume begin alike: with the mutex free they remove the
\* file of one approval from pending/ or approved/ and take it in hand.
LEMMA RemovalSafe ==
  ASSUME IInv, TypeOK', NEW a \in Approval, NEW s \in {"pending", "approved"},
         op.kind = "none", op'.id = a, s \in whole[a],
         whole' = [whole EXCEPT ![a] = @ \ {s}],
         nextId' = nextId, torn' = torn, uses' = uses, denied' = denied,
         token' = token
  PROVE  (\A b \in Approval : Safe(b)') /\ TokensDistinct'
<1>1. ASSUME NEW b \in Approval PROVE Safe(b)'
  <2>1. CASE b = a
    <3>1. Where(a) = {s}
      BY DEF IInv, TypeOK, Safe, Where
    <3>2. torn[a] = {}
      BY <3>1 DEF IInv, Safe, Where
    <3>3. Where(a)' = {}
      BY <3>1, <3>2 DEF IInv, TypeOK, Where
    <3>4. uses[a] = 0 /\ a \notin denied /\ a < nextId
      BY <3>1 DEF IInv, Safe
    <3> QED
      BY <2>1, <3>3, <3>4, Taken
  <2>2. CASE b # a
    <3>1. whole'[b] = whole[b]
      BY <2>2 DEF IInv, TypeOK
    <3>2. nextId' >= nextId
      BY DEF IInv, TypeOK
    <3> QED
      BY <2>2, <3>1, <3>2, Untouched DEF IInv, InFlight
  <2> QED
    BY <2>1, <2>2
<1>2. TokensDistinct'
  BY TokensKept DEF IInv, TypeOK
<1> QED
  BY <1>1, <1>2

LEMMA ApproveStep == ASSUME IInv, NEW a \in Approval, Approve(a) PROVE IInv'
<1>1. TypeOK'
  BY ApproveType DEF IInv
<1>2. (\A b \in Approval : Safe(b)') /\ TokensDistinct'
  BY <1>1, FreeNoOp, RemovalSafe DEF Approve, Found, ledger
<1>3. TokensOld'
  BY DEF Approve, TokensOld, IInv, TypeOK
<1> QED
  BY <1>1, <1>2, <1>3 DEF IInv

LEMMA DenyStep == ASSUME IInv, NEW a \in Approval, Deny(a) PROVE IInv'
<1>1. TypeOK'
  BY DenyType DEF IInv
<1>2. PICK s \in {"pending", "approved"} :
        /\ Found(a, s)
        /\ whole' = [whole EXCEPT ![a] = @ \ {s}]
        /\ op' = [kind |-> "deny", id |-> a, from |-> s, expires |-> 0]
  BY Zenon DEF Deny
<1>3. (\A b \in Approval : Safe(b)') /\ TokensDistinct'
  BY <1>1, <1>2, FreeNoOp, RemovalSafe DEF Deny, Found, ledger
<1>4. TokensOld'
  BY <1>2 DEF TokensOld
<1> QED
  BY <1>1, <1>3, <1>4 DEF IInv

LEMMA ConsumeStep ==
  ASSUME IInv, NEW a \in Approval, NEW p \in Profiles, NEW t \in 0..issued,
         Consume(a, p, t)
  PROVE  IInv'
<1>1. TypeOK'
  BY ConsumeType DEF IInv
<1>2. (\A b \in Approval : Safe(b)') /\ TokensDistinct'
  BY <1>1, FreeNoOp, RemovalSafe DEF Consume, Matches, ledger
<1>3. TokensOld'
  BY DEF Consume, TokensOld
<1> QED
  BY <1>1, <1>2, <1>3 DEF IInv

LEMMA WriteStep == ASSUME IInv, Write PROVE IInv'
<1>1. TypeOK'
  BY WriteType DEF IInv
<1>2. op.id \in Approval /\ op.kind \in OpKind /\ op.kind # "none"
  BY DEF IInv, TypeOK, Write, Ops, NoOp
<1>3. op'.kind = "none" /\ nextId' = nextId /\ torn' = torn /\ issued' = issued
  BY DEF Write, NoOp
<1>4. whole' = [whole EXCEPT ![op.id] = @ \cup {Target(op.kind)}]
  BY DEF Write
<1>5. Safe(op.id) /\ InFlight(op.id)
  BY <1>2 DEF IInv, InFlight
<1>6. Where(op.id) = {} /\ uses[op.id] = 0 /\ op.id \notin denied /\ op.id < nextId
  BY <1>5 DEF Safe
<1>7. ASSUME NEW b \in Approval PROVE Safe(b)'
  <2>1. CASE b = op.id
    <3>1. whole'[b] = {Target(op.kind)} /\ torn'[b] = {}
      BY <1>2, <1>3, <1>4, <1>6, <2>1 DEF IInv, TypeOK, Where
    <3>2. Where(b)' = {Target(op.kind)} /\ ~InFlight(b)'
      BY <1>3, <3>1 DEF Where, InFlight
    <3>3. CASE op.kind = "consume"
      <4>1. uses'[b] = 1 /\ b \notin denied' /\ Target(op.kind) = "consumed"
        BY <1>2, <1>6, <2>1, <3>3 DEF Write, IInv, TypeOK, Target
      <4> QED
        BY <1>3, <1>6, <2>1, <3>1, <3>2, <4>1 DEF Safe
    <3>4. CASE op.kind = "deny"
      <4>1. uses'[b] = 0 /\ Target(op.kind) = "denied"
        BY <1>2, <1>6, <2>1, <3>4 DEF Write, IInv, TypeOK, Target
      <4> QED
        BY <1>3, <1>6, <2>1, <3>1, <3>2, <4>1 DEF Safe
    <3>5. CASE op.kind \notin {"consume", "deny"}
      <4>1. uses'[b] = 0 /\ b \notin denied'
        BY <1>2, <1>6, <2>1, <3>5 DEF Write, IInv, TypeOK
      <4> QED
        BY <1>3, <1>6, <2>1, <3>1, <3>2, <4>1 DEF Safe
    <3> QED
      BY <3>3, <3>4, <3>5
  <2>2. CASE b # op.id
    <3>1. whole'[b] = whole[b] /\ nextId' >= nextId
      BY <1>3, <1>4, <2>2 DEF IInv, TypeOK
    <3>2. uses'[b] = uses[b] /\ (b \in denied' <=> b \in denied)
      BY <1>2, <2>2 DEF Write, IInv, TypeOK
    <3> QED
      BY <1>1, <1>3, <3>1, <3>2, Untouched DEF IInv, InFlight
  <2> QED
    BY <2>1, <2>2
<1>8. TokensOld'
  BY <1>3 DEF TokensOld
<1>9. TokensDistinct'
  <2>1. CASE op.kind = "approve"
    <3>1. \A b \in Approval : token'[b] = IF b = op.id THEN issued ELSE token[b]
      BY <1>2, <2>1 DEF Write, IInv, TypeOK
    <3>2. \A b \in Approval : token[b] < issued
      BY <2>1 DEF IInv, TokensOld
    <3>3. \A b \in Approval : b # op.id => whole'[b] = whole[b]
      BY <1>4 DEF IInv, TypeOK
    <3>4. issued \in Nat /\ \A b \in Approval : token[b] \in Nat
      BY DEF IInv, TypeOK
    <3>5. \A b \in Approval : token[b] # issued
      BY <3>2, <3>4
    <3> QED
      BY <3>1, <3>3, <3>5 DEF IInv, TokensDistinct, Approval
  <2>2. CASE op.kind # "approve"
    <3>1. token' = token
      BY <2>2 DEF Write
    <3>2. Target(op.kind) # "approved"
      BY <1>2, <2>2 DEF Target
    <3> QED
      BY <1>2, <1>4, <3>1, <3>2, TokensKept DEF IInv, TypeOK
  <2> QED
    BY <2>1, <2>2
<1> QED
  BY <1>1, <1>7, <1>8, <1>9 DEF IInv

LEMMA WriteLostStep == ASSUME IInv, WriteLost PROVE IInv'
<1>1. TypeOK'
  BY WriteLostType DEF IInv
<1>2. op.id \in Approval /\ op.kind \in OpKind /\ op.kind # "none"
  BY DEF IInv, TypeOK, WriteLost, Ops, NoOp
<1>3. /\ op'.kind = "none" /\ nextId' = nextId /\ whole' = whole
      /\ token' = token /\ uses' = uses /\ denied' = denied
  BY DEF WriteLost, NoOp, ledger
<1>4. Safe(op.id) /\ InFlight(op.id)
  BY <1>2 DEF IInv, InFlight
<1>5. Where(op.id) = {} /\ uses[op.id] = 0 /\ op.id \notin denied /\ op.id < nextId
  BY <1>4 DEF Safe
<1>6. ASSUME NEW b \in Approval PROVE Safe(b)'
  <2>1. CASE b = op.id
    <3>1. whole'[b] = {} /\ torn'[b] \subseteq {Target(op.kind)}
      BY <1>2, <1>3, <1>5, <2>1 DEF WriteLost, IInv, TypeOK, Where
    <3>2. Where(b)' \subseteq {Target(op.kind)} /\ ~InFlight(b)'
      BY <1>3, <3>1 DEF Where, InFlight
    <3> QED
      BY <1>3, <1>5, <2>1, <3>1, <3>2 DEF Safe
  <2>2. CASE b # op.id
    <3>1. torn'[b] = torn[b] /\ nextId' >= nextId
      BY <1>3, <2>2 DEF WriteLost, IInv, TypeOK
    <3> QED
      BY <1>1, <1>3, <3>1, Untouched DEF IInv, InFlight
  <2> QED
    BY <2>1, <2>2
<1>7. TokensOld'
  BY <1>3 DEF TokensOld
<1>8. TokensDistinct'
  BY <1>3, TokensKept DEF IInv
<1> QED
  BY <1>1, <1>6, <1>7, <1>8 DEF IInv

\* A step of the clock, and a stuttering step, leave files and ledgers alone.
LEMMA IdleStep ==
  ASSUME IInv, TypeOK', UNCHANGED <<files, op, ledger>>
  PROVE  IInv'
<1>1. /\ whole' = whole /\ torn' = torn /\ token' = token /\ issued' = issued
      /\ nextId' = nextId /\ op' = op /\ uses' = uses /\ denied' = denied
  BY DEF files, ledger
<1>2. nextId' >= nextId
  BY <1>1 DEF IInv, TypeOK
<1>3. ASSUME NEW b \in Approval PROVE Safe(b)'
  BY <1>1, <1>2, Untouched DEF IInv, InFlight
<1>4. TokensOld'
  BY <1>1 DEF IInv, TokensOld, Approval
<1>5. TokensDistinct'
  BY <1>1, TokensKept DEF IInv
<1> QED
  BY <1>3, <1>4, <1>5 DEF IInv

LEMMA StepIInv == IInv /\ [Next]_vars => IInv'
<1> SUFFICES ASSUME IInv, [Next]_vars PROVE IInv'
  OBVIOUS
<1>1. CASE Tick
  BY <1>1, IdleStep, TickType DEF Tick, IInv
<1>2. CASE UNCHANGED vars
  BY <1>2, IdleStep, StepType DEF vars, IInv
<1> QED
  BY <1>1, <1>2, CreateStep, ApproveStep, DenyStep, ConsumeStep, WriteStep,
     WriteLostStep DEF Next

LEMMA Inductive == Spec => []IInv
  BY InitIInv, StepIInv, PTL DEF Spec

\* Each approval is in at most one status directory, in none while a call is
\* moving it (store.go removes before it writes).
THEOREM OneResidenceHolds == Spec => []OneResidence
<1>1. IInv => OneResidence
  BY DEF IInv, Safe, OneResidence
<1> QED
  BY Inductive, <1>1, PTL

\* Consume lets each approval through at most once, whatever the callers'
\* order and wherever a call dies.
THEOREM OneShotHolds == Spec => []OneShot
<1>1. IInv => OneShot
  BY DEF IInv, Safe, OneShot
<1> QED
  BY Inductive, <1>1, PTL

\* An approval reported as denied never lets an action through.
THEOREM DeniedNeverUsedHolds == Spec => []DeniedNeverUsed
<1>1. IInv => DeniedNeverUsed
  BY DEF IInv, TypeOK, Safe, DeniedNeverUsed
<1> QED
  BY Inductive, <1>1, PTL

\* A token names one approval.
THEOREM TokensDistinctHolds == Spec => []TokensDistinct
<1>1. IInv => TokensDistinct
  BY DEF IInv
<1> QED
  BY Inductive, <1>1, PTL

-----------------------------------------------------------------------------
(***************************************************************************)
(* Refinement                                                              *)
(***************************************************************************)

\* The status a call took its approval from fits the call.
FromFits ==
  /\ op.kind = "create" => op.from = "none"
  /\ op.kind = "approve" => op.from = "pending"
  /\ op.kind = "deny" => op.from \in {"pending", "approved"}
  /\ op.kind = "consume" => op.from = "approved"

LEMMA FromFitsHolds == Spec => []FromFits
<1>1. Init => FromFits
  BY DEF Init, NoOp, FromFits
<1>2. FromFits /\ [Next]_vars => FromFits'
  BY DEF FromFits, Next, vars, Create, Approve, Deny, Consume, Write, WriteLost,
         Tick, NoOp
<1> QED
  BY <1>1, <1>2, PTL DEF Spec

\* A step that leaves b's files and its being in flight alone does not move b.
LEMMA PhaseKept ==
  ASSUME NEW b, whole'[b] = whole[b], ~InFlight(b), ~InFlight(b)',
         b < nextId' <=> b < nextId
  PROVE  PhaseOf(b)' = PhaseOf(b)
  BY DEF PhaseOf

\* Taking an approval in hand is invisible: it counts as where it was.
LEMMA RemovalInvisible ==
  ASSUME IInv, NEW a \in Approval, NEW s \in {"pending", "approved"},
         op.kind = "none", op'.kind # "none", op'.id = a, op'.from = s,
         s \in whole[a],
         whole' = [whole EXCEPT ![a] = @ \ {s}], nextId' = nextId
  PROVE  \A b \in Approval : PhaseOf(b)' = PhaseOf(b)
<1> SUFFICES ASSUME NEW b \in Approval PROVE PhaseOf(b)' = PhaseOf(b)
  OBVIOUS
<1>1. CASE b = a
  <2>1. whole[a] = {s}
    BY DEF IInv, TypeOK, Safe, Where
  <2>2. PhaseOf(a) = s
    BY <2>1 DEF PhaseOf, InFlight
  <2>3. PhaseOf(a)' = s
    BY DEF PhaseOf, InFlight
  <2> QED
    BY <1>1, <2>2, <2>3
<1>2. CASE b # a
  <2>1. whole'[b] = whole[b] /\ ~InFlight(b) /\ ~InFlight(b)'
    BY <1>2 DEF IInv, TypeOK, InFlight
  <2> QED
    BY <2>1, PhaseKept
<1> QED
  BY <1>1, <1>2

\* When the call ends, the approval it moves is the only one whose place
\* changes, and it leaves the place it was taken from.
LEMMA EndMoves ==
  ASSUME IInv, op.kind # "none", op' = NoOp, nextId' = nextId,
         NEW o \in Approval, o = op.id,
         \A b \in Approval : b # o => whole'[b] = whole[b],
         NEW s, whole'[o] = {s} \/ (whole'[o] = {} /\ s = "lost")
  PROVE  /\ PhaseOf(o) = op.from
         /\ PhaseOf(o)' = s
         /\ \A b \in Approval : b # o => PhaseOf(b)' = PhaseOf(b)
<1>1. op'.kind = "none"
  BY DEF NoOp
<1>2. PhaseOf(o) = op.from
  BY DEF PhaseOf, InFlight
<1>3. ~InFlight(o)' /\ o < nextId'
  BY <1>1 DEF IInv, Safe, InFlight
<1>4. PhaseOf(o)' = s
  <2>1. CASE whole'[o] = {s}
    <3>1. (CHOOSE r \in {s} : TRUE) = s
      OBVIOUS
    <3>2. PhaseOf(o)' = CHOOSE r \in whole'[o] : TRUE
      BY <1>3, <2>1 DEF PhaseOf
    <3> QED
      BY <2>1, <3>1, <3>2
  <2>2. CASE whole'[o] = {} /\ s = "lost"
    BY <1>3, <2>2 DEF PhaseOf
  <2> QED
    BY <2>1, <2>2
<1>5. \A b \in Approval : b # o => PhaseOf(b)' = PhaseOf(b)
  BY <1>1, PhaseKept DEF InFlight
<1> QED
  BY <1>2, <1>4, <1>5

\* phase as the refinement mapping defines it, before and after a step.
LEMMA PhaseMoves ==
  ASSUME NEW o \in Approval, NEW s, PhaseOf(o)' = s,
         \A b \in Approval : b # o => PhaseOf(b)' = PhaseOf(b)
  PROVE  [b \in Approval |-> PhaseOf(b)']
           = [[b \in Approval |-> PhaseOf(b)] EXCEPT ![o] = s]
  OBVIOUS

LEMMA PhaseStays ==
  ASSUME \A b \in Approval : PhaseOf(b)' = PhaseOf(b)
  PROVE  [b \in Approval |-> PhaseOf(b)'] = [b \in Approval |-> PhaseOf(b)]
  OBVIOUS
\* One step of the file protocol is one step of the capability or none.
LEMMA StepSimulates ==
  ASSUME IInv, FromFits, [Next]_vars
  PROVE  [Grant!Next]_Grant!avars
<1> DEFINE ph == [b \in Approval |-> PhaseOf(b)]
           phn == [b \in Approval |-> PhaseOf(b)']
<1>0. Grant!avars' = <<phn, uses'>> /\ Grant!avars = <<ph, uses>>
  BY DEF Grant!avars, Approval
<1>1. ASSUME \A b \in Approval : PhaseOf(b)' = PhaseOf(b), uses' = uses
      PROVE  UNCHANGED Grant!avars
  BY <1>0, <1>1, PhaseStays
<1>2. ASSUME NEW p \in Profiles, Create(p) PROVE UNCHANGED Grant!avars
  <2>1. op.kind = "none" /\ op'.kind = "create" /\ op'.id = nextId
        /\ op'.from = "none" /\ whole' = whole /\ nextId' = nextId + 1
        /\ uses' = uses
    BY <1>2, FreeNoOp DEF Create, ledger
  <2>2. nextId \in Nat
    BY ApprovalsAssumption DEF IInv, TypeOK
  <2>3. ASSUME NEW b \in Approval PROVE PhaseOf(b)' = PhaseOf(b)
    <3>1. CASE b = nextId
      <4>1. ~(b < nextId)
        BY <2>2, <3>1
      <4>2. whole[b] = {}
        BY <4>1 DEF IInv, Safe, Where
      <4> QED
        BY <2>1, <3>1, <4>1, <4>2 DEF PhaseOf, InFlight
    <3>2. CASE b # nextId
      <4>1. b \in Nat
        BY DEF Approval
      <4>2. b < nextId' <=> b < nextId
        BY <2>1, <2>2, <3>2, <4>1
      <4> QED
        BY <2>1, <3>2, <4>2, PhaseKept DEF InFlight
    <3> QED
      BY <3>1, <3>2
  <2> QED
    BY <1>1, <2>1, <2>3
<1>3. ASSUME NEW a \in Approval, Approve(a) PROVE UNCHANGED Grant!avars
  BY <1>1, <1>3, FreeNoOp, RemovalInvisible DEF Approve, Found, ledger
<1>4. ASSUME NEW a \in Approval, Deny(a) PROVE UNCHANGED Grant!avars
  <2>1. PICK s \in {"pending", "approved"} :
          /\ Found(a, s)
          /\ whole' = [whole EXCEPT ![a] = @ \ {s}]
          /\ op' = [kind |-> "deny", id |-> a, from |-> s, expires |-> 0]
    BY <1>4, Zenon DEF Deny
  <2> QED
    BY <1>1, <1>4, <2>1, FreeNoOp, RemovalInvisible DEF Deny, Found, ledger
<1>5. ASSUME NEW a \in Approval, NEW p \in Profiles, NEW t \in 0..issued,
             Consume(a, p, t)
      PROVE  UNCHANGED Grant!avars
  BY <1>1, <1>5, FreeNoOp, RemovalInvisible DEF Consume, Matches, ledger
<1>6. ASSUME Write PROVE Grant!Next
  <2>1. op.kind \in OpKind /\ op.kind # "none" /\ op.id \in Approval
    BY <1>6, OpType DEF Write, IInv
  <2>2. PICK o \in Approval : o = op.id
    BY <2>1
  <2>3. whole[o] = {}
    BY <2>1, <2>2 DEF IInv, Safe, Where, InFlight
  <2>4. /\ op' = NoOp /\ nextId' = nextId
        /\ \A b \in Approval : b # o => whole'[b] = whole[b]
        /\ whole'[o] = {Target(op.kind)}
    BY <1>6, <2>2, <2>3 DEF Write, IInv, TypeOK
  <2>5. ph[o] = op.from /\ phn = [ph EXCEPT ![o] = Target(op.kind)]
    <3>1. PICK s : s = Target(op.kind)
      OBVIOUS
    <3>2. PhaseOf(o) = op.from /\ PhaseOf(o)' = s
          /\ \A b \in Approval : b # o => PhaseOf(b)' = PhaseOf(b)
      BY <2>1, <2>2, <2>4, <3>1, EndMoves
    <3> QED
      BY <3>1, <3>2, PhaseMoves
  <2>6. CASE op.kind = "consume"
    <3>1. uses' = [uses EXCEPT ![o] = @ + 1]
      BY <1>6, <2>2, <2>6 DEF Write
    <3> QED
      BY <2>5, <2>6, <3>1 DEF Grant!Next, Grant!Spend, Grant!Become, FromFits,
         Target, Approval
  <2>7. CASE op.kind # "consume"
    <3>1. uses' = uses
      BY <1>6, <2>2, <2>7 DEF Write, IInv, TypeOK
    <3>2. CASE op.kind = "create"
      BY <2>5, <3>1, <3>2 DEF Grant!Next, Grant!Request, Grant!Become, FromFits,
         Target, Approval
    <3>3. CASE op.kind = "approve"
      BY <2>5, <3>1, <3>3 DEF Grant!Next, Grant!Grant, Grant!Become, FromFits,
         Target, Approval
    <3>4. CASE op.kind = "deny"
      BY <2>5, <3>1, <3>4 DEF Grant!Next, Grant!Revoke, Grant!Become, FromFits,
         Target, Approval
    <3> QED
      BY <2>1, <2>7, <3>2, <3>3, <3>4
  <2> QED
    BY <2>6, <2>7
<1>7. ASSUME WriteLost PROVE Grant!Next
  <2>1. op.kind \in OpKind /\ op.kind # "none" /\ op.id \in Approval
    BY <1>7, OpType DEF WriteLost, IInv
  <2>2. PICK o \in Approval : o = op.id
    BY <2>1
  <2>3. whole[o] = {}
    BY <2>1, <2>2 DEF IInv, Safe, Where, InFlight
  <2>4. op' = NoOp /\ nextId' = nextId /\ whole' = whole /\ uses' = uses
    BY <1>7 DEF WriteLost, ledger
  <2>5. ph[o] = op.from /\ phn = [ph EXCEPT ![o] = "lost"]
    BY <2>1, <2>2, <2>3, <2>4, EndMoves, PhaseMoves
  <2>6. op.from \in {"none", "pending", "approved"}
    BY <2>1 DEF FromFits
  <2> QED
    BY <2>4, <2>5, <2>6 DEF Grant!Next, Grant!Lose, Grant!Become, Approval
<1>8. ASSUME UNCHANGED <<files, op, ledger>> PROVE UNCHANGED Grant!avars
  <2>1. whole' = whole /\ op' = op /\ nextId' = nextId /\ uses' = uses
    BY <1>8 DEF files, ledger
  <2>2. \A b \in Approval : PhaseOf(b)' = PhaseOf(b)
    BY <2>1 DEF PhaseOf, InFlight
  <2> QED
    BY <1>1, <2>1, <2>2
<1> QED
  BY <1>2, <1>3, <1>4, <1>5, <1>6, <1>7, <1>8 DEF Next, Tick, vars

\* The store of files is the one-shot capability: what a caller sees of an
\* approval only ever moves along pending, approved, consumed, or is denied or
\* lost, and each acceptance is a move from approved to consumed.
THEOREM Refinement == Spec => ImplementsGrant
<1>1. Init => Grant!Init
  BY ApprovalsAssumption DEF Init, Grant!Init, PhaseOf, InFlight, NoOp, Approval
<1>2. IInv /\ FromFits /\ [Next]_vars => [Grant!Next]_Grant!avars
  BY StepSimulates
<1> QED
  BY <1>1, <1>2, Inductive, FromFitsHolds, PTL DEF Spec, ImplementsGrant, Grant!Spec

\* A record and its token are where one approval is, through every failed or
\* interrupted move of its file (Store.Approve, Deny, Consume).
THEOREM RecordsSoundHolds == Spec => []RecordsSound
  BY OneResidenceHolds, TokensDistinctHolds, PTL DEF RecordsSound

\* Consume accepts an approval once and never one that was reported as denied.
THEOREM UsedAsGrantedHolds == Spec => []UsedAsGranted
  BY OneShotHolds, DeniedNeverUsedHolds, PTL DEF UsedAsGranted

-----------------------------------------------------------------------------
(***************************************************************************)
(* Root tasks                                                              *)
(*                                                                         *)
(* The four properties speak of what was done; the invariant has to speak  *)
(* of what calls hold in between.  A call keeps a copy of root_approval_id *)
(* and of the task it serves across steps of others, so CallOK says that   *)
(* an approval in hand was requested and, unless a client brought it, for  *)
(* the task in hand, or was named by the client that submitted it; and     *)
(* that between Authorize and Act the approval is consumed and has done    *)
(* nothing yet.  Solo says that two calls are never there with the same    *)
(* approval: only then does the first action use up the second's right to  *)
(* act.                                                                    *)
(**************************************************************************)


\* The steps of a call that serve a task, and those that use an approval.
Tasked == {"plan", "run_get", "resolve", "await", "block", "finish", "rq_get", "rq_move",
           "activate", "refuse"}
Holding == {"await", "execute", "act", "refuse"}

\* What one call contributes to the invariant.
CallOK(r) ==
  /\ r.pc \in Tasked => r.task # None
  /\ r.pc \in Holding => r.appr # None
  /\ r.pc = "advance" => r.appr = None
  /\ r.appr # None => phase[r.appr] # "none"
  /\ r.appr # None /\ r.task # None => Belongs(r.appr, r.task)
  /\ r.pc = "act" => phase[r.appr] = "consumed" /\ acts[r.appr] = 0

\* What one task contributes: its approval was requested, and belongs to it.
TaskOK(t) ==
  /\ root[t] # None => phase[root[t]] # "none" /\ Belongs(root[t], t)
  /\ state[t] = "none" => root[t] = None /\ carried[t] = None
  /\ state[t] = "awaiting_approval" => root[t] # None

\* What one approval contributes: the ledgers agree with its phase.
ApprovalOK(a) ==
  /\ phase[a] \in {"approved", "consumed"} => a \in granted
  /\ a \in granted => phase[a] # "none"
  /\ acts[a] \in {0, 1}
  /\ acts[a] # 0 \/ ran[a] # {} => phase[a] = "consumed"
  /\ \A t \in ran[a] : Belongs(a, t)

Solo ==
  \A c, d \in Caller :
    call[c].pc = "act" /\ call[d].pc = "act" /\ call[c].appr = call[d].appr => c = d

RootIInv ==
  /\ RootTypeOK
  /\ \A c \in Caller : CallOK(call[c])
  /\ \A t \in Task : TaskOK(t)
  /\ \A a \in RootApproval : ApprovalOK(a)
  /\ Solo

USE DEF None, Belongs

LEMMA NoneOutside == None \notin RootApproval /\ None \notin Task
  BY RootExecutionAssumption

LEMMA NoCallFacts == NoCall \in CallState /\ NoCall.pc = "idle" /\ CallOK(NoCall)
  BY DEF NoCall, CallState, Label, CallOK, Tasked, Holding

\* What IInv says of the call of c.
LEMMA CallFacts ==
  ASSUME RootIInv, NEW c \in Caller
  PROVE  /\ call[c] \in CallState /\ CallOK(call[c])
         /\ call[c].pc \in Label
         /\ call[c].task \in Task \cup {None}
         /\ call[c].appr \in RootApproval \cup {None}
         /\ call[c].then \in {"idle", "run_get", "activate"}
<1>1. call[c] \in CallState /\ CallOK(call[c])
  BY DEF RootIInv, RootTypeOK
<1> QED
  BY <1>1 DEF CallState

\* A step of one call keeps the calls' share of the invariant if it breaks
\* none of the others and does not join one of them between Authorize and Act.
LEMMA CallsKept ==
  ASSUME RootIInv, NEW c \in Caller, NEW r \in CallState, Becomes(c, r), CallOK(r)',
         \A d \in Caller \ {c} : \A q : q = call[d] => CallOK(q)',
         r.pc = "act" => \A d \in Caller \ {c} :
                           ~(call[d].pc = "act" /\ call[d].appr = r.appr)
  PROVE  /\ (call \in [Caller -> CallState])'
         /\ \A d \in Caller : CallOK(call[d])'
         /\ Solo'
<1>1. PICK q \in CallState : /\ call' = [call EXCEPT ![c] = q]
                             /\ CallOK(q)'
                             /\ q = r \/ q = NoCall
  <2>1. CallOK(NoCall)'
    BY DEF NoCall, CallOK, Tasked, Holding
  <2> QED
    BY <2>1, NoCallFacts DEF Becomes
<1>2. call'[c] = q /\ \A d \in Caller \ {c} : call'[d] = call[d]
  BY <1>1 DEF RootIInv, RootTypeOK
<1>3. (call \in [Caller -> CallState])'
  BY <1>1 DEF RootIInv, RootTypeOK, CallState, Label
<1>4. \A d \in Caller : CallOK(call[d])'
  <2> SUFFICES ASSUME NEW d \in Caller PROVE CallOK(call[d])'
    OBVIOUS
  <2>1. PICK x : x = call'[d]
    OBVIOUS
  <2>2. CallOK(x)'
    BY <1>1, <1>2, <2>1
  <2> QED
    BY <2>1, <2>2 DEF CallOK, Tasked, Holding
<1>5. Solo'
  <2> SUFFICES ASSUME NEW d \in Caller, NEW e \in Caller,
                      call'[d].pc = "act", call'[e].pc = "act",
                      call'[d].appr = call'[e].appr
               PROVE  d = e
    BY DEF Solo
  <2>1. q.pc = "act" => q = r
    BY <1>1, NoCallFacts
  <2>2. CASE d = c
    BY <1>2, <2>1, <2>2
  <2>3. CASE e = c
    BY <1>2, <2>1, <2>3
  <2>4. CASE d # c /\ e # c
    BY <1>2, <2>4 DEF RootIInv, Solo
  <2> QED
    BY <2>2, <2>3, <2>4
<1> QED
  BY <1>3, <1>4, <1>5

\* The tasks' share of the invariant.
TasksFit ==
  /\ state \in [Task -> {"none", "inbox", "planned", "awaiting_approval", "blocked", "done",
                         "failed", "lost"}]
  /\ root \in [Task -> RootApproval \cup {None}]
  /\ carried \in [Task -> RootApproval \cup {None}]
  /\ \A t \in Task : TaskOK(t)

\* The approvals' and the ledgers' share.
LedgerFits ==
  /\ phase \in [RootApproval -> {"none", "pending", "approved", "denied", "consumed", "lost"}]
  /\ accepted \in [RootApproval -> Nat]
  /\ taskOf \in [RootApproval -> Task \cup {None}]
  /\ acts \in [RootApproval -> Nat]
  /\ ran \in [RootApproval -> SUBSET Task]
  /\ granted \subseteq RootApproval
  /\ \A a \in RootApproval : ApprovalOK(a)

LEMMA Parts == RootIInv => TasksFit /\ LedgerFits
  BY DEF RootIInv, RootTypeOK, TasksFit, LedgerFits

LEMMA Joined ==
  ASSUME TasksFit', LedgerFits', (call \in [Caller -> CallState])',
         \A d \in Caller : CallOK(call[d])', Solo'
  PROVE  RootIInv'
  BY DEF RootIInv, RootTypeOK, TasksFit, LedgerFits

LEMMA TasksKept ==
  ASSUME RootIInv, UNCHANGED <<phase, taskOf, state, root, carried>>
  PROVE  TasksFit'
  BY Parts DEF TasksFit, TaskOK

LEMMA LedgerKept ==
  ASSUME RootIInv, UNCHANGED <<approvals, ledgers>>, UNCHANGED carried
  PROVE  LedgerFits'
  BY Parts DEF LedgerFits, ApprovalOK, approvals, ledgers

\* A step that changes neither approvals nor ledgers.
LEMMA LocalStep ==
  ASSUME RootIInv, NEW c \in Caller, NEW r \in CallState, Becomes(c, r), CallOK(r),
         r.pc # "act", UNCHANGED <<approvals, ledgers>>, UNCHANGED carried, TasksFit'
  PROVE  RootIInv'
<1>1. \A q : CallOK(q) => CallOK(q)'
  BY DEF CallOK, approvals, ledgers, Tasked, Holding
<1>2. \A d \in Caller \ {c} : \A q : q = call[d] => CallOK(q)'
  BY <1>1, CallFacts
<1> QED
  BY <1>1, <1>2, CallsKept, LedgerKept, Joined

\* The locked MoveTask, with the approval it writes to root_approval_id.
LEMMA MoveFits ==
  ASSUME RootIInv, NEW t \in Task, NEW a \in RootApproval \cup {None},
         NEW s \in {"planned", "awaiting_approval", "blocked", "done", "failed"},
         a # None => phase[a] # "none" /\ Belongs(a, t),
         s = "awaiting_approval" => a # None,
         Move(t, s, a), UNCHANGED approvals
  PROVE  TasksFit' /\ carried' = carried
<1>1. CASE UNCHANGED tasks
  BY <1>1, TasksKept DEF tasks, approvals
<1>2. CASE /\ state' = [state EXCEPT ![t] = s] /\ root' = [root EXCEPT ![t] = a]
            /\ carried' = carried
  BY <1>2, Parts DEF TasksFit, TaskOK, approvals
<1> QED
  BY <1>1, <1>2 DEF Move

\* A call goes on with what it holds.
LEMMA GoFacts ==
  ASSUME RootIInv, NEW c \in Caller, NEW l \in Label,
         l \in Tasked => call[c].task # None,
         l \in Holding => call[c].appr # None,
         l \notin {"act", "advance"}
  PROVE  [call[c] EXCEPT !.pc = l] \in CallState /\ CallOK([call[c] EXCEPT !.pc = l])
<1>1. PICK r : r = [call[c] EXCEPT !.pc = l]
  OBVIOUS
<1>2. r \in CallState /\ r.pc = l /\ r.task = call[c].task /\ r.appr = call[c].appr
  BY <1>1, CallFacts DEF CallState
<1>3. CallOK(r)
  BY <1>2, CallFacts DEF CallOK
<1> QED
  BY <1>1, <1>2, <1>3

LEMMA GoStep ==
  ASSUME RootIInv, NEW c \in Caller, NEW l \in Label,
         l \in Tasked => call[c].task # None,
         l \in Holding => call[c].appr # None,
         l \notin {"act", "advance"}, Go(c, l), UNCHANGED <<approvals, ledgers>>, UNCHANGED carried, TasksFit'
  PROVE  RootIInv'
<1>1. PICK r : r = [call[c] EXCEPT !.pc = l]
  OBVIOUS
<1>2. r \in CallState /\ CallOK(r) /\ r.pc = l
  BY <1>1, GoFacts, CallFacts DEF CallState
<1> QED
  BY <1>1, <1>2, LocalStep DEF Go

LEMMA MoveLastStep ==
  ASSUME RootIInv, NEW c \in Caller, NEW at \in Tasked, NEW a \in RootApproval \cup {None},
         NEW s \in {"planned", "awaiting_approval", "blocked", "done", "failed"},
         a # None => phase[a] # "none" /\ Belongs(a, call[c].task),
         s = "awaiting_approval" => a # None,
         MoveLast(c, at, s, a)
  PROVE  RootIInv'
<1>1. PICK t \in Task : t = call[c].task
  BY CallFacts DEF MoveLast, At, CallOK
<1>2. TasksFit' /\ carried' = carried
  BY <1>1, MoveFits DEF MoveLast
<1>3. "idle" \in Label /\ "idle" \notin Tasked /\ "idle" \notin Holding
  BY DEF Label, Tasked, Holding
<1> QED
  BY <1>2, <1>3, GoStep DEF MoveLast

\* root_approval_id as the file has it.
LEMMA RootFacts ==
  ASSUME RootIInv, NEW t \in Task
  PROVE  /\ root[t] \in RootApproval \cup {None}
         /\ root[t] # None => phase[root[t]] # "none" /\ Belongs(root[t], t)
  BY Parts DEF TasksFit, TaskOK

-----------------------------------------------------------------------------
(***************************************************************************)
(* Steps that leave the approvals alone                                    *)
(***************************************************************************)

LEMMA Labels ==
  /\ {"idle", "advance", "plan", "run_get", "resolve", "await", "block", "execute", "act",
      "finish", "rq_get", "rq_move", "activate", "refuse"} \subseteq Label
  /\ "idle" \notin Tasked /\ "advance" \notin Tasked /\ "execute" \notin Tasked /\ "act" \notin Tasked
  /\ {"idle", "advance", "plan", "run_get", "resolve", "block", "finish", "rq_get", "rq_move",
      "activate"}
       \cap Holding = {}
  BY DEF Label, Tasked, Holding

\* A call begins.
LEMMA BeginStep ==
  ASSUME RootIInv, NEW c \in Caller, NEW kind, NEW pc \in Label,
         NEW t \in Task \cup {None}, NEW a \in RootApproval \cup {None},
         NEW then \in {"idle", "run_get", "activate"},
         pc \in Tasked => t # None,
         pc \in Holding => a # None,
         a # None => phase[a] # "none",
         a # None /\ t # None => Belongs(a, t),
         pc \notin {"act", "advance"},
         Start(c, kind, [pc |-> pc, task |-> t, appr |-> a, then |-> then]),
         UNCHANGED <<approvals, tasks, ledgers>>
  PROVE  RootIInv'
<1>1. PICK r : r = [pc |-> pc, task |-> t, appr |-> a, then |-> then]
  OBVIOUS
<1>2. r \in CallState /\ CallOK(r) /\ r.pc # "act"
  BY <1>1 DEF CallState, CallOK
<1>3. TasksFit'
  BY TasksKept DEF approvals, tasks
<1> QED
  BY <1>1, <1>2, <1>3, LocalStep DEF Start, tasks

\* A new task: nothing was said of it before, so what is said of its
\* root_approval_id and of the one it was submitted with holds at once.
LEMMA SubmitTaskStep ==
  ASSUME RootIInv, NEW c \in Caller, NEW t \in Task, SubmitTask(c, t)
  PROVE  RootIInv'
<1>1. PICK a \in Issued \cup {None} :
        /\ root' = [root EXCEPT ![t] = a] /\ carried' = [carried EXCEPT ![t] = a]
        /\ state' = [state EXCEPT ![t] = "inbox"] /\ state[t] = "none"
        /\ UNCHANGED <<approvals, ledgers>>
  BY DEF SubmitTask
<1>2. a \in RootApproval \cup {None} /\ (a # None => phase[a] # "none")
  BY <1>1 DEF Issued
<1>3. \A u \in Task, b \in RootApproval : Belongs(b, u) => Belongs(b, u)'
  BY <1>1, NoneOutside, Parts DEF TasksFit, TaskOK, approvals
<1>4. TasksFit'
  <2>1. (carried \in [Task -> RootApproval \cup {None}])'
    BY <1>1, <1>2, Parts DEF TasksFit
  <2>2. /\ (root \in [Task -> RootApproval \cup {None}])'
        /\ state' \in [Task -> {"none", "inbox", "planned", "awaiting_approval", "blocked",
                                 "done", "failed", "lost"}]
    BY <1>1, <1>2, Parts DEF TasksFit
  <2>3. \A u \in Task \ {t} : TaskOK(u)'
    BY <1>1, Parts DEF TasksFit, TaskOK, approvals
  <2>4. TaskOK(t)'
    BY <1>1, <1>2, Parts DEF TasksFit, TaskOK, approvals
  <2> QED
    BY <2>1, <2>2, <2>3, <2>4 DEF TasksFit
<1>5. LedgerFits'
  <2>1. \A b \in RootApproval : ApprovalOK(b)'
    <3> SUFFICES ASSUME NEW b \in RootApproval PROVE ApprovalOK(b)'
      OBVIOUS
    <3>1. ApprovalOK(b) /\ ran[b] \subseteq Task
      BY Parts DEF LedgerFits
    <3>2. \A u \in ran[b] : Belongs(b, u)'
      BY <3>1, <1>3 DEF ApprovalOK
    <3> QED
      BY <1>1, <3>1, <3>2 DEF ApprovalOK, approvals, ledgers
  <2> QED
    BY <1>1, <2>1, Parts DEF LedgerFits, approvals, ledgers
<1>6. PICK r : r = [pc |-> "advance", task |-> None, appr |-> None, then |-> "idle"]
  OBVIOUS
<1>7. r \in CallState /\ r.pc = "advance" /\ r.appr = None
  BY <1>6, Labels DEF CallState
<1>8. CallOK(r)'
  BY <1>7, Labels DEF CallOK
<1>9. \A d \in Caller \ {c} : \A q : q = call[d] => CallOK(q)'
  <2> SUFFICES ASSUME NEW d \in Caller \ {c}, NEW q, q = call[d] PROVE CallOK(q)'
    OBVIOUS
  <2>1. /\ CallOK(q)
        /\ q.task \in Task \cup {None} /\ q.appr \in RootApproval \cup {None}
    BY CallFacts
  <2>2. q.appr # None /\ q.task # None => Belongs(q.appr, q.task)'
    BY <2>1, <1>3 DEF CallOK
  <2> QED
    BY <1>1, <2>1, <2>2 DEF CallOK, Tasked, Holding, approvals, ledgers
<1>10. Becomes(c, r)
  BY <1>6 DEF SubmitTask, Start
<1> QED
  BY <1>4, <1>5, <1>7, <1>8, <1>9, <1>10, CallsKept, Joined

LEMMA RunTaskStep ==
  ASSUME RootIInv, NEW c \in Caller, NEW t \in Task, RunTask(c, t)
  PROVE  RootIInv'
<1>1. PICK pc \in {"rq_get", "run_get"}, then \in {"idle", "run_get"} :
        Start(c, "run", [pc |-> pc, task |-> t, appr |-> None, then |-> then])
  BY DEF RunTask
<1> QED
  BY <1>1, BeginStep, Labels, NoneOutside DEF RunTask

LEMMA ApproveTaskStep ==
  ASSUME RootIInv, NEW c \in Caller, NEW t \in Task, ApproveTask(c, t)
  PROVE  RootIInv'
<1>1. PICK pc \in {"rq_get"}, then \in {"activate"} :
        Start(c, "approvetask", [pc |-> pc, task |-> t, appr |-> None, then |-> then])
  BY DEF ApproveTask
<1> QED
  BY <1>1, BeginStep, Labels, NoneOutside DEF ApproveTask

LEMMA DirectExecuteStep ==
  ASSUME RootIInv, NEW c \in Caller, NEW a \in RootApproval, DirectExecute(c, a)
  PROVE  RootIInv'
<1>1. phase[a] # "none"
  BY Parts DEF DirectExecute, LedgerFits, ApprovalOK
<1> QED
  BY <1>1, BeginStep, Labels, NoneOutside DEF DirectExecute

LEMMA RunGetStep ==
  ASSUME RootIInv, NEW c \in Caller, RunGet(c)
  PROVE  RootIInv'
<1>0. UNCHANGED <<approvals, ledgers>> /\ carried' = carried /\ TasksFit'
  BY TasksKept DEF RunGet, approvals, tasks
<1>1. PICK t \in Task : t = call[c].task
  BY CallFacts DEF RunGet, At, CallOK, Tasked
<1>2. CASE Go(c, "idle")
  BY <1>0, <1>2, GoStep, Labels
<1>3. CASE Becomes(c, [call[c] EXCEPT !.pc = "resolve", !.appr = root[t]])
  <2>1. PICK r : r = [call[c] EXCEPT !.pc = "resolve", !.appr = root[t]]
    OBVIOUS
  <2>2. /\ r \in CallState /\ r.pc = "resolve" /\ r.task = t /\ r.appr = root[t]
    BY <1>1, <2>1, CallFacts, RootFacts, Labels DEF CallState
  <2>3. CallOK(r)
    BY <2>2, RootFacts, Labels, NoneOutside DEF CallOK
  <2> QED
    BY <1>0, <1>3, <2>1, <2>2, <2>3, LocalStep
<1> QED
  BY <1>1, <1>2, <1>3 DEF RunGet

\* Advance may take up another task than the one its call submitted.
LEMMA AdvanceStep ==
  ASSUME RootIInv, NEW c \in Caller, Advance(c)
  PROVE  RootIInv'
<1>0. UNCHANGED <<approvals, ledgers>> /\ carried' = carried /\ TasksFit'
  BY TasksKept DEF Advance, approvals, tasks
<1>1. CASE Go(c, "idle")
  BY <1>0, <1>1, GoStep, Labels
<1>2. CASE \E u \in Task, next \in {"plan", "activate"} :
             Becomes(c, [call[c] EXCEPT !.pc = next, !.task = u])
  <2>1. PICK u \in Task, next \in {"plan", "activate"} :
          Becomes(c, [call[c] EXCEPT !.pc = next, !.task = u])
    BY <1>2
  <2>2. PICK r : r = [call[c] EXCEPT !.pc = next, !.task = u]
    OBVIOUS
  <2>3. /\ r \in CallState /\ r.pc = next /\ r.task = u /\ r.appr = call[c].appr
    BY <2>2, CallFacts, Labels DEF CallState
  <2>4. call[c].appr = None
    BY CallFacts DEF Advance, At, CallOK
  <2>5. CallOK(r)
    BY <2>3, <2>4, Labels, NoneOutside DEF CallOK
  <2> QED
    BY <1>0, <2>1, <2>2, <2>3, <2>5, LocalStep
<1> QED
  BY <1>1, <1>2 DEF Advance

LEMMA PlanTaskStep ==
  ASSUME RootIInv, NEW c \in Caller, PlanTask(c)
  PROVE  RootIInv'
<1>1. PICK t \in Task : t = call[c].task
  BY CallFacts DEF PlanTask, At, CallOK, Tasked
<1>2. PICK a : a = root[t]
  OBVIOUS
<1>3. TasksFit' /\ carried' = carried
  BY <1>1, <1>2, RootFacts, MoveFits DEF PlanTask
<1>4. PICK l \in {"activate", "idle"} : Go(c, l)
  BY DEF PlanTask
<1> QED
  BY <1>1, <1>3, <1>4, GoStep, Labels, NoneOutside DEF PlanTask

LEMMA ResolveApprovalStep ==
  ASSUME RootIInv, NEW c \in Caller, ResolveApproval(c)
  PROVE  RootIInv'
<1>0. UNCHANGED <<approvals, ledgers>> /\ carried' = carried /\ TasksFit'
  BY TasksKept DEF ResolveApproval, approvals, tasks
<1>1. call[c].task # None /\ call[c].appr # None
  BY CallFacts DEF ResolveApproval, At, CallOK, Tasked
<1>2. CASE Go(c, "await") \/ Go(c, "execute")
  BY <1>0, <1>1, <1>2, GoStep, Labels
<1>3. CASE Becomes(c, [call[c] EXCEPT !.pc = "block", !.appr = None])
  <2>1. PICK r : r = [call[c] EXCEPT !.pc = "block", !.appr = None]
    OBVIOUS
  <2>2. /\ r \in CallState /\ r.pc = "block" /\ r.task = call[c].task /\ r.appr = None
    BY <2>1, CallFacts, Labels DEF CallState
  <2>3. CallOK(r)
    BY <1>1, <2>2, Labels DEF CallOK
  <2> QED
    BY <1>0, <1>3, <2>1, <2>2, <2>3, LocalStep
<1> QED
  BY <1>2, <1>3 DEF ResolveApproval

LEMMA AwaitApprovalStep ==
  ASSUME RootIInv, NEW c \in Caller, AwaitApproval(c)
  PROVE  RootIInv'
<1>1. PICK a : a = call[c].appr
  OBVIOUS
<1>2. /\ a \in RootApproval \cup {None} /\ a # None
      /\ phase[a] # "none" /\ Belongs(a, call[c].task)
  BY <1>1, CallFacts DEF AwaitApproval, MoveLast, At, CallOK, Tasked, Holding
<1>3. MoveLast(c, "await", "awaiting_approval", a) /\ "await" \in Tasked
  BY <1>1 DEF AwaitApproval, Tasked
<1> QED
  BY <1>2, <1>3, MoveLastStep

\* The steps that write root_approval_id back as the file has it.
LEMMA KeepRootStep ==
  ASSUME RootIInv, NEW c \in Caller, NEW at \in Tasked,
         NEW s \in {"planned", "blocked", "done", "failed"},
         MoveLast(c, at, s, root[call[c].task])
  PROVE  RootIInv'
<1>1. call[c].task \in Task
  BY CallFacts DEF MoveLast, At, CallOK
<1>2. PICK a : a = root[call[c].task]
  OBVIOUS
<1>3. /\ a \in RootApproval \cup {None}
      /\ a # None => phase[a] # "none" /\ Belongs(a, call[c].task)
  BY <1>1, <1>2, RootFacts
<1> QED
  BY <1>2, <1>3, MoveLastStep

LEMMA DenyMoveStep ==
  ASSUME RootIInv, NEW c \in Caller, DenyMove(c)
  PROVE  RootIInv'
<1>1. PICK a : a = call[c].appr
  OBVIOUS
<1>2. /\ a \in RootApproval \cup {None} /\ a # None
      /\ phase[a] # "none" /\ Belongs(a, call[c].task)
  BY <1>1, CallFacts DEF DenyMove, MoveLast, At, CallOK, Tasked, Holding
<1>3. MoveLast(c, "refuse", "blocked", a) /\ "refuse" \in Tasked
  BY <1>1 DEF DenyMove, Tasked
<1> QED
  BY <1>2, <1>3, MoveLastStep

LEMMA QuietStep ==
  ASSUME RootIInv, NEW c \in Caller, Refuse(c) \/ Reject(c) \/ RequestFails(c) \/ RequeueGet(c)
  PROVE  RootIInv'
<1>0. UNCHANGED <<approvals, tasks, ledgers>>
  BY DEF Refuse, Reject, RequestFails, RequeueGet
<1>1. TasksFit' /\ carried' = carried
  BY <1>0, TasksKept DEF approvals, tasks
<1>2. CASE Go(c, "idle")
  BY <1>0, <1>1, <1>2, GoStep, Labels
<1>3. CASE RequeueGet(c) /\ Go(c, "rq_move")
  <2>1. call[c].task # None
    BY <1>3, CallFacts DEF RequeueGet, At, CallOK, Tasked
  <2> QED
    BY <1>0, <1>1, <1>3, <2>1, GoStep, Labels
<1> QED
  BY <1>2, <1>3 DEF Refuse, Reject, RequestFails, RequeueGet

LEMMA RequeueMoveStep ==
  ASSUME RootIInv, NEW c \in Caller, RequeueMove(c)
  PROVE  RootIInv'
<1>1. PICK t \in Task : t = call[c].task
  BY CallFacts DEF RequeueMove, At, CallOK, Tasked
<1>2. PICK a : a = IF call[c].appr = None THEN root[t] ELSE call[c].appr
  OBVIOUS
<1>3. /\ a \in RootApproval \cup {None}
      /\ a # None => phase[a] # "none" /\ Belongs(a, t)
  BY <1>1, <1>2, CallFacts, RootFacts, NoneOutside DEF CallOK
<1>4. TasksFit' /\ carried' = carried
  BY <1>1, <1>2, <1>3, MoveFits DEF RequeueMove
<1>5. PICK l \in {"idle", "run_get", "activate"} :
        Becomes(c, [pc |-> l, task |-> t, appr |-> None, then |-> "idle"])
  BY <1>1, CallFacts DEF RequeueMove
<1>6. PICK r : r = [pc |-> l, task |-> t, appr |-> None, then |-> "idle"]
  OBVIOUS
<1>7. r \in CallState /\ CallOK(r) /\ r.pc # "act"
  BY <1>6, Labels, NoneOutside DEF CallState, CallOK
<1> QED
  BY <1>4, <1>5, <1>6, <1>7, LocalStep DEF RequeueMove

LEMMA DenyTaskStep ==
  ASSUME RootIInv, NEW c \in Caller, NEW t \in Task, DenyTask(c, t)
  PROVE  RootIInv'
<1>1. PICK a : a = root[t]
  OBVIOUS
<1>2. TasksFit' /\ carried' = carried
  BY <1>1, MoveFits, RootFacts DEF DenyTask
<1>3. LedgerFits'
  BY <1>2, LedgerKept DEF DenyTask
<1>4. /\ (call \in [Caller -> CallState])' /\ Solo'
      /\ \A d \in Caller : CallOK(call[d])'
  BY <1>2 DEF DenyTask, RootIInv, RootTypeOK, CallState, Label, Solo, CallOK, Tasked, Holding,
              approvals, ledgers
<1> QED
  BY <1>2, <1>3, <1>4, Joined

-----------------------------------------------------------------------------
(***************************************************************************)
(* Steps of the approval store, and the action                             *)
(***************************************************************************)

\* A new request touches nothing that is held: it had no phase before.
LEMMA RequestedFits ==
  ASSUME RootIInv, NEW a \in RootApproval, NEW t \in Task \cup {None}, Requested(a, t),
         UNCHANGED <<tasks, ledgers>>
  PROVE  /\ TasksFit' /\ LedgerFits'
         /\ phase'[a] # "none" /\ taskOf'[a] = t
         /\ \A q \in CallState : CallOK(q) => CallOK(q)'
<1>1. /\ phase[a] = "none" /\ phase' = [phase EXCEPT ![a] = "pending"]
      /\ accepted' = accepted
      /\ taskOf' = [taskOf EXCEPT ![a] = t]
  BY DEF Requested, Store!Request, Store!Become
<1>2. TasksFit'
  BY <1>1, Parts DEF TasksFit, LedgerFits, TaskOK, tasks
<1>3. LedgerFits'
  <2>2. \A b \in RootApproval : ApprovalOK(b)'
    BY <1>1, Parts DEF LedgerFits, ApprovalOK, ledgers, tasks
  <2> QED
    BY <1>1, <2>2, Parts DEF LedgerFits, ledgers
<1>4. phase'[a] # "none" /\ taskOf'[a] = t
  BY <1>1, Parts DEF LedgerFits
<1>5. \A q \in CallState : CallOK(q) => CallOK(q)'
  BY <1>1, Parts DEF LedgerFits, CallOK, CallState, ledgers, tasks, Tasked, Holding
<1> QED
  BY <1>2, <1>3, <1>4, <1>5

LEMMA RequestApprovalStep ==
  ASSUME RootIInv, NEW c \in Caller, RequestApproval(c)
  PROVE  RootIInv'
<1>1. PICK t \in Task : t = call[c].task
  BY CallFacts DEF RequestApproval, At, CallOK, Tasked
<1>2. PICK a \in RootApproval :
        Requested(a, t) /\ Becomes(c, [call[c] EXCEPT !.pc = "await", !.appr = a])
  BY <1>1 DEF RequestApproval
<1>3. UNCHANGED <<tasks, ledgers>>
  BY DEF RequestApproval
<1>4. PICK r : r = [call[c] EXCEPT !.pc = "await", !.appr = a]
  OBVIOUS
<1>5. r \in CallState /\ r.pc = "await" /\ r.task = t /\ r.appr = a
  BY <1>1, <1>4, CallFacts, Labels DEF CallState
<1>6. CallOK(r)'
  BY <1>2, <1>3, <1>5, RequestedFits, NoneOutside DEF CallOK, Tasked, Holding
<1>7. \A d \in Caller \ {c} : \A q : q = call[d] => CallOK(q)'
  BY <1>2, <1>3, RequestedFits, CallFacts
<1>8. Becomes(c, r) /\ r.pc # "act"
  BY <1>2, <1>4, <1>5
<1>9. TasksFit' /\ LedgerFits'
  BY <1>2, <1>3, RequestedFits
<1> QED
  BY <1>5, <1>6, <1>7, <1>8, <1>9, CallsKept, Joined

\* Steps that leave the calls alone.
LEMMA CallsStay ==
  ASSUME RootIInv, call' = call, \A q \in CallState : CallOK(q) => CallOK(q)'
  PROVE  /\ (call \in [Caller -> CallState])'
         /\ \A d \in Caller : CallOK(call[d])'
         /\ Solo'
<1>1. (call \in [Caller -> CallState])'
  BY DEF RootIInv, RootTypeOK, CallState, Label
<1>2. \A d \in Caller : CallOK(call[d])'
  <2> SUFFICES ASSUME NEW d \in Caller PROVE CallOK(call[d])'
    OBVIOUS
  <2>1. PICK q \in CallState : q = call[d] /\ CallOK(q)
    BY CallFacts
  <2>2. CallOK(q)' /\ call'[d] = q
    BY <2>1
  <2> QED
    BY <2>2 DEF CallOK, Tasked, Holding
<1> QED
  BY <1>1, <1>2 DEF RootIInv, Solo

LEMMA CreateRootApprovalStep ==
  ASSUME RootIInv, NEW c \in Caller, NEW t \in Task \cup {None}, CreateRootApproval(c, t)
  PROVE  RootIInv'
<1>1. PICK a \in RootApproval : Requested(a, t)
  BY DEF CreateRootApproval
<1>2. call' = call /\ UNCHANGED <<tasks, ledgers>>
  BY DEF CreateRootApproval
<1> QED
  BY <1>1, <1>2, RequestedFits, CallsStay, Joined

\* Grant, Revoke and Lose: an approval that is not used yet changes its phase.
LEMMA PhaseFits ==
  ASSUME RootIInv, NEW a \in RootApproval, NEW p \in {"approved", "denied", "lost"},
         phase[a] \in {"pending", "approved"},
         phase' = [phase EXCEPT ![a] = p],
         UNCHANGED <<accepted, taskOf, tasks, acts, ran>>,
         granted' = granted \/ granted' = granted \cup {a},
         p = "approved" => a \in granted'
  PROVE  /\ TasksFit' /\ LedgerFits'
         /\ phase'[a] # "none"
         /\ \A q \in CallState : CallOK(q) => CallOK(q)'
<1>1. TasksFit'
  BY Parts DEF TasksFit, LedgerFits, TaskOK, tasks
<1>2. LedgerFits'
  <2>1. \A b \in RootApproval : ApprovalOK(b)'
    BY Parts DEF LedgerFits, ApprovalOK, tasks
  <2> QED
    BY <2>1, Parts DEF LedgerFits
<1>3. phase'[a] # "none"
  BY Parts DEF LedgerFits
<1>4. \A q \in CallState : CallOK(q) => CallOK(q)'
  BY Parts DEF LedgerFits, CallOK, CallState, tasks, Tasked, Holding
<1> QED
  BY <1>1, <1>2, <1>3, <1>4

\* The call that goes on with the task an approval was requested for.
LEMMA DecideStep ==
  ASSUME RootIInv, NEW c \in Caller, NEW a \in RootApproval, NEW pc \in {"rq_get", "refuse"},
         NEW then \in {"idle", "run_get", "activate"},
         Becomes(c, IF taskOf[a] = None THEN NoCall
                    ELSE [pc |-> pc, task |-> taskOf[a], appr |-> a, then |-> then]),
         taskOf' = taskOf, phase'[a] # "none", TasksFit', LedgerFits',
         \A q \in CallState : CallOK(q) => CallOK(q)'
  PROVE  RootIInv'
<1>1. PICK r : r = IF taskOf[a] = None THEN NoCall
                   ELSE [pc |-> pc, task |-> taskOf[a], appr |-> a, then |-> then]
  OBVIOUS
<1>2. taskOf[a] \in Task \cup {None}
  BY Parts DEF LedgerFits
<1>3. r \in CallState /\ r.pc # "act" /\ CallOK(r)'
  <2>1. CASE taskOf[a] = None
    BY <1>1, <2>1, NoCallFacts
  <2>2. CASE taskOf[a] # None
    <3>1. r = [pc |-> pc, task |-> taskOf[a], appr |-> a, then |-> then]
      BY <1>1, <2>2
    <3>2. r \in CallState
      BY <1>2, <3>1, Labels DEF CallState
    <3> QED
      BY <1>2, <2>2, <3>1, <3>2, NoneOutside DEF CallOK, Tasked, Holding
  <2> QED
    BY <2>1, <2>2
<1>4. \A d \in Caller \ {c} : \A q : q = call[d] => CallOK(q)'
  BY CallFacts
<1> QED
  BY <1>1, <1>3, <1>4, CallsKept, Joined

LEMMA ApproveApprovalStep ==
  ASSUME RootIInv, NEW c \in Caller, NEW a \in RootApproval, ApproveApproval(c, a)
  PROVE  RootIInv'
<1>1. PICK next \in {"idle", "run_get"} :
        Becomes(c, IF taskOf[a] = None THEN NoCall
                   ELSE [pc |-> "rq_get", task |-> taskOf[a], appr |-> a, then |-> next])
  BY DEF ApproveApproval, Start
<1>2. /\ phase[a] \in {"pending", "approved"} /\ phase' = [phase EXCEPT ![a] = "approved"]
      /\ UNCHANGED <<accepted, taskOf, tasks, acts, ran>>
      /\ granted' = granted \cup {a}
  BY DEF ApproveApproval, Store!Grant, Store!Become
<1> QED
  BY <1>1, <1>2, PhaseFits, DecideStep

LEMMA DenyApprovalStep ==
  ASSUME RootIInv, NEW c \in Caller, NEW a \in RootApproval, DenyApproval(c, a)
  PROVE  RootIInv'
<1>1. Becomes(c, IF taskOf[a] = None THEN NoCall
                 ELSE [pc |-> "refuse", task |-> taskOf[a], appr |-> a, then |-> "idle"])
  BY DEF DenyApproval, Start
<1>2. /\ phase[a] \in {"pending", "approved"} /\ phase' = [phase EXCEPT ![a] = "denied"]
      /\ UNCHANGED <<accepted, taskOf, tasks, acts, ran>>
      /\ granted' = granted
  BY DEF DenyApproval, Store!Revoke, Store!Become, ledgers
<1> QED
  BY <1>1, <1>2, PhaseFits, DecideStep

LEMMA LoseApprovalStep ==
  ASSUME RootIInv, NEW a \in RootApproval, LoseApproval(a)
  PROVE  RootIInv'
<1>1. /\ phase[a] \in {"pending", "approved"} /\ phase' = [phase EXCEPT ![a] = "lost"]
      /\ UNCHANGED <<accepted, taskOf, tasks, acts, ran>>
      /\ granted' = granted /\ call' = call
  BY DEF LoseApproval, Store!Lose, Store!Become, ledgers
<1> QED
  BY <1>1, PhaseFits, CallsStay, Joined

\* Consume accepts: nobody else can be on the way to act with this approval,
\* and nothing was done under it.
LEMMA AuthorizeStep ==
  ASSUME RootIInv, NEW c \in Caller, Authorize(c)
  PROVE  RootIInv'
<1>1. PICK a \in RootApproval : a = call[c].appr
  BY CallFacts DEF Authorize, At, CallOK, Holding
<1>2. /\ phase[a] = "approved" /\ phase' = [phase EXCEPT ![a] = "consumed"]
      /\ accepted' = [accepted EXCEPT ![a] = @ + 1]
      /\ UNCHANGED <<taskOf, tasks, ledgers>>
      /\ call[c].pc = "execute"
  BY <1>1 DEF Authorize, Store!Spend, Store!Become, At
<1>3. acts[a] = 0
  BY <1>2, Parts DEF LedgerFits, ApprovalOK
<1>4. TasksFit'
  BY <1>2, Parts DEF TasksFit, LedgerFits, TaskOK, tasks
<1>5. LedgerFits'
  <2>1. \A b \in RootApproval : ApprovalOK(b)'
    BY <1>2, Parts DEF LedgerFits, ApprovalOK, ledgers, tasks
  <2>2. (accepted \in [RootApproval -> Nat])'
    BY <1>2, Parts DEF LedgerFits
  <2> QED
    BY <1>2, <2>1, <2>2, Parts DEF LedgerFits, ledgers
<1>6. PICK r : r = [call[c] EXCEPT !.pc = "act"]
  OBVIOUS
<1>7. r \in CallState /\ r.pc = "act" /\ r.task = call[c].task /\ r.appr = a
  BY <1>1, <1>6, CallFacts, Labels DEF CallState
<1>8. CallOK(r)'
  BY <1>2, <1>3, <1>7, <1>1, CallFacts, Parts, NoneOutside
  DEF LedgerFits, CallOK, Tasked, Holding, ledgers, tasks
<1>9. \A q \in CallState : CallOK(q) => CallOK(q)'
  BY <1>2, Parts DEF LedgerFits, CallOK, CallState, ledgers, tasks, Tasked, Holding
<1>10. \A d \in Caller \ {c} : ~(call[d].pc = "act" /\ call[d].appr = a)
  BY <1>2, CallFacts DEF CallOK
<1>11. \A d \in Caller \ {c} : \A q : q = call[d] => CallOK(q)'
  BY <1>9, CallFacts
<1>12. Becomes(c, r)
  BY <1>6 DEF Authorize, Go
<1> QED
  BY <1>4, <1>5, <1>7, <1>8, <1>10, <1>11, <1>12, CallsKept, Joined

\* The action: the only call that may act under the approval does, once.
LEMMA ActStep ==
  ASSUME RootIInv, NEW c \in Caller, Act(c)
  PROVE  RootIInv'
<1>1. PICK a \in RootApproval : a = call[c].appr
  BY CallFacts DEF Act, At, CallOK, Holding
<1>2. PICK t \in Task \cup {None} : t = call[c].task
  BY CallFacts
<1>3. /\ call[c].pc = "act" /\ acts[a] = 0 /\ phase[a] = "consumed"
      /\ t # None => Belongs(a, t)
  BY <1>1, <1>2, CallFacts, NoneOutside DEF Act, At, CallOK
<1>4. /\ acts' = [acts EXCEPT ![a] = @ + 1]
      /\ ran' = [ran EXCEPT ![a] = IF t = None THEN @ ELSE @ \cup {t}]
      /\ Becomes(c, [call[c] EXCEPT !.pc = IF t = None THEN "idle" ELSE "finish",
                                     !.appr = None])
      /\ UNCHANGED <<approvals, tasks, granted>>
  BY <1>1, <1>2 DEF Act
<1>5. acts'[a] = 1 /\ acts' \in [RootApproval -> Nat]
  BY <1>3, <1>4, Parts DEF LedgerFits
<1>6. TasksFit'
  BY <1>4, TasksKept DEF approvals, tasks
<1>7. LedgerFits'
  <2>1. \A b \in RootApproval : ApprovalOK(b)'
    BY <1>3, <1>4, <1>5, Parts DEF LedgerFits, ApprovalOK, approvals, tasks
  <2>2. (ran \in [RootApproval -> SUBSET Task])'
    BY <1>2, <1>4, Parts DEF LedgerFits
  <2> QED
    BY <1>4, <1>5, <2>1, <2>2, Parts DEF LedgerFits, approvals
<1>8. PICK l \in {"idle", "finish"} :
        /\ Becomes(c, [call[c] EXCEPT !.pc = l, !.appr = None])
        /\ l = "finish" => t # None
  BY <1>4
<1>9. PICK r : r = [call[c] EXCEPT !.pc = l, !.appr = None]
  OBVIOUS
<1>10. r \in CallState /\ r.pc = l /\ r.task = t /\ r.appr = None
  BY <1>1, <1>2, <1>9, CallFacts, Labels DEF CallState
<1>11. CallOK(r)'
  BY <1>3, <1>4, <1>8, <1>10, NoneOutside DEF CallOK, Tasked, Holding, approvals
<1>12. \A d \in Caller \ {c} : \A q : q = call[d] => CallOK(q)'
  <2> SUFFICES ASSUME NEW d \in Caller \ {c}, NEW q, q = call[d] PROVE CallOK(q)'
    OBVIOUS
  <2>1. q.pc = "act" => q.appr # a
    BY <1>1, <1>3 DEF RootIInv, Solo
  <2>2. q \in CallState /\ CallOK(q)
    BY CallFacts
  <2>3. q.pc = "act" => q.appr \in RootApproval
    BY <2>2 DEF CallOK, CallState, Holding
  <2>4. q.pc = "act" => acts'[q.appr] = acts[q.appr]
    BY <1>4, <2>1, <2>3, Parts DEF LedgerFits
  <2> QED
    BY <1>4, <2>2, <2>4 DEF CallOK, Tasked, Holding, approvals, tasks
<1>13. Becomes(c, r)
  BY <1>8, <1>9
<1> QED
  BY <1>6, <1>7, <1>8, <1>10, <1>11, <1>12, <1>13, CallsKept, Joined

LEMMA CrashStep ==
  ASSUME RootIInv, Crash
  PROVE  RootIInv'
<1>1. UNCHANGED <<approvals, ledgers>> /\ call' = [c \in Caller |-> NoCall]
  BY DEF Crash
<1>2. TasksFit' /\ carried' = carried
  <2>1. CASE UNCHANGED tasks
    BY <1>1, <2>1, TasksKept DEF approvals, tasks
  <2>2. CASE \E c \in Caller : /\ state' = [state EXCEPT ![call[c].task] = "lost"]
                             /\ UNCHANGED <<root, carried>>
    <3>1. PICK t : /\ state' = [state EXCEPT ![t] = "lost"]
                   /\ root' = root /\ carried' = carried
      BY <2>2
    <3> QED
      BY <1>1, <3>1, Parts DEF TasksFit, TaskOK, approvals
  <2> QED
    BY <2>1, <2>2 DEF Crash
<1>3. LedgerFits'
  BY <1>1, <1>2, LedgerKept
<1>4. (call \in [Caller -> CallState])'
  BY <1>1, NoCallFacts DEF CallState, Label
<1>5. \A d \in Caller : CallOK(call[d])'
  BY <1>1 DEF CallOK, NoCall, Tasked, Holding
<1>6. Solo'
  BY <1>1 DEF Solo, NoCall
<1> QED
  BY <1>2, <1>3, <1>4, <1>5, <1>6, Joined

-----------------------------------------------------------------------------

LEMMA RootInitIInv == RootInit => RootIInv
<1> SUFFICES ASSUME RootInit PROVE RootIInv
  OBVIOUS
<1>1. /\ phase = [a \in RootApproval |-> "none"] /\ accepted = [a \in RootApproval |-> 0]
      /\ taskOf = [a \in RootApproval |-> None]
      /\ state = [t \in Task |-> "none"] /\ root = [t \in Task |-> None]
      /\ carried = [t \in Task |-> None]
      /\ call = [c \in Caller |-> NoCall]
      /\ acts = [a \in RootApproval |-> 0] /\ ran = [a \in RootApproval |-> {}] /\ granted = {}
  BY DEF RootInit, Store!Init
<1>3. call \in [Caller -> CallState] /\ \A c \in Caller : CallOK(call[c])
  BY <1>1, NoCallFacts
<1>4. Solo
  BY <1>1, NoCallFacts DEF Solo
<1>5. RootTypeOK
  BY <1>1, <1>3 DEF RootTypeOK
<1>6. (\A t \in Task : TaskOK(t)) /\ (\A a \in RootApproval : ApprovalOK(a))
  BY <1>1 DEF TaskOK, ApprovalOK
<1> QED
  BY <1>3, <1>4, <1>5, <1>6 DEF RootIInv

LEMMA StutterStep ==
  ASSUME RootIInv, UNCHANGED rootVars
  PROVE  RootIInv'
<1>1. UNCHANGED <<approvals, tasks, call, ledgers>>
  BY DEF rootVars
<1>2. \A q \in CallState : CallOK(q) => CallOK(q)'
  BY <1>1 DEF CallOK, approvals, tasks, ledgers, Tasked, Holding
<1>3. TasksFit' /\ LedgerFits'
  BY <1>1, TasksKept, LedgerKept DEF approvals, tasks
<1> QED
  BY <1>1, <1>2, <1>3, CallsStay, Joined

LEMMA RootInductive ==
  ASSUME RootIInv, [RootNext]_rootVars
  PROVE  RootIInv'
<1>1. ASSUME NEW c \in Caller, Step(c) PROVE RootIInv'
  <2>1. CASE RunGet(c)
    BY <2>1, RunGetStep
  <2>2. CASE ResolveApproval(c)
    BY <2>2, ResolveApprovalStep
  <2>3. CASE RequestApproval(c)
    BY <2>3, RequestApprovalStep
  <2>4. CASE Refuse(c) \/ Reject(c) \/ RequestFails(c) \/ RequeueGet(c)
    BY <2>4, QuietStep
  <2>5. CASE AwaitApproval(c)
    BY <2>5, AwaitApprovalStep
  <2>6. CASE BlockTask(c)
    BY <2>6, KeepRootStep DEF BlockTask, Tasked
  <2>7. CASE Authorize(c)
    BY <2>7, AuthorizeStep
  <2>8. CASE Act(c)
    BY <2>8, ActStep
  <2>9. CASE Finish(c)
    BY <2>9, KeepRootStep DEF Finish, Tasked
  <2>10. CASE RequeueMove(c)
    BY <2>10, RequeueMoveStep
  <2>11. CASE ActivateTask(c)
    BY <2>11, KeepRootStep DEF ActivateTask, Tasked
  <2>12. CASE DenyMove(c)
    BY <2>12, DenyMoveStep
  <2>13. CASE Advance(c)
    BY <2>13, AdvanceStep
  <2>14. CASE PlanTask(c)
    BY <2>14, PlanTaskStep
  <2> QED
    BY <1>1, <2>1, <2>2, <2>3, <2>4, <2>5, <2>6, <2>7, <2>8, <2>9, <2>10, <2>11, <2>12,
       <2>13, <2>14
    DEF Step
<1>2. ASSUME NEW c \in Caller, NEW t \in Task,
             \/ SubmitTask(c, t) \/ RunTask(c, t)
             \/ ApproveTask(c, t) \/ DenyTask(c, t)
      PROVE  RootIInv'
  BY <1>2, SubmitTaskStep, RunTaskStep, ApproveTaskStep, DenyTaskStep
<1>3. ASSUME NEW c \in Caller, NEW t \in Task \cup {None}, CreateRootApproval(c, t)
      PROVE  RootIInv'
  BY <1>3, CreateRootApprovalStep
<1>4. ASSUME NEW c \in Caller, NEW a \in RootApproval,
             ApproveApproval(c, a) \/ DenyApproval(c, a) \/ DirectExecute(c, a)
      PROVE  RootIInv'
  BY <1>4, ApproveApprovalStep, DenyApprovalStep, DirectExecuteStep
<1>5. ASSUME NEW a \in RootApproval, LoseApproval(a) PROVE RootIInv'
  BY <1>5, LoseApprovalStep
<1>6. CASE Crash
  BY <1>6, CrashStep
<1>7. CASE UNCHANGED rootVars
  BY <1>7, StutterStep
<1> QED
  BY <1>1, <1>2, <1>3, <1>4, <1>5, <1>6, <1>7, Zenon DEF RootNext

LEMMA Invariant == RootSpec => []RootIInv
<1>1. RootIInv /\ [RootNext]_rootVars => RootIInv'
  BY RootInductive
<1> QED
  BY <1>1, RootInitIInv, PTL DEF RootSpec

\* The two stores, the calls and the ledgers keep their types through every
\* handler, fault and crash.
THEOREM RootTypeCorrect == RootSpec => []RootTypeOK
<1>1. RootIInv => RootTypeOK
  BY DEF RootIInv
<1> QED
  BY <1>1, Invariant, PTL

\* A human's approval lets at most one root action through, for any number
\* of requests that run the task, or present the token, at once
\* (Executor.authorizeProfile).
THEOREM OneActionPerApprovalHolds == RootSpec => []OneActionPerApproval
<1>1. RootIInv => OneActionPerApproval
  BY DEF RootIInv, ApprovalOK, OneActionPerApproval
<1> QED
  BY <1>1, Invariant, PTL

\* No root action without a human's approval, and none under a denied one.
THEOREM ActsOnlyGrantedHolds == RootSpec => []ActsOnlyGranted
<1>1. RootIInv => ActsOnlyGranted
  BY DEF RootIInv, ApprovalOK, ActsOnlyGranted
<1> QED
  BY <1>1, Invariant, PTL

\* The runner acts for a task only under an approval requested for it, or
\* named when it was submitted, whatever handlers write to root_approval_id
\* meanwhile.
THEOREM OnlyClientsBorrowHolds == RootSpec => []OnlyClientsBorrow
<1>1. RootIInv => OnlyClientsBorrow
  BY DEF RootIInv, ApprovalOK, OnlyClientsBorrow
<1> QED
  BY <1>1, Invariant, PTL

\* A task that waits for approval names a request, made for it or
\* named by its client (Runner.awaitApproval).
THEOREM AwaitingNamesRequestHolds == RootSpec => []AwaitingNamesRequest
<1>1. RootIInv => AwaitingNamesRequest
  BY DEF RootIInv, TaskOK, AwaitingNamesRequest
<1> QED
  BY <1>1, Invariant, PTL

\* Every root action is authorised (resolveRootApproval, authorizeProfile).
THEOREM AuthorisedHolds == RootSpec => []Authorised
  BY OneActionPerApprovalHolds, ActsOnlyGrantedHolds, OnlyClientsBorrowHolds,
     AwaitingNamesRequestHolds, PTL DEF Authorised
=============================================================================
