--------------------------- MODULE ApprovalGrant ---------------------------
(***************************************************************************)
(* What the approval store promises its callers, without files, tokens or  *)
(* locks: an approval is a one-shot capability.  It is requested, granted  *)
(* or revoked by a human, and spent at most once; a fault may destroy it   *)
(* at any moment but never brings it back.                                 *)
(***************************************************************************)
EXTENDS Naturals

CONSTANT Approval

VARIABLES
  phase,    \* where each approval stands
  accepted  \* how often each approval let a root action through

avars == <<phase, accepted>>

Init ==
  /\ phase = [a \in Approval |-> "none"]
  /\ accepted = [a \in Approval |-> 0]

Become(a, from, to) ==
  /\ phase[a] \in from
  /\ phase' = [phase EXCEPT ![a] = to]

Request(a) == Become(a, {"none"}, "pending") /\ UNCHANGED accepted

Grant(a) == Become(a, {"pending"}, "approved") /\ UNCHANGED accepted

Revoke(a) == Become(a, {"pending", "approved"}, "denied") /\ UNCHANGED accepted

Spend(a) ==
  /\ Become(a, {"approved"}, "consumed")
  /\ accepted' = [accepted EXCEPT ![a] = @ + 1]

Lose(a) ==
  /\ Become(a, {"none", "pending", "approved"}, "lost")
  /\ UNCHANGED accepted

Next == \E a \in Approval :
  Request(a) \/ Grant(a) \/ Revoke(a) \/ Spend(a) \/ Lose(a)

Spec == Init /\ [][Next]_avars
=============================================================================
