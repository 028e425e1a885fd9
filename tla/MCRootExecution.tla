-------------------------- MODULE MCRootExecution --------------------------
(***************************************************************************)
(* Instances of RootExecution for TLC.  Two callers race on one task and   *)
(* on two; two approvals allow the duplicate request that two concurrent   *)
(* first runs of a task create.                                            *)
(***************************************************************************)
EXTENDS RootExecution, TLC

\* Callers are interchangeable, and so are tasks and approvals; used for safety
\* only.
Symmetry ==
  Permutations(Caller) \cup Permutations(Task) \cup Permutations(RootApproval)
=============================================================================
