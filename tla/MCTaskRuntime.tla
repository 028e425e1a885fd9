--------------------------- MODULE MCTaskRuntime ---------------------------
(***************************************************************************)
(* Instances of TaskRuntime for TLC.  Two tasks and two callers give every *)
(* pair of calls on one task and on two; three tasks, one caller and one    *)
(* crash give an orphaned, an active and an inbox task side by side.  The  *)
(* system may stop when nobody calls.                                      *)
(***************************************************************************)
EXTENDS TaskRuntime, TLC

\* Callers are interchangeable; used where only safety is checked.
CallerSymmetry == Permutations(Caller)
=============================================================================
