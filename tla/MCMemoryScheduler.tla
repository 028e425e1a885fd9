------------------------- MODULE MCMemoryScheduler -------------------------
(***************************************************************************)
(* The instance of MemoryScheduler for TLC: two callers, a policy that one *)
(* candidate satisfies and one that it does not, and a cooldown of two     *)
(* ticks, so that time passes within it and past it.                       *)
(***************************************************************************)
EXTENDS MemoryScheduler
=============================================================================
