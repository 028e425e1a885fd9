---------------------------- MODULE MCApprovals ----------------------------
(***************************************************************************)
(* The approval store on a small instance: two profiles, so that a token   *)
(* can be presented for the wrong one, and a clock that runs past a        *)
(* deadline.                                                               *)
(***************************************************************************)
EXTENDS Approvals
=============================================================================
