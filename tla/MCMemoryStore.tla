--------------------------- MODULE MCMemoryStore ---------------------------
(***************************************************************************)
(* The instance of MemoryStore for TLC.  Two cards give edges in both      *)
(* directions; three versions let a card be updated after a fault and      *)
(* after a rebuild; one failed write and one crash meet in either order.   *)
(* The cards are interchangeable.                                          *)
(***************************************************************************)
EXTENDS MemoryStore, TLC

Symmetry == Permutations(Card)
=============================================================================
