--------------------------- MODULE MCLRUReplacer ---------------------------
(***************************************************************************)
(* LRUReplacer for TLC.  The addresses are interchangeable: no operation   *)
(* compares them with anything but each other.                             *)
(***************************************************************************)
EXTENDS LRUReplacer, TLC

Symmetry == Permutations(Addr)
=============================================================================
