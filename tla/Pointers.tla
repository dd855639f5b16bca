------------------------------ MODULE Pointers ------------------------------
(* What LRUReplacer and Tuple, which manage memory themselves, test their   *)
(* pointers against.                                                        *)
CONSTANT nullptr
=============================================================================
