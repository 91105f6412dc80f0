------------------------------ MODULE MCVTimer ------------------------------
(* Two guests with two of the four compare registers, and a clock that in  *)
(* one configuration stays below 2^32 and in the other passes it.  The     *)
(* guests are interchangeable.                                             *)
EXTENDS VTimer, TLC

Symmetry == Permutations(VMs)
=============================================================================
