----------------------------- MODULE MCStage2 ------------------------------
(* Two interchangeable VMs, tables of three entries.  The image ends in    *)
(* the block of pages in which the devices begin, the devices end in the   *)
(* next one, and guests reach a second first-level entry.                  *)
EXTENDS Stage2, TLC

\* The guest's own translation is off or flat.
Flat == [p \in Pages |-> p]

Symmetry == Permutations(VMs)
=============================================================================
