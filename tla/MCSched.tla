------------------------------ MODULE MCSched ------------------------------
(* Constants for model checking Sched: three slots are enough for a shell, *)
(* a VM that has the serial line and one that has not.                     *)
EXTENDS Sched
=============================================================================
