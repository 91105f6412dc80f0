------------------------------- MODULE MCHeap -------------------------------
(* A heap that is full before vm_init() has what it needs.                 *)
EXTENDS Heap
=============================================================================
