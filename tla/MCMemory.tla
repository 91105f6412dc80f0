------------------------------ MODULE MCMemory ------------------------------
(* The heap and the stage-2 tables.  Heap: two calls of vm_init(), as in   *)
(* main(): both fail, one fails before or after the other, or both         *)
(* succeed, with room for guests to fault after.  Stage2: see MCStage2.    *)
EXTENDS Heap, MCStage2

MemoryInit == HeapInit /\ Init

\* A behaviour is one of the heap or one of the tables.  They meet in two
\* facts, each of which one side shows and the other takes for granted: blocks
\* are disjoint (Exclusive), and tables are put on pages that never held data
\* (TablesFresh).  Their product would only repeat each of them.
HeapUntouched   == at = "boot" /\ blocks = {}
TablesUntouched == pc = "idle" /\ taken = 0

HeapSteps  == TablesUntouched /\ HeapNext /\ UNCHANGED vars
TableSteps == HeapUntouched /\ Next /\ UNCHANGED heapVars

MemorySpec == MemoryInit /\ [][HeapSteps \/ TableSteps]_<<heapVars, vars>>
=============================================================================
