------------------------------ MODULE MCSerial ------------------------------
(* Two interchangeable guests, each of which writes three characters.  A   *)
(* buffer of one character is full after the first, so that every write of *)
(* a guest that is not connected meets an empty or a full buffer.  What    *)
(* the line takes for a queue is the ring buffer of Console, explored next *)
(* to it: it has three places, so that once wrapped it can hold a          *)
(* character on either side of the end of the array and have one free.     *)
EXTENDS Serial, Console, TLC

LineInit == Init /\ ConsoleInit

\* A behaviour is one of the line or one of the ring buffer: the two share
\* nothing, and their product would only repeat each of them.  Nor does the
\* line need more than one of the buffer's initial states.
LineUntouched   == Init
BufferUntouched == ConsoleInit /\ buffer[0] = CHOOSE c \in Char : TRUE

LineSteps   == BufferUntouched /\ Next /\ UNCHANGED consoleVars
BufferSteps == LineUntouched /\ ConsoleNext /\ UNCHANGED vars

LineSpec == LineInit /\ [][LineSteps \/ BufferSteps]_<<vars, consoleVars>>

Symmetry == Permutations(Guests)
=============================================================================
