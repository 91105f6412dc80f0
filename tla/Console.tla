------------------------------ MODULE Console ------------------------------
(***************************************************************************)
(* The ring buffer behind each VM's serial input and output                *)
(* (core/console.c).  begin is the oldest character, end the next free     *)
(* place, used the number of characters; a full and an empty buffer have   *)
(* begin = end, so every operation must keep the three in step.            *)
(***************************************************************************)
EXTENDS Integers, Sequences

CONSTANTS Room,   \* CONFIG_VM_CONSOLE_BUFFER_SIZE
          Char

ASSUME RoomAssumption == Room \in Nat \ {0}

VARIABLES buffer, begin, end, used,
          out     \* what the last operation handed out, oldest first

consoleVars == <<buffer, begin, end, used, out>>

Places == 0 .. Room - 1

ConsoleTypeOK ==
  /\ buffer \in [Places -> Char]
  /\ begin \in Places
  /\ end \in Places
  /\ used \in 0 .. Room
  /\ out \in Seq(Char)

\* vm_init() zeroes the indices and fills the buffer with one character.
ConsoleInit ==
  /\ \E c \in Char : buffer = [p \in Places |-> c]
  /\ begin = 0 /\ end = 0 /\ used = 0
  /\ out = <<>>

console_full  == used = Room
console_empty == used = 0

\* (i + 1) % CONFIG_VM_CONSOLE_BUFFER_SIZE, for an index of the buffer.
After(i) == IF i = Room - 1 THEN 0 ELSE i + 1

\* The place of the i-th oldest character.
Place(i) == IF begin + i < Room THEN begin + i ELSE begin + i - Room

Contents == [i \in 1 .. used |-> buffer[Place(i - 1)]]

console_push(c) ==
  /\ IF console_full
     THEN UNCHANGED <<buffer, end, used>>
     ELSE /\ buffer' = [buffer EXCEPT ![end] = c]
          /\ end' = After(end)
          /\ used' = used + 1
  /\ out' = <<>>
  /\ UNCHANGED begin

\* Mutant of console_pop: the index is advanced before it is used.
PopAdvanced ==
  /\ IF console_empty
     THEN out' = <<>> /\ UNCHANGED <<begin, used>>
     ELSE /\ out' = <<buffer[After(begin)]>>
          /\ begin' = After(begin)
          /\ used' = used - 1
  /\ UNCHANGED <<buffer, end>>

console_pop ==
  /\ IF console_empty
     THEN out' = <<>> /\ UNCHANGED <<begin, used>>
     ELSE /\ out' = <<buffer[begin]>>
          /\ begin' = After(begin)
          /\ used' = used - 1
  /\ UNCHANGED <<buffer, end>>

\* Mutant of console_clear: the read index is left where it was.
ClearEndOnly ==
  /\ end' = 0 /\ used' = 0
  /\ out' = <<>>
  /\ UNCHANGED <<buffer, begin>>

console_clear ==
  /\ begin' = 0 /\ end' = 0 /\ used' = 0
  /\ out' = <<>>
  /\ UNCHANGED buffer

\* Pops until the buffer is empty and transmits each character.
console_flush ==
  /\ out' = Contents
  /\ begin' = Place(used)
  /\ used' = 0
  /\ UNCHANGED <<buffer, end>>

ConsoleNext ==
  \/ \E c \in Char : console_push(c)
  \/ console_pop \/ console_clear \/ console_flush

ConsoleSpec == ConsoleInit /\ [][ConsoleNext]_consoleVars

-----------------------------------------------------------------------------
(* Properties *)

\* The write index is always used places after the read index, around the
\* end of the array, whatever mixture of pushes, pops and clears led here.
IndexInv == end = Place(used)

\* The buffer is a queue that loses only what is pushed when it is full.
Q == INSTANCE Fifo WITH Size <- Room, queue <- Contents

IsFifo == Q!Spec
=============================================================================
