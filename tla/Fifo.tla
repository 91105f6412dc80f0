-------------------------------- MODULE Fifo --------------------------------
(***************************************************************************)
(* What a console buffer of deltaV promises to its users: a queue of at    *)
(* most Size characters that forgets what arrives when it is full and      *)
(* otherwise hands out what was put in, in the same order, once.           *)
(***************************************************************************)
EXTENDS Naturals, Sequences

CONSTANTS Size,   \* CONFIG_VM_CONSOLE_BUFFER_SIZE
          Char    \* the characters

VARIABLES queue,  \* the characters in the buffer, oldest first
          out     \* what the last operation handed out

vars == <<queue, out>>

Init == queue = <<>> /\ out = <<>>

Push(c) ==
  /\ queue' = IF Len(queue) < Size THEN Append(queue, c) ELSE queue
  /\ out' = <<>>

Pop ==
  IF queue = <<>> THEN queue' = queue /\ out' = <<>>
                  ELSE queue' = Tail(queue) /\ out' = <<Head(queue)>>

Flush == queue' = <<>> /\ out' = queue

Clear == queue' = <<>> /\ out' = <<>>

Next == (\E c \in Char : Push(c)) \/ Pop \/ Flush \/ Clear

Spec == Init /\ [][Next]_vars
=============================================================================
