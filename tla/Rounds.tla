------------------------------- MODULE Rounds -------------------------------
(***************************************************************************)
(* What deltaV's scheduler promises, without quanta, ticks or interrupts:  *)
(* execution proceeds in rounds, and in every round every virtual machine  *)
(* gets exactly one turn.  A machine that joins during a round still gets  *)
(* its turn in that round.  Nothing is said about when a turn ends.        *)
(***************************************************************************)
CONSTANTS VM,      \* the slots of vmlist
          First    \* the machine that exists from the start (the shell)

VARIABLES members, \* the machines that exist
          turn,    \* the machine whose turn it is
          waiting  \* the machines that have not had their turn in this round

vars == <<members, turn, waiting>>

Init == members = {First} /\ turn = First /\ waiting = {}

Join(v) ==
  /\ v \notin members
  /\ members' = members \cup {v}
  /\ waiting' = waiting \cup {v}
  /\ UNCHANGED turn

NextTurn(v) ==
  /\ v \in waiting
  /\ turn' = v
  /\ waiting' = waiting \ {v}
  /\ UNCHANGED members

NewRound(v) ==
  /\ waiting = {}
  /\ v \in members
  /\ turn' = v
  /\ waiting' = members \ {v}
  /\ UNCHANGED members

Next == \E v \in VM : Join(v) \/ NextTurn(v) \/ NewRound(v)

Spec == Init /\ [][Next]_vars
=============================================================================
