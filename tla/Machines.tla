------------------------------ MODULE Machines ------------------------------
(***************************************************************************)
(* What the trap layer promises: every guest runs on a machine of its own. *)
(* One guest at a time executes instructions, each of those that trap is   *)
(* carried out once and in order, by its own registers, and a load puts    *)
(* its value into the register it names and into no other -- as far as it  *)
(* names one of the registers Low.                                         *)
(***************************************************************************)
EXTENDS Integers

CONSTANTS Guests, Shell, Slots, Low

VARIABLES current,  \* who is on the CPU
          pc,       \* trapped instructions each guest has executed, modulo 2
          x,        \* general registers of each guest
          did       \* the instruction executed last: what, and the register it names

mvars == <<current, pc, x, did>>

Others == \A g \in Guests \ {current} : x'[g] = x[g]
Goes   == pc' = [pc EXCEPT ![current] = 1 - @]

MInit ==
  /\ current = Shell /\ pc = [g \in Guests |-> 0] /\ x = [g \in Guests |-> [s \in Slots |-> {}]]
  /\ did = [op |-> "none", n |-> 0]

\* An instruction that does not trap.
Compute ==
  /\ current \in Guests /\ did'.op = "none" /\ Others /\ UNCHANGED <<current, pc>>

Load ==
  /\ current \in Guests /\ did'.op = "load" /\ Others /\ Goes /\ UNCHANGED current
  /\ did'.n \in Low => \A s \in Slots \ {did'.n} : x'[current][s] = x[current][s]

Store == current \in Guests /\ did'.op = "store" /\ Goes /\ UNCHANGED <<current, x>>
Wait  == current \in Guests /\ did'.op = "wait" /\ Goes /\ UNCHANGED x

\* An interrupt, after which another guest may go on.
Interrupt == did'.op = "none" /\ UNCHANGED <<pc, x>>

MNext == Compute \/ Load \/ Store \/ Wait \/ Interrupt

MSpec == MInit /\ [][MNext]_mvars
=============================================================================
