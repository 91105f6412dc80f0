---------------------------- MODULE VTimerProofs ----------------------------
(***************************************************************************)
(* As long as the upper word of the timer is 0 (for the first 71 minutes), *)
(* the clock of a guest shows exactly the ticks it was on the CPU, for any *)
(* number of guests and compare registers.  The run of MCVTimerWrap.cfg    *)
(* shows that the condition is needed.                                     *)
(*                                                                         *)
(* The 64-bit sums never wrap because of an order: a guest that is away    *)
(* was inactive no longer than until it left, and it left in the past.     *)
(***************************************************************************)
EXTENDS VTimer, WellFoundedInduction, TLAPS

Running(v) == v = current /\ mode = "guest"

Ordered ==
  \A v \in VMs :
    IF Running(v)
    THEN /\ time_not_active[v] <= clock
         /\ clock - time_not_active[v] = active[v]
    ELSE /\ time_not_active[v] <= last_recorded[v]
         /\ last_recorded[v] <= clock
         /\ last_recorded[v] - time_not_active[v] = active[v]

IInv == TypeOK /\ Ordered

\* Before the lower word wraps, get_phys_time() is the counter.
LEMMA PhysTime ==
  ASSUME TypeOK, ClockMax < Word
  PROVE  get_phys_time = clock /\ clock < Word /\ clock < Wide /\ clock \in Nat
BY TimerAssumption DEF TypeOK, get_phys_time, Clo, Chi

\* Modes in which no guest is on the CPU.
LEMMA NotRunning ==
  ASSUME mode # "guest", NEW v \in VMs PROVE ~Running(v)
BY DEF Running

\* vcpu_initialise(): no time has passed for anybody.
LEMMA InitInv == Init => IInv
<1> SUFFICES ASSUME Init PROVE IInv
  OBVIOUS
<1> USE TimerAssumption DEF Init
<1>1. m3 \in BOOLEAN
  BY Zenon
<1>2. c \in [VMs -> [Registers -> 0 .. Word - 1]]
  OBVIOUS
<1>3. TypeOK
  BY <1>1, <1>2 DEF TypeOK
<1>4. Ordered
  BY DEF Ordered, Running
<1> QED BY <1>3, <1>4 DEF IInv

\* Time passes for the running guest and for nobody else.
LEMMA TickInv == ASSUME IInv, Tick PROVE IInv'
<1> USE TimerAssumption
<1>1. clock' = clock + 1 /\ clock' \in 0 .. ClockMax
  BY DEF Tick, IInv, TypeOK
<1>2. active' \in [VMs -> 0 .. ClockMax]
  <2>1. CASE mode = "guest"
    <3>1. active[current] <= clock
      BY <2>1 DEF IInv, Ordered, Running, TypeOK
    <3>2. active[current] + 1 \in 0 .. ClockMax
      BY <3>1, <1>1 DEF IInv, TypeOK
    <3> QED BY <2>1, <3>2 DEF Tick, IInv, TypeOK
  <2>2. CASE mode # "guest"
    BY <2>2 DEF Tick, IInv, TypeOK
  <2> QED BY <2>1, <2>2
<1>3. m3' \in BOOLEAN
  BY DEF Tick
<1>4. TypeOK'
  BY <1>1, <1>2, <1>3 DEF Tick, IInv, TypeOK
<1>5. Ordered'
  <2> SUFFICES ASSUME NEW v \in VMs
               PROVE IF Running(v)'
                     THEN /\ time_not_active'[v] <= clock'
                          /\ clock' - time_not_active'[v] = active'[v]
                     ELSE /\ time_not_active'[v] <= last_recorded'[v]
                          /\ last_recorded'[v] <= clock'
                          /\ last_recorded'[v] - time_not_active'[v] = active'[v]
    BY DEF Ordered
  <2>1. Running(v)' <=> Running(v)
    BY DEF Tick, Running
  <2>2. active'[v] = IF Running(v) THEN active[v] + 1 ELSE active[v]
    BY DEF Tick, Running, IInv, TypeOK
  <2>3. /\ time_not_active[v] \in Nat /\ last_recorded[v] \in Nat /\ active[v] \in Nat
        /\ clock \in Nat
    BY DEF IInv, TypeOK
  <2> QED BY <1>1, <2>1, <2>2, <2>3 DEF Tick, IInv, Ordered
<1> QED BY <1>4, <1>5 DEF IInv

\* vcpu_exit() fixes the moment a guest left.
LEMMA ExitInv ==
  ASSUME IInv, ClockMax < Word, mode = "guest", vcpu_exit,
         mode' \in {"trap", "hypervisor"}, m3' \in BOOLEAN, UNCHANGED <<c3, cs>>
  PROVE  IInv'
<1> USE TimerAssumption
<1>1. get_phys_time = clock /\ clock \in 0 .. Wide - 1 /\ clock \in Nat
  BY PhysTime DEF IInv
<1>2. last_recorded' = [last_recorded EXCEPT ![current] = clock]
  BY <1>1 DEF vcpu_exit
<1>3. TypeOK'
  BY <1>1, <1>2 DEF vcpu_exit, IInv, TypeOK
<1>4. \A v \in VMs : ~Running(v)'
  BY DEF Running
<1>5. ASSUME NEW v \in VMs
      PROVE  /\ time_not_active[v] <= last_recorded'[v]
             /\ last_recorded'[v] <= clock
             /\ last_recorded'[v] - time_not_active[v] = active[v]
  <2>1. CASE v = current
    BY <1>1, <1>2, <2>1 DEF IInv, Ordered, Running, TypeOK
  <2>2. CASE v # current
    BY <1>2, <2>2 DEF IInv, Ordered, Running, TypeOK
  <2> QED BY <2>1, <2>2
<1>6. Ordered'
  BY <1>4, <1>5 DEF Ordered, vcpu_exit
<1> QED BY <1>3, <1>6 DEF IInv

\* vcpu_enter() counts the time since then as inactive.
LEMMA EnterInv ==
  ASSUME IInv, ClockMax < Word, NEW v \in VMs, Enter(v) PROVE IInv'
<1> USE TimerAssumption
<1> DEFINE idle == time_not_active[v] + (clock - last_recorded[v])
           virt == clock - idle
<1>1. /\ get_phys_time = clock /\ clock \in Nat /\ clock < Wide
      /\ mode # "guest"
  BY PhysTime DEF IInv, Enter
<1>2. /\ time_not_active[v] \in Nat /\ last_recorded[v] \in Nat /\ active[v] \in Nat
      /\ time_not_active[v] <= last_recorded[v] /\ last_recorded[v] <= clock
      /\ last_recorded[v] - time_not_active[v] = active[v]
  BY <1>1 DEF IInv, TypeOK, Ordered, Running
<1>3. /\ Minus(clock, last_recorded[v]) = clock - last_recorded[v]
      /\ Plus(time_not_active[v], clock - last_recorded[v]) = idle
      /\ Minus(clock, idle) = virt
      /\ idle \in 0 .. Wide - 1 /\ idle <= clock /\ virt = active[v]
  BY <1>1, <1>2 DEF Plus, Minus
<1>4. /\ time_not_active' = [time_not_active EXCEPT ![v] = idle]
      /\ cs' = [cs EXCEPT ![v] = @ \cup Matched(v, virt)]
      /\ \/ due' = None /\ c3' = c3
         \/ \E i \in Nearest(v, virt) : due' = c[v][i] /\ c3' = Deadline(c[v][i] - virt)
  BY <1>1, <1>3 DEF Enter, vcpu_enter
<1>5. cs' \in [VMs -> SUBSET Registers]
  BY <1>4 DEF IInv, TypeOK, Matched, Ahead
<1>6. c3' \in 0 .. Word - 1 /\ due' \in {None} \cup 0 .. Word - 1
  <2>1. CASE due' = None /\ c3' = c3
    BY <2>1 DEF IInv, TypeOK
  <2>2. CASE \E i \in Nearest(v, virt) : due' = c[v][i] /\ c3' = Deadline(c[v][i] - virt)
    <3>1. PICK i \in Registers : /\ c[v][i] > virt
                                 /\ due' = c[v][i] /\ c3' = Deadline(c[v][i] - virt)
      BY <2>2 DEF Nearest, Ahead
    <3>2. c[v][i] \in 0 .. Word - 1
      BY <3>1 DEF IInv, TypeOK
    <3>3. CloAddress + (c[v][i] - virt) \in Int
      BY <3>2, <1>2, <1>3
    <3> QED BY <3>1, <3>2, <3>3 DEF Deadline
  <2> QED BY <1>4, <2>1, <2>2
<1>7. TypeOK'
  BY <1>3, <1>4, <1>5, <1>6 DEF Enter, IInv, TypeOK
<1>8. Ordered'
  <2>1. ASSUME NEW w \in VMs, w # v
        PROVE  /\ ~Running(w)' /\ ~Running(w)
               /\ time_not_active'[w] = time_not_active[w]
    BY <2>1, <1>1, <1>4 DEF Enter, Running, IInv, TypeOK
  <2>2. /\ Running(v)' /\ time_not_active'[v] = idle
    BY <1>4 DEF Enter, Running, IInv, TypeOK
  <2>3. clock' = clock /\ last_recorded' = last_recorded /\ active' = active
    BY DEF Enter
  <2> QED BY <1>1, <1>2, <1>3, <2>1, <2>2, <2>3 DEF Ordered, IInv
<1> QED BY <1>7, <1>8 DEF IInv

\* The accesses to the registers do not touch time.
LEMMA WriteInv ==
  ASSUME IInv, mode # "guest", mode' = "back",
         c' \in [VMs -> [Registers -> 0 .. Word - 1]], cs' \in [VMs -> SUBSET Registers],
         UNCHANGED <<clock, c3, m3, current, last_recorded, time_not_active, active, due>>
  PROVE  IInv'
<1>1. TypeOK'
  BY DEF IInv, TypeOK
<1>2. Ordered'
  BY DEF IInv, Ordered, Running
<1> QED BY <1>1, <1>2 DEF IInv

\* Every step keeps the invariant, before the lower word wraps.
LEMMA StepInv == ASSUME ClockMax < Word, IInv, [Next]_vars PROVE IInv'
<1>1. CASE Tick
  BY <1>1, TickInv
<1>2. CASE Trap \/ VirtualTimer \/ Preempted
  BY <1>2, ExitInv DEF Trap, VirtualTimer, Preempted, IInv, TypeOK
<1>3. ASSUME NEW i \in Registers, NEW val \in Compares, WriteCompare(i, val) PROVE IInv'
  <2>1. c' \in [VMs -> [Registers -> 0 .. Word - 1]]
    BY <1>3, TimerAssumption DEF WriteCompare, IInv, TypeOK
  <2> QED BY <1>3, <2>1, WriteInv DEF WriteCompare, IInv, TypeOK
<1>4. ASSUME NEW bits \in SUBSET Registers, WriteStatus(bits) PROVE IInv'
  <2>1. cs' \in [VMs -> SUBSET Registers]
    BY <1>4 DEF WriteStatus, IInv, TypeOK
  <2> QED BY <1>4, <2>1, WriteInv DEF WriteStatus, IInv, TypeOK
<1>5. ASSUME NEW v \in VMs, Enter(v) PROVE IInv'
  BY <1>5, EnterInv
<1>6. CASE UNCHANGED vars
  BY <1>6 DEF vars, IInv, TypeOK, Ordered, Running
<1> QED BY <1>1, <1>2, <1>3, <1>4, <1>5, <1>6 DEF Next

\* What the invariant says of the clock a guest sees.
LEMMA Shown == ASSUME ClockMax < Word, IInv PROVE ActiveTime
<1>1. get_phys_time = clock /\ clock \in Nat
  BY PhysTime DEF IInv
<1>2. \A v \in VMs : time_not_active[v] \in Nat /\ last_recorded[v] \in Nat
  BY DEF IInv, TypeOK
<1> QED BY <1>1, <1>2 DEF IInv, Ordered, Running, ActiveTime, get_virt_time, Minus

\* Type correctness: the 64-bit sums stay 64-bit numbers, match bits belong to
\* registers that exist, and nobody was on the CPU longer than time passed.
THEOREM TypeCorrect == ASSUME ClockMax < Word PROVE Spec => []TypeOK
<1>1. Init => IInv
  BY InitInv
<1>2. IInv /\ [Next]_vars => IInv'
  BY StepInv
<1>3. IInv => TypeOK
  BY DEF IInv
<1> QED BY <1>1, <1>2, <1>3, PTL DEF Spec

\* Virtual time is time on the CPU (vcpu.c:351-374): it stands still while a
\* guest is away and is not set back when it returns.
THEOREM VirtualTimeIsActiveTime == ASSUME ClockMax < Word PROVE Spec => []ActiveTime
<1>1. Init => IInv
  BY InitInv
<1>2. IInv /\ [Next]_vars => IInv'
  BY StepInv
<1>3. IInv => ActiveTime
  BY Shown
<1> QED BY <1>1, <1>2, <1>3, PTL DEF Spec

-----------------------------------------------------------------------------
(* Which timer is marked *)

\* A set of natural numbers that is not empty has a least member.
LEMMA Least ==
  ASSUME NEW S \in SUBSET Nat, S # {}
  PROVE  \E m \in S : \A n \in S : m <= n
<1> DEFINE R == OpToRel(<, Nat)
<1>1. IsWellFoundedOn(R, Nat)
  BY NatLessThanWellFounded
<1>2. PICK m \in S : \A n \in S : ~ (<<n, m>> \in R)
  <2> HIDE DEF R
  <2> QED BY <1>1, WFMin
<1>3. ASSUME NEW n \in S PROVE m <= n
  <2>1. n < m => <<n, m>> \in R
    BY DEF OpToRel
  <2>2. ~ (n < m)
    BY <1>2, <2>1
  <2>3. n \in Nat /\ m \in Nat
    BY <1>2
  <2> QED BY <2>2, <2>3
<1> QED BY <1>2, <1>3

\* The loop over the registers marks the first of those that are nearest.
LEMMA NearestIsMatched ==
  ASSUME NEW v \in VMs, NEW virt \in Nat, c[v] \in [Registers -> Nat], Nearest(v, virt) # {}
  PROVE  Nearest(v, virt) \cap Matched(v, virt) # {}
<1>1. Nearest(v, virt) \in SUBSET Nat
  BY TimerAssumption DEF Nearest, Ahead, Registers
<1>2. PICK m \in Nearest(v, virt) : \A n \in Nearest(v, virt) : m <= n
  BY <1>1, Least
<1>3. m \in Ahead(v, virt) /\ \A j \in Ahead(v, virt) : c[v][m] <= c[v][j]
  BY <1>2 DEF Nearest
<1>4. ASSUME NEW j \in Ahead(v, virt), j < m PROVE c[v][m] < c[v][j]
  <2>1. j \in Registers /\ m \in Registers /\ j \in Nat /\ m \in Nat
    BY <1>3, TimerAssumption DEF Ahead, Registers
  <2>2. c[v][m] \in Nat /\ c[v][j] \in Nat /\ c[v][m] <= c[v][j]
    BY <1>3, <2>1
  <2>3. c[v][m] # c[v][j]
    <3>1. SUFFICES ASSUME c[v][m] = c[v][j] PROVE FALSE
      OBVIOUS
    <3>2. \A k \in Ahead(v, virt) : c[v][j] <= c[v][k]
      BY <1>3, <3>1
    <3>3. j \in Nearest(v, virt)
      BY <3>2 DEF Nearest
    <3>4. m <= j
      BY <1>2, <3>3
    <3> QED BY <1>4, <2>1, <3>4
  <2> QED BY <2>2, <2>3
<1>5. m \in Matched(v, virt)
  BY <1>3, <1>4 DEF Matched
<1> QED BY <1>2, <1>5

\* Virtual time, where vcpu_enter() uses it, is the time on the CPU.
LEMMA EnterMarks ==
  ASSUME IInv, ClockMax < Word, NEW v \in VMs, Enter(v)
  PROVE  cs'[v] = cs[v] \cup Matched(v, active[v])
<1> USE TimerAssumption
<1> DEFINE idle == time_not_active[v] + (clock - last_recorded[v])
<1>1. /\ get_phys_time = clock /\ clock \in Nat /\ clock < Wide
      /\ mode # "guest"
  BY PhysTime DEF IInv, Enter
<1>2. /\ time_not_active[v] \in Nat /\ last_recorded[v] \in Nat /\ active[v] \in Nat
      /\ time_not_active[v] <= last_recorded[v] /\ last_recorded[v] <= clock
      /\ last_recorded[v] - time_not_active[v] = active[v]
  BY <1>1 DEF IInv, TypeOK, Ordered, Running
<1>3. /\ Minus(clock, last_recorded[v]) = clock - last_recorded[v]
      /\ Plus(time_not_active[v], clock - last_recorded[v]) = idle
      /\ Minus(clock, idle) = active[v]
  BY <1>1, <1>2 DEF Plus, Minus
<1>4. cs' = [cs EXCEPT ![v] = @ \cup Matched(v, active[v])]
  BY <1>1, <1>3 DEF Enter, vcpu_enter
<1> QED BY <1>4 DEF IInv, TypeOK

\* The step of NearestMarked.
LEMMA EnterMarksNearest ==
  ASSUME IInv, ClockMax < Word, NEW v \in VMs, Enter(v)
  PROVE  LET ahead == {i \in Registers : c[v][i] \in active[v] + 1 .. active[v] + Word - 2}
             next  == {i \in ahead : \A j \in ahead : c[v][i] <= c[v][j]}
         IN  /\ next # {} => next \cap cs'[v] # {}
             /\ cs'[v] \ cs[v] \subseteq ahead
<1> DEFINE ahead == {i \in Registers : c[v][i] \in active[v] + 1 .. active[v] + Word - 2}
           next  == {i \in ahead : \A j \in ahead : c[v][i] <= c[v][j]}
<1>1. active[v] \in Nat /\ c[v] \in [Registers -> Nat] /\ Word \in Nat
  BY TimerAssumption DEF IInv, TypeOK
<1>2. ahead = Ahead(v, active[v])
  <2>1. ASSUME NEW i \in Registers
        PROVE  (c[v][i] \in active[v] + 1 .. active[v] + Word - 2)
               <=> (c[v][i] > active[v] /\ c[v][i] - active[v] < Word - 1)
    <3>1. c[v][i] \in Nat
      BY <1>1
    <3> QED BY <1>1, <3>1
  <2> QED BY <2>1 DEF Ahead
<1>3. next = Nearest(v, active[v])
  BY <1>2 DEF Nearest
<1>4. cs'[v] = cs[v] \cup Matched(v, active[v])
  BY EnterMarks
<1>5. next # {} => next \cap cs'[v] # {}
  <2> HIDE DEF next, ahead
  <2> QED BY <1>1, <1>3, <1>4, NearestIsMatched
<1>6. cs'[v] \ cs[v] \subseteq ahead
  <2> HIDE DEF next, ahead
  <2> QED BY <1>2, <1>4 DEF Matched
<1> QED BY <1>5, <1>6

\* When a guest is entered, the nearest of its timers that lie ahead has its
\* match bit and no timer that is over gets one (vcpu.c:380-406).
THEOREM NearestIsMarked == ASSUME ClockMax < Word PROVE Spec => NearestMarked
<1>1. Init => IInv
  BY InitInv
<1>2. IInv /\ [Next]_vars => IInv'
  BY StepInv
<1>3. IInv /\ [Next]_vars =>
        [\A v \in VMs : Enter(v) =>
           LET ahead == {i \in Registers : c[v][i] \in active[v] + 1 .. active[v] + Word - 2}
               next  == {i \in ahead : \A j \in ahead : c[v][i] <= c[v][j]}
           IN  /\ next # {} => next \cap cs'[v] # {}
               /\ cs'[v] \ cs[v] \subseteq ahead]_vars
  BY EnterMarksNearest
<1> QED BY <1>1, <1>2, <1>3, PTL DEF Spec, NearestMarked
=============================================================================
