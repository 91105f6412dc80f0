------------------------------- MODULE VTimer -------------------------------
(***************************************************************************)
(* The virtual system timer: what hypervisor_entry and hypervisor_exit do  *)
(* to the time of a guest (vcpu_exit() and vcpu_enter() of core/vcpu.c,    *)
(* get_phys_time() and get_virt_time() of drivers/timer.c), the timer      *)
(* registers a guest reads and writes through traps, and the physical      *)
(* compare register C3 that stands in for all its timers.                  *)
(*                                                                         *)
(* A guest sees a clock that stands still while it is not on the CPU:      *)
(* time_not_active collects the ticks between vcpu_exit() and vcpu_enter(),*)
(* and virtual time is physical time less that sum.                        *)
(***************************************************************************)
EXTENDS Integers, FiniteSets

CONSTANTS VMs,         \* the guests; the shell has no use for virtual time
          Timers,      \* compare registers of the system timer, C0 .. C3
          Word,        \* 2^32
          Wide,        \* 2^64
          Compares,    \* the values guests write into compare registers
          ClockMax,    \* bound: ticks of the physical clock
          CloAddress   \* TIMER_CLO, as the 32-bit number it is

ASSUME TimerAssumption ==
  /\ Timers \in Nat \ {0}
  /\ Word \in Nat \ {0} /\ Wide \in Nat /\ Word <= Wide
  /\ Compares \subseteq 0 .. Word - 1
  /\ ClockMax \in Nat /\ ClockMax < 2 * Word
  /\ CloAddress \in 0 .. Word - 1

None == -1    \* no timer of the guest lies ahead

VARIABLES
  clock,            \* ticks of the physical timer since power on
  c3,               \* the physical compare register C3
  m3,               \* its match bit
  current,          \* the guest on the CPU, or the last one that was
  mode,             \* who runs: a guest, its trap, the way back, the hypervisor
  last_recorded,    \* last_recorded_physical_timer_count of each guest
  time_not_active,
  cs,               \* match bits each guest sees
  c,                \* compare registers each guest sees
  active,           \* history: ticks each guest spent on the CPU
  due               \* history: the compare value C3 was last set up for

vars == <<clock, c3, m3, current, mode, last_recorded, time_not_active,
          cs, c, active, due>>

Registers == 0 .. Timers - 1

TypeOK ==
  /\ clock \in 0 .. ClockMax
  /\ c3 \in 0 .. Word - 1
  /\ m3 \in BOOLEAN
  /\ current \in VMs
  /\ mode \in {"guest", "trap", "back", "hypervisor"}
  /\ last_recorded \in [VMs -> 0 .. Wide - 1]
  /\ time_not_active \in [VMs -> 0 .. Wide - 1]
  /\ cs \in [VMs -> SUBSET Registers]
  /\ c \in [VMs -> [Registers -> 0 .. Word - 1]]
  /\ active \in [VMs -> 0 .. ClockMax]
  /\ due \in {None} \cup 0 .. Word - 1

-----------------------------------------------------------------------------
(* Time *)

\* Unsigned 64-bit arithmetic.
Plus(a, b)  == IF a + b < Wide THEN a + b ELSE a + b - Wide
Minus(a, b) == IF a >= b THEN a - b ELSE a - b + Wide

Clo(t) == IF t < Word THEN t ELSE t - Word
Chi(t) == IF t < Word THEN 0 ELSE 1

\* The two words are combined with "|", and the upper one is not shifted.
get_phys_time ==
  IF Chi(clock) = 1 /\ Clo(clock) % 2 = 0 THEN Clo(clock) + 1 ELSE Clo(clock)

get_virt_time(v) == Minus(get_phys_time, time_not_active[v])

\* vcpu_initialise() clears everything.
Init ==
  /\ clock = 0 /\ c3 = 0 /\ m3 = FALSE
  /\ current \in VMs /\ mode = "hypervisor"
  /\ last_recorded = [v \in VMs |-> 0]
  /\ time_not_active = [v \in VMs |-> 0]
  /\ cs = [v \in VMs |-> {}]
  /\ c = [v \in VMs |-> [i \in Registers |-> 0]]
  /\ active = [v \in VMs |-> 0]
  /\ due = None

\* The timer counts, whoever runs, and compares its lower word with C3.
Tick ==
  /\ clock < ClockMax
  /\ clock' = clock + 1
  /\ m3' = (m3 \/ Clo(clock') = c3)
  /\ active' = IF mode = "guest" THEN [active EXCEPT ![current] = @ + 1] ELSE active
  /\ UNCHANGED <<c3, current, mode, last_recorded, time_not_active, cs, c, due>>

-----------------------------------------------------------------------------
(* Leaving a guest *)

\* Mutant of vcpu_exit: only the first departure is recorded.
ExitOnce ==
  /\ last_recorded' = [last_recorded EXCEPT ![current] = IF @ = 0 THEN get_phys_time ELSE @]
  /\ UNCHANGED <<clock, current, time_not_active, c, active, due>>

vcpu_exit ==
  /\ last_recorded' = [last_recorded EXCEPT ![current] = get_phys_time]
  /\ UNCHANGED <<clock, current, time_not_active, c, active, due>>

\* An access to a timer register.
Trap ==
  /\ mode = "guest"
  /\ vcpu_exit
  /\ mode' = "trap"
  /\ UNCHANGED <<c3, m3, cs>>

\* system_timer_3_handler() only acknowledges.
VirtualTimer ==
  /\ mode = "guest" /\ m3
  /\ vcpu_exit
  /\ m3' = FALSE
  /\ mode' = "hypervisor"
  /\ UNCHANGED <<c3, cs>>

\* A scheduler tick, or a guest that waits: another guest may follow.
Preempted ==
  /\ mode = "guest"
  /\ vcpu_exit
  /\ mode' = "hypervisor"
  /\ UNCHANGED <<c3, m3, cs>>

\* write_systimer().
WriteCompare(i, val) ==
  /\ mode = "trap"
  /\ c' = [c EXCEPT ![current][i] = val]
  /\ mode' = "back"
  /\ UNCHANGED <<clock, c3, m3, current, last_recorded, time_not_active, cs, active, due>>

WriteStatus(bits) ==
  /\ mode = "trap"
  /\ cs' = [cs EXCEPT ![current] = @ \ bits]
  /\ mode' = "back"
  /\ UNCHANGED <<clock, c3, m3, current, last_recorded, time_not_active, c, active, due>>

-----------------------------------------------------------------------------
(* Entering a guest *)

\* Registers that lie ahead of virtual time, less than min_cx's first value.
Ahead(v, now) == {i \in Registers : c[v][i] > now /\ c[v][i] - now < Word - 1}

\* Mutant of Matched: a later register wins against an earlier one.
MatchedLatest(v, now) ==
  {i \in Ahead(v, now) : \A j \in Ahead(v, now) : j < i => c[v][i] > c[v][j]}

\* Mutant of Matched: the bits are numbered from 1.
MatchedShifted(v, now) ==
  {i + 1 : i \in {k \in Ahead(v, now) : \A j \in Ahead(v, now) : j < k => c[v][k] < c[v][j]}}

\* Every register that is nearer than all before it.
Matched(v, now) ==
  {i \in Ahead(v, now) : \A j \in Ahead(v, now) : j < i => c[v][i] < c[v][j]}

Nearest(v, now) ==
  {i \in Ahead(v, now) : \A j \in Ahead(v, now) : c[v][i] <= c[v][j]}

\* What C3 is set to: the address of CLO and not its value.
Deadline(left) == (CloAddress + left) % Word

vcpu_enter(v) ==
  LET now == get_phys_time
      idle == Plus(time_not_active[v], Minus(now, last_recorded[v]))
      virt == Minus(now, idle)
  IN  /\ time_not_active' = [time_not_active EXCEPT ![v] = idle]
      /\ cs' = [cs EXCEPT ![v] = @ \cup Matched(v, virt)]
      /\ IF Nearest(v, virt) = {}
           THEN due' = None /\ UNCHANGED c3
           ELSE \E i \in Nearest(v, virt) :
                  due' = c[v][i] /\ c3' = Deadline(c[v][i] - virt)

\* The scheduler may have chosen another guest, a trap returns to its own.
Enter(v) ==
  /\ \/ mode = "hypervisor"
     \/ mode = "back" /\ v = current
  /\ vcpu_enter(v)
  /\ current' = v
  /\ mode' = "guest"
  /\ UNCHANGED <<clock, m3, last_recorded, c, active>>

Next ==
  \/ Tick \/ Trap \/ VirtualTimer \/ Preempted
  \/ \E i \in Registers, val \in Compares : WriteCompare(i, val)
  \/ \E bits \in SUBSET Registers : WriteStatus(bits)
  \/ \E v \in VMs : Enter(v)

Spec == Init /\ [][Next]_vars

-----------------------------------------------------------------------------
(* Properties *)

\* The clock of a guest shows the ticks it has spent on the CPU, and stands at
\* the same value when it comes back as when it left (vcpu.c:360, 372-374).
\* last_recorded and time_not_active are only equal to that together.
ActiveTime ==
  \A v \in VMs :
    IF v = current /\ mode = "guest"
    THEN get_virt_time(v) = active[v]
    ELSE Minus(last_recorded[v], time_not_active[v]) = active[v]

\* "Which ever is going to happen immediately next": when a guest is entered,
\* the nearest of its timers, counted in the ticks it was on the CPU, has its
\* match bit, and no timer that is already over gets one (vcpu.c:380-406).  A
\* timer as far away as min_cx's first value is not seen.
NearestMarked ==
  [][\A v \in VMs : Enter(v) =>
       LET ahead == {i \in Registers : c[v][i] \in active[v] + 1 .. active[v] + Word - 2}
           next  == {i \in ahead : \A j \in ahead : c[v][i] <= c[v][j]}
       IN  /\ next # {} => next \cap cs'[v] # {}
           /\ cs'[v] \ cs[v] \subseteq ahead]_vars

\* "we configure physical timer C3 for that amount of time. when that occurs,
\* the interrupt will be handled" (vcpu.c:399-400): when the nearest timer of
\* the running guest comes up, the physical timer has matched.
TimerArrives ==
  mode = "guest" /\ due # None /\ active[current] >= due => m3
=============================================================================
