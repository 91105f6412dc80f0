---------------------------- MODULE SchedProofs ----------------------------
(***************************************************************************)
(* Safety of the scheduler for every number of VMs, every quantum and every *)
(* counter width that can hold three quanta.  The inductive invariant is   *)
(* the conjunction of what the runs check: the type invariant, the bounds  *)
(* on the quanta, the placement of the saved contexts and the uniqueness   *)
(* of the enlarged share.                                                  *)
(***************************************************************************)
EXTENDS Sched, TLAPS

IInv == TypeOK /\ QuantaInv /\ ContextInv /\ OneBoosted

\* What the callers of schedule() leave alone, and the continuation each
\* may leave behind: the main loop and the window belong to the shell.
CallerOf(k) ==
  /\ k \in (IF current = Shell THEN {"loop", "window"} ELSE {"guest"})
  /\ UNCHANGED <<total_vms, vm_connected_to_uart, boots>>
  /\ pending' \in SUBSET Irqs

\* The shell is there from the start.
LEMMA ShellIsVM == ASSUME TypeOK PROVE Shell \in VMs /\ VMs \subseteq Slots
  BY ConfigAssumption DEF TypeOK, Shell, VMs, Slots

\* switch_context() to a VM that has run or is prepared lands where that VM
\* belongs, and leaves the caller's continuation where it belongs.
LEMMA SwitchStep ==
  ASSUME TypeOK, ContextInv, NEW k, CallerOf(k), NEW v \in VMs, SwitchTo(v, k)
  PROVE  /\ current' \in VMs'
         /\ resume' \in [Slots -> Continuations]
         /\ cpu' = IF v = Shell THEN "window" ELSE "guest"
         /\ ContextInv'
<1> USE ShellIsVM
<1>1. VMs' = VMs BY DEF CallerOf, VMs
<1>2. k \in Continuations BY DEF CallerOf, Continuations
<1>3. resume' \in [Slots -> Continuations] BY <1>2 DEF SwitchTo, TypeOK
<1>4. current' = v /\ resume' = [resume EXCEPT ![current] = k]
      /\ cpu' = Landing(resume'[v])
  BY DEF SwitchTo
<1>5. resume'[v] \in (IF v = Shell THEN {"loop", "window"} ELSE {"start", "guest"})
  <2>1. CASE v = current BY <2>1, <1>4 DEF CallerOf, TypeOK
  <2>2. CASE v # current BY <2>2, <1>4 DEF ContextInv, TypeOK
  <2> QED BY <2>1, <2>2
<1>6. cpu' = IF v = Shell THEN "window" ELSE "guest"
  BY <1>4, <1>5 DEF Landing
<1>7. \A w \in VMs \ {v} :
        resume'[w] \in (IF w = Shell THEN {"loop", "window"} ELSE {"start", "guest"})
  BY <1>4 DEF ContextInv, TypeOK, CallerOf
<1>8. ContextInv'
  BY <1>1, <1>4, <1>6, <1>7 DEF ContextInv
<1> QED BY <1>1, <1>3, <1>4, <1>6, <1>8

\* schedule() keeps the invariant: whom it picks has a quantum left.
LEMMA ScheduleStep ==
  ASSUME IInv, NEW k, CallerOf(k), Schedule(k)
  PROVE  IInv'
<1> USE ShellIsVM
<1> DEFINE q == [quanta_remaining EXCEPT ![current] = 0]
<1>0. TypeOK /\ QuantaInv /\ ContextInv /\ OneBoosted BY DEF IInv
<1>1. q \in [Slots -> 0 .. UInt32 - 1] /\ \A v \in Slots : q[v] <= 3 * Quanta
  BY <1>0, ConfigAssumption DEF TypeOK, QuantaInv
<1>2. PICK v \in VMs : /\ SwitchTo(v, k)
                       /\ \/ FirstMax(q, v) /\ quanta_remaining' = q
                          \/ quanta_remaining' = Replenished
  BY <1>0 DEF Schedule
<1>3. /\ current' \in VMs'
      /\ resume' \in [Slots -> Continuations]
      /\ cpu' \in Modes
      /\ ContextInv'
  BY <1>0, <1>2, SwitchStep DEF Modes
<1>4. /\ quanta_remaining' \in [Slots -> 0 .. UInt32 - 1]
      /\ \A w \in Slots : quanta_remaining'[w] <= 3 * Quanta
      /\ quanta_remaining'[v] > 0
  <2>1. CASE FirstMax(q, v) /\ quanta_remaining' = q
    BY <2>1, <1>1 DEF FirstMax
  <2>2. CASE quanta_remaining' = Replenished
    BY <2>2, <1>0, ConfigAssumption DEF Replenished, TypeOK, QuantaInv
  <2> QED BY <1>2, <2>1, <2>2
<1>5. current' = v BY <1>2 DEF SwitchTo
<1>6. TypeOK' BY <1>0, <1>3, <1>4 DEF TypeOK, CallerOf, VMs
<1>7. QuantaInv' BY <1>4, <1>5 DEF QuantaInv
<1>8. OneBoosted'
  <2> SUFFICES ASSUME NEW a \in VMs, NEW b \in VMs,
                      quanta_remaining'[a] > Quanta, quanta_remaining'[b] > Quanta
               PROVE  a = b
    BY DEF OneBoosted, CallerOf, VMs
  <2>1. CASE quanta_remaining' = q
    <3>1. \A w \in VMs : q[w] > Quanta => quanta_remaining[w] > Quanta
      BY <1>0, ConfigAssumption DEF TypeOK
    <3> QED BY <3>1, <2>1, <1>0 DEF OneBoosted
  <2>2. CASE quanta_remaining' = Replenished
    BY <1>0, <2>2, ConfigAssumption DEF Replenished
  <2> QED BY <1>2, <2>1, <2>2
<1> QED BY <1>3, <1>6, <1>7, <1>8 DEF IInv

\* sched_init() establishes the invariant.
LEMMA InitIInv == ASSUME Init PROVE IInv
<1> USE ConfigAssumption DEF Init
<1>1. TypeOK BY DEF TypeOK, VMs, Slots, Shell, Continuations, Modes, Irqs
<1>2. QuantaInv BY DEF QuantaInv, Slots, Shell
<1>3. ContextInv BY DEF ContextInv, VMs, Shell
<1>4. OneBoosted BY DEF OneBoosted, Shell, VMs
<1> QED BY <1>1, <1>2, <1>3, <1>4 DEF IInv

\* Every step of the scheduler, of the traps and of the shell keeps it.
LEMMA NextIInv == ASSUME IInv, [Next]_vars PROVE IInv'
<1> USE ConfigAssumption, ShellIsVM
<1>0. TypeOK /\ QuantaInv /\ ContextInv /\ OneBoosted BY DEF IInv
<1>1. CASE VmInit
  <2> USE <1>0, <1>1 DEF VmInit
  <2>1. VMs' = VMs \cup {total_vms} /\ total_vms \in Slots /\ total_vms \notin VMs
    BY DEF TypeOK, VMs, Slots
  <2>2. TypeOK' BY <2>1 DEF TypeOK, Continuations
  <2>3. QuantaInv' BY <2>1 DEF TypeOK, QuantaInv
  <2>4. ContextInv' BY <2>1 DEF TypeOK, ContextInv
  <2>5. OneBoosted' BY <2>1 DEF TypeOK, OneBoosted
  <2> QED BY <2>2, <2>3, <2>4, <2>5 DEF IInv
<1>2. CASE VmInitFails
  BY <1>0, <1>2 DEF VmInitFails, IInv, TypeOK, QuantaInv, ContextInv, OneBoosted, VMs
<1>3. CASE BootDone
  BY <1>0, <1>3 DEF BootDone, IInv, TypeOK, QuantaInv, ContextInv, OneBoosted, VMs, Modes
<1>4. CASE CloseWindow
  BY <1>0, <1>4 DEF CloseWindow, IInv, TypeOK, QuantaInv, ContextInv, OneBoosted, VMs, Modes
<1>5. CASE LoopSchedule
  <2>1. CallerOf("loop") BY <1>0, <1>5 DEF LoopSchedule, CallerOf, ContextInv, TypeOK
  <2> QED BY <2>1, <1>5, ScheduleStep DEF LoopSchedule
<1>6. CASE TimerMatch
  BY <1>0, <1>6 DEF TimerMatch, IInv, TypeOK, QuantaInv, ContextInv, OneBoosted, VMs, Irqs
<1>7. CASE OtherMatch
  BY <1>0, <1>7 DEF OtherMatch, IInv, TypeOK, QuantaInv, ContextInv, OneBoosted, VMs, Irqs
<1>8. CASE TimerTick
  <2>1. cpu = IF current = Shell THEN "window" ELSE "guest"
    BY <1>0, <1>8 DEF TimerTick, Interruptible, ContextInv
  <2>2. CASE Spent = 0
    <3>1. CallerOf(cpu) BY <2>1, <1>0, <1>8 DEF TimerTick, CallerOf, TypeOK
    <3>2. Schedule(cpu) BY <1>8, <2>2 DEF TimerTick
    <3> QED BY <3>1, <3>2, ScheduleStep
  <2>3. CASE Spent # 0
    <3>1. Spent = quanta_remaining[current] - 1 /\ Spent \in 1 .. UInt32 - 1
      BY <1>0, <2>3 DEF Spent, TypeOK, QuantaInv
    <3>2. /\ quanta_remaining' = [quanta_remaining EXCEPT ![current] = Spent]
          /\ pending' \in SUBSET Irqs
          /\ UNCHANGED <<current, resume, cpu, total_vms, vm_connected_to_uart, boots>>
      BY <1>0, <1>8, <2>3 DEF TimerTick, TypeOK
    <3>3. TypeOK' BY <1>0, <3>1, <3>2 DEF TypeOK, VMs
    <3>4. QuantaInv' BY <1>0, <3>1, <3>2 DEF TypeOK, QuantaInv
    <3>5. ContextInv' BY <1>0, <3>2 DEF ContextInv, VMs
    <3>6. OneBoosted'
      <4>1. \A w \in VMs : quanta_remaining'[w] > Quanta => quanta_remaining[w] > Quanta
        BY <1>0, <3>1, <3>2, ConfigAssumption DEF TypeOK
      <4> QED BY <4>1, <1>0, <3>2 DEF OneBoosted, VMs
    <3> QED BY <3>3, <3>4, <3>5, <3>6 DEF IInv
  <2> QED BY <2>2, <2>3
<1>9. CASE VirtualTimer
  BY <1>0, <1>9 DEF VirtualTimer, IInv, TypeOK, QuantaInv, ContextInv, OneBoosted, VMs
<1>10. CASE UartToVm
  BY <1>0, <1>10 DEF UartToVm, ReadFifo, IInv, TypeOK, QuantaInv, ContextInv, OneBoosted, VMs
<1>11. CASE UartToShell
  <2> USE <1>0, <1>11 DEF UartToShell, UartPending, Interruptible
  <2>1. TypeOK' BY DEF TypeOK, VMs, Modes, Continuations
  <2>2. QuantaInv' /\ OneBoosted' BY DEF QuantaInv, OneBoosted, VMs
  <2>3. ContextInv' BY DEF TypeOK, ContextInv, VMs
  <2> QED BY <2>1, <2>2, <2>3 DEF IInv
<1>12. CASE ShellLine
  <2> USE <1>0, <1>12 DEF ShellLine, ReadFifo
  <2>1. TypeOK' BY DEF TypeOK, VMs, Modes, ContextInv
  <2>2. QuantaInv' /\ OneBoosted' BY DEF QuantaInv, OneBoosted, VMs
  <2>3. ContextInv' BY DEF ContextInv, VMs
  <2> QED BY <2>1, <2>2, <2>3 DEF IInv
<1>13. CASE EnterCommand
  <2> USE <1>0, <1>13 DEF EnterCommand, ReadFifo
  <2>1. TypeOK' BY DEF TypeOK, VMs, Modes
  <2>2. QuantaInv' /\ OneBoosted' BY DEF QuantaInv, OneBoosted, VMs
  <2>3. ContextInv' BY DEF ContextInv, VMs
  <2> QED BY <2>1, <2>2, <2>3 DEF IInv
<1>14. ASSUME NEW vmid \in Slots, EnterVmid(vmid) PROVE IInv'
  <2> USE <1>0, <1>14 DEF EnterVmid, ReadFifo
  <2>1. TypeOK' BY DEF TypeOK, VMs, Modes, ContextInv, Slots
  <2>2. QuantaInv' /\ OneBoosted' BY DEF QuantaInv, OneBoosted, VMs
  <2>3. ContextInv' BY DEF ContextInv, VMs
  <2> QED BY <2>1, <2>2, <2>3 DEF IInv
<1>15. CASE Wfx
  <2>1. CallerOf("guest") BY <1>0, <1>15 DEF Wfx, CallerOf, ContextInv, TypeOK
  <2> QED BY <2>1, <1>15, ScheduleStep DEF Wfx
<1>16. CASE Halt
  BY <1>0, <1>16 DEF Halt, IInv, TypeOK, QuantaInv, ContextInv, OneBoosted, VMs, Modes
<1>17. CASE UNCHANGED vars
  BY <1>0, <1>17 DEF vars, IInv, TypeOK, QuantaInv, ContextInv, OneBoosted, VMs
<1> QED
  BY <1>1, <1>2, <1>3, <1>4, <1>5, <1>6, <1>7, <1>8, <1>9, <1>10, <1>11,
     <1>12, <1>13, <1>14, <1>15, <1>16, <1>17 DEF Next

-----------------------------------------------------------------------------
(* Action properties: what one step may do, given the invariant. *)

\* A step of schedule() is a turn of the current round or opens a new one.
LEMMA ScheduleRounds ==
  ASSUME IInv, NEW k, CallerOf(k), Schedule(k)
  PROVE  R!Next
<1> USE ShellIsVM
<1> DEFINE q == [quanta_remaining EXCEPT ![current] = 0]
           waits == {w \in VMs \ {current} : quanta_remaining[w] > 0}
<1>0. TypeOK BY DEF IInv
<1>1. /\ VMs' = VMs
      /\ waits' = {w \in VMs \ {current'} : quanta_remaining'[w] > 0}
  BY DEF CallerOf, VMs
<1>2. q[current] = 0 /\ \A w \in VMs \ {current} : q[w] = quanta_remaining[w]
  BY <1>0 DEF TypeOK
<1>3. ASSUME NEW v \in VMs, FirstMax(q, v), quanta_remaining' = q, SwitchTo(v, k)
      PROVE  R!NextTurn(v)
  <2>1. v # current /\ v \in waits BY <1>2, <1>3 DEF FirstMax
  <2>2. current' = v BY <1>3 DEF SwitchTo
  <2>3. waits' = waits \ {v} BY <1>1, <1>2, <1>3, <2>2
  <2> QED BY <1>1, <2>1, <2>2, <2>3 DEF R!NextTurn
<1>4. ASSUME \A v \in VMs : q[v] = 0, quanta_remaining' = Replenished,
             SwitchTo(Shell, k)
      PROVE  R!NewRound(Shell)
  <2>1. waits = {} BY <1>2, <1>4
  <2>2. current' = Shell BY <1>4 DEF SwitchTo
  <2>3. \A w \in VMs : quanta_remaining'[w] > 0
    BY <1>0, <1>4, ConfigAssumption DEF Replenished
  <2>4. waits' = VMs \ {Shell} BY <1>1, <2>2, <2>3
  <2> QED BY <1>0, <1>1, <2>1, <2>2, <2>4 DEF R!NewRound
<1> QED BY <1>0, <1>3, <1>4 DEF Schedule, R!Next

\* At the start nobody has had a turn.
LEMMA InitRounds == ASSUME Init PROVE R!Init
  BY DEF Init, R!Init, VMs, Shell

\* Every step is one of Rounds, or none that Rounds sees.
LEMMA NextRounds == ASSUME IInv, [Next]_vars PROVE [R!Next]_(R!vars)
<1> USE ShellIsVM
<1>0. TypeOK /\ QuantaInv /\ ContextInv BY DEF IInv
<1>1. CASE VmInit
  <2>1. PICK n \in Slots : n = total_vms
    BY <1>0, <1>1, ConfigAssumption DEF VmInit, TypeOK, Slots
  <2>2. VMs' = VMs \cup {n} /\ n \notin VMs
    BY <1>0, <1>1, <2>1, ConfigAssumption DEF VmInit, TypeOK, VMs, Slots
  <2>3. /\ quanta_remaining'[n] > 0
        /\ \A w \in VMs : quanta_remaining'[w] = quanta_remaining[w]
        /\ current' = current
    BY <1>0, <1>1, <2>1, <2>2, ConfigAssumption DEF VmInit, TypeOK
  <2>4. R!Join(n) BY <1>0, <2>2, <2>3 DEF R!Join, TypeOK
  <2> QED BY <2>4 DEF R!Next
<1>2. CASE LoopSchedule
  <2>1. CallerOf("loop") BY <1>0, <1>2 DEF LoopSchedule, CallerOf, ContextInv, TypeOK
  <2> QED BY <2>1, <1>2, ScheduleRounds DEF LoopSchedule
<1>3. CASE Wfx
  <2>1. CallerOf("guest") BY <1>0, <1>3 DEF Wfx, CallerOf, ContextInv, TypeOK
  <2> QED BY <2>1, <1>3, ScheduleRounds DEF Wfx
<1>4. CASE TimerTick
  <2>1. CASE Spent = 0
    <3>1. CallerOf(cpu)
      BY <1>0, <1>4 DEF TimerTick, Interruptible, ContextInv, CallerOf, TypeOK
    <3> QED BY <3>1, <2>1, <1>4, ScheduleRounds DEF TimerTick
  <2>2. CASE Spent # 0
    <3>1. /\ UNCHANGED <<total_vms, current>>
          /\ \A w \in VMs \ {current} : quanta_remaining'[w] = quanta_remaining[w]
      BY <1>0, <1>4, <2>2 DEF TimerTick, TypeOK
    <3> QED BY <3>1 DEF R!vars, VMs
  <2> QED BY <2>1, <2>2
<1>5. CASE UNCHANGED <<total_vms, current, quanta_remaining>>
  BY <1>5 DEF R!vars, VMs
<1> QED
  BY <1>1, <1>2, <1>3, <1>4, <1>5
  DEF Next, vars, VmInitFails, BootDone, CloseWindow, TimerMatch, OtherMatch,
      VirtualTimer, UartToVm, UartToShell, ShellLine, EnterCommand, EnterVmid, Halt

\* The step property of NeverRestarted, from the shape of switch_context().
LEMMA StepNeverRestarts ==
  ASSUME IInv, [Next]_vars
  PROVE  [\A v \in VMs :
            (v = current \/ resume[v] # "start") /\ v # current' => resume'[v] # "start"]_vars
<1> USE ShellIsVM
<1>0. TypeOK /\ QuantaInv /\ ContextInv BY DEF IInv
<1>1. SUFFICES ASSUME NEW v \in VMs, v = current \/ resume[v] # "start",
                      v # current', Next
               PROVE  resume'[v] # "start"
  BY DEF vars
<1>2. ASSUME NEW k, NEW w \in VMs, CallerOf(k), SwitchTo(w, k)
      PROVE  resume'[v] # "start"
  BY <1>0, <1>1, <1>2 DEF CallerOf, SwitchTo, TypeOK
<1>3. ASSUME NEW k, CallerOf(k), Schedule(k) PROVE resume'[v] # "start"
  BY <1>0, <1>2, <1>3 DEF Schedule
<1>4. CASE LoopSchedule
  BY <1>3, <1>4, <1>0 DEF LoopSchedule, CallerOf, ContextInv, TypeOK
<1>5. CASE Wfx
  BY <1>3, <1>5, <1>0 DEF Wfx, CallerOf, ContextInv, TypeOK
<1>6. CASE TimerTick
  <2>1. CASE Spent = 0
    <3>1. CallerOf(cpu)
      BY <1>0, <1>6 DEF TimerTick, Interruptible, ContextInv, CallerOf, TypeOK
    <3> QED BY <3>1, <2>1, <1>6, <1>3 DEF TimerTick
  <2>2. CASE Spent # 0 BY <1>1, <1>6, <2>2 DEF TimerTick
  <2> QED BY <2>1, <2>2
<1>7. CASE VmInit
  BY <1>0, <1>1, <1>7 DEF VmInit, VMs, TypeOK
<1>8. CASE UartToShell
  BY <1>0, <1>1, <1>8 DEF UartToShell, UartPending, Interruptible, TypeOK
<1>9. CASE UNCHANGED <<current, resume>>
  BY <1>1, <1>9
<1> QED
  BY <1>1, <1>4, <1>5, <1>6, <1>7, <1>8, <1>9
  DEF Next, VmInitFails, BootDone, CloseWindow, TimerMatch, OtherMatch,
      VirtualTimer, UartToVm, ShellLine, EnterCommand, EnterVmid, Halt

-----------------------------------------------------------------------------
\* The invariant on which the theorems below rest.
THEOREM Invariance == Spec => []IInv
  BY InitIInv, NextIInv, PTL DEF Spec

\* Every state variable keeps its type: in particular vmlist never grows
\* past its limit and the current and the connected VM always exist.
THEOREM TypeCorrect == Spec => []TypeOK
  BY Invariance, PTL DEF IInv

\* The unsigned decrement in scheduler_tick() never wraps (sched.c:50).
THEOREM QuantaSafe == Spec => []QuantaInv
  BY Invariance, PTL DEF IInv

\* Contexts come back to the VM that left them (sched.S:12-30).
THEOREM ContextSafe == Spec => []ContextInv
  BY Invariance, PTL DEF IInv

\* However the serial line moves between the VMs, two of them never hold the
\* enlarged share at once (sched.c:87).
THEOREM SingleBoost == Spec => []OneBoosted
  BY Invariance, PTL DEF IInv

\* A VM that has run is never prepared from scratch again.
THEOREM NoRestart == Spec => NeverRestarted
  BY Invariance, StepNeverRestarts, PTL DEF Spec, NeverRestarted

\* The scheduler implements the rounds of one turn per VM (sched.c:60-106).
THEOREM Refinement == Spec => RoundRobin
  BY InitRounds, NextRounds, Invariance, PTL DEF Spec, RoundRobin, R!Spec
=============================================================================
