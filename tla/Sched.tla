------------------------------- MODULE Sched -------------------------------
(***************************************************************************)
(* The scheduler (core/sched.c) and everything that drives it: the boot    *)
(* sequence and the main loop (core/main.c), interrupt dispatch            *)
(* (core/irq.c), the tick (drivers/timer.c), trapped WFI and WFE           *)
(* (core/sync.c) and the shell, which blocks the only CPU with interrupts  *)
(* masked (drivers/uart.c, shell/shell.c).                                 *)
(*                                                                         *)
(* The hypervisor runs on one core.  Every handler runs to completion with *)
(* interrupts masked; interrupts are taken only in a guest and in the main *)
(* loop, between __enable_irq and __disable_irq (cpu = "window").  A VM    *)
(* that is switched out leaves a continuation on its hypervisor stack:     *)
(* __prepare_vm ("start"), an exception frame that returns to where the    *)
(* exception was taken ("guest" or "window"), or the call of schedule() in *)
(* the main loop ("loop").                                                 *)
(***************************************************************************)
EXTENDS Integers, FiniteSets

CONSTANTS MaxVMs,   \* CONFIG_MAX_VMs
          Boots,    \* how many times main() calls vm_init()
          Quanta,   \* CONFIG_SCHED_QUANTA
          UInt32    \* number of values of a uint32_t

ASSUME ConfigAssumption ==
  /\ MaxVMs \in Nat \ {0}
  /\ Boots \in Nat
  /\ Quanta \in Nat \ {0}
  /\ UInt32 \in Nat
  /\ 3 * Quanta < UInt32

VARIABLES
  total_vms,             \* VMs in vmlist; vmlist[i] is VM i
  current,               \* the VM whose context the CPU is in
  quanta_remaining,      \* info.quanta_remaining of every slot
  vm_connected_to_uart,  \* the VM that owns the serial line
  resume,                \* where a VM that is not on the CPU continues
  cpu,                   \* where the CPU is
  pending,               \* interrupts pending in IRQ_PENDING_1
  boots                  \* calls of vm_init() still to come

vars == <<total_vms, current, quanta_remaining, vm_connected_to_uart,
          resume, cpu, pending, boots>>

Slots == 0 .. MaxVMs - 1
Shell == 0                            \* VMID_SHELL
VMs   == 0 .. total_vms - 1
Irqs  == {"M1", "M3", "AUX"}          \* what interrupt_controller_init enables
Continuations == {"start", "guest", "window", "loop"}
Modes == {"boot", "loop", "window", "guest", "shell", "enter", "halted"}

\* The shell is blocked in gets(), or an exception nobody handles has
\* stopped the machine: nothing is scheduled until that ends.
Blocked == cpu \in {"shell", "enter", "halted"}

TypeOK ==
  /\ total_vms \in 1 .. MaxVMs
  /\ current \in VMs
  /\ quanta_remaining \in [Slots -> 0 .. UInt32 - 1]
  /\ vm_connected_to_uart \in VMs
  /\ resume \in [Slots -> Continuations]
  /\ cpu \in Modes
  /\ pending \in SUBSET Irqs
  /\ boots \in 0 .. Boots

\* The state sched_init() leaves behind.
Init ==
  /\ total_vms = 1
  /\ current = Shell
  /\ quanta_remaining = [v \in Slots |-> IF v = Shell THEN Quanta ELSE 0]
  /\ vm_connected_to_uart = Shell
  /\ resume = [v \in Slots |-> "start"]
  /\ cpu = "boot"
  /\ pending = {}
  /\ boots = Boots

-----------------------------------------------------------------------------
(* schedule() *)

\* Where switch_context lands when it restores continuation k.
Landing(k) ==
  CASE k = "start" -> "guest"
    [] k = "loop"  -> "window"
    [] OTHER       -> k

\* Mutant of FirstMax: ">= max_quanta" instead of "> max_quanta".
FirstMaxOrNone(q, v) ==
  \A w \in VMs : q[w] <= q[v] /\ (w < v => q[w] < q[v])

\* v is the lowest-numbered VM with the most quanta left, and has some.
FirstMax(q, v) ==
  /\ q[v] > 0
  /\ \A w \in VMs : q[w] <= q[v] /\ (w < v => q[w] < q[v])

Replenished ==
  [v \in Slots |->
     IF v \notin VMs THEN quanta_remaining[v]
     ELSE IF v = vm_connected_to_uart THEN Quanta * 3 ELSE Quanta]

\* Mutant of SwitchTo: the caller's context is not stored.
SwitchToUnsaved(v, k) ==
  /\ current' = v
  /\ UNCHANGED resume
  /\ cpu' = Landing(IF v = current THEN k ELSE resume[v])

\* switch_context(): the caller continues at k when its turn comes again.
SwitchTo(v, k) ==
  /\ current' = v
  /\ resume'  = [resume EXCEPT ![current] = k]
  /\ cpu'     = Landing(resume'[v])

\* Mutant of Schedule: a caller that yields early keeps what is left.
ScheduleKeeping(k) ==
  LET q == quanta_remaining IN
  \/ \E v \in VMs :
       /\ FirstMax(q, v)
       /\ quanta_remaining' = q
       /\ SwitchTo(v, k)
  \/ /\ \A v \in VMs : q[v] = 0
     /\ quanta_remaining' = Replenished
     /\ SwitchTo(Shell, k)

\* The caller gives up what is left of its quanta.
Schedule(k) ==
  LET q == [quanta_remaining EXCEPT ![current] = 0] IN
  \/ \E v \in VMs :
       /\ FirstMax(q, v)
       /\ quanta_remaining' = q
       /\ SwitchTo(v, k)
  \/ /\ \A v \in VMs : q[v] = 0
     /\ quanta_remaining' = Replenished
     /\ SwitchTo(Shell, k)

-----------------------------------------------------------------------------
(* Boot and the main loop *)

\* Mutant of VmInit: no test against CONFIG_MAX_VMs.
VmInitUnbounded ==
  /\ cpu = "boot" /\ boots > 0
  /\ total_vms' = total_vms + 1
  /\ quanta_remaining' = [quanta_remaining EXCEPT ![total_vms] = Quanta]
  /\ resume' = [resume EXCEPT ![total_vms] = "start"]
  /\ boots' = boots - 1
  /\ UNCHANGED <<current, vm_connected_to_uart, cpu, pending>>

\* vm_init() when there is room and the image can be loaded and mapped.
VmInit ==
  /\ cpu = "boot" /\ boots > 0
  /\ total_vms # MaxVMs
  /\ total_vms' = total_vms + 1
  /\ quanta_remaining' = [quanta_remaining EXCEPT ![total_vms] = Quanta]
  /\ resume' = [resume EXCEPT ![total_vms] = "start"]
  /\ boots' = boots - 1
  /\ UNCHANGED <<current, vm_connected_to_uart, cpu, pending>>

\* vm_init() when the list is full or load_vm() fails: main() goes on.
VmInitFails ==
  /\ cpu = "boot" /\ boots > 0
  /\ boots' = boots - 1
  /\ UNCHANGED <<total_vms, current, quanta_remaining, vm_connected_to_uart,
                 resume, cpu, pending>>

BootDone ==
  /\ cpu = "boot" /\ boots = 0
  /\ cpu' = "loop"
  /\ UNCHANGED <<total_vms, current, quanta_remaining, vm_connected_to_uart,
                 resume, pending, boots>>

\* __disable_irq() at the top of the loop.
CloseWindow ==
  /\ cpu = "window"
  /\ cpu' = "loop"
  /\ UNCHANGED <<total_vms, current, quanta_remaining, vm_connected_to_uart,
                 resume, pending, boots>>

\* schedule(), and __enable_irq() once it returns.
LoopSchedule ==
  /\ cpu = "loop"
  /\ Schedule("loop")
  /\ UNCHANGED <<total_vms, vm_connected_to_uart, pending, boots>>

-----------------------------------------------------------------------------
(* Interrupts *)

Interruptible == cpu \in {"guest", "window"}

\* The free-running counter passes C1, which every tick programs again.
TimerMatch ==
  /\ "M1" \notin pending
  /\ pending' = pending \cup {"M1"}
  /\ UNCHANGED <<total_vms, current, quanta_remaining, vm_connected_to_uart,
                 resume, cpu, boots>>

\* The counter passes C3, or a character arrives on the serial line.
OtherMatch ==
  /\ \E i \in {"M3", "AUX"} : pending' = pending \cup {i}
  /\ UNCHANGED <<total_vms, current, quanta_remaining, vm_connected_to_uart,
                 resume, cpu, boots>>

\* quanta_remaining-- on a uint32_t.
Spent == IF quanta_remaining[current] = 0 THEN UInt32 - 1
                                          ELSE quanta_remaining[current] - 1

\* handle_irq() finds M1: system_timer_1_handler() and scheduler_tick().
TimerTick ==
  /\ Interruptible /\ "M1" \in pending
  /\ pending' = pending \ {"M1"}
  /\ IF Spent = 0
     THEN Schedule(cpu)
     ELSE /\ quanta_remaining' = [quanta_remaining EXCEPT ![current] = Spent]
          /\ UNCHANGED <<current, resume, cpu>>
  /\ UNCHANGED <<total_vms, vm_connected_to_uart, boots>>

\* handle_irq() finds M3 and not M1: acknowledge it, nothing else.
VirtualTimer ==
  /\ Interruptible /\ "M1" \notin pending /\ "M3" \in pending
  /\ pending' = pending \ {"M3"}
  /\ UNCHANGED <<total_vms, current, quanta_remaining, vm_connected_to_uart,
                 resume, cpu, boots>>

\* Mutant of UartPending: the UART is served before the timers.
UartPendingFirst == Interruptible /\ "AUX" \in pending

UartPending == Interruptible /\ pending = {"AUX"}

\* Reading a character lowers the interrupt once the FIFO is empty.
ReadFifo == pending' \in {pending, pending \ {"AUX"}}

\* uart_handler() for a VM: a character for it, or the end of "!1".
UartToVm ==
  /\ UartPending /\ vm_connected_to_uart # Shell
  /\ ReadFifo
  /\ vm_connected_to_uart' \in {vm_connected_to_uart, Shell}
  /\ UNCHANGED <<total_vms, current, quanta_remaining, resume, cpu, boots>>

\* Mutant of UartToShell: no exception frame is pushed on entry.
UartToShellFrameless ==
  /\ UartPending /\ vm_connected_to_uart = Shell
  /\ cpu' = "shell"
  /\ UNCHANGED <<total_vms, current, quanta_remaining, vm_connected_to_uart,
                 resume, pending, boots>>

\* uart_handler() for the shell: shell_run() blocks in gets().
UartToShell ==
  /\ UartPending /\ vm_connected_to_uart = Shell
  /\ cpu' = "shell"
  /\ resume' = [resume EXCEPT ![current] = cpu]
  /\ UNCHANGED <<total_vms, current, quanta_remaining, vm_connected_to_uart,
                 pending, boots>>

-----------------------------------------------------------------------------
(* The shell, inside the interrupt handler of the VM it interrupted *)

\* A line that is not "enter".
ShellLine ==
  /\ cpu = "shell"
  /\ cpu' = resume[current]
  /\ ReadFifo
  /\ UNCHANGED <<total_vms, current, quanta_remaining, vm_connected_to_uart,
                 resume, boots>>

EnterCommand ==
  /\ cpu = "shell"
  /\ cpu' = "enter"
  /\ ReadFifo
  /\ UNCHANGED <<total_vms, current, quanta_remaining, vm_connected_to_uart,
                 resume, boots>>

\* Mutant of EnterVmid: the larger share is granted at once.
EnterVmidBoosted(vmid) ==
  /\ cpu = "enter"
  /\ cpu' = resume[current]
  /\ vmid < total_vms
  /\ vm_connected_to_uart' = vmid
  /\ quanta_remaining' = [quanta_remaining EXCEPT ![vmid] = Quanta * 3]
  /\ ReadFifo
  /\ UNCHANGED <<total_vms, current, resume, boots>>

\* The second line of "enter": an id, refused unless it is a VM's.
EnterVmid(vmid) ==
  /\ cpu = "enter"
  /\ cpu' = resume[current]
  /\ vm_connected_to_uart' = IF vmid >= total_vms THEN vm_connected_to_uart
                                                  ELSE vmid
  /\ ReadFifo
  /\ UNCHANGED <<total_vms, current, quanta_remaining, resume, boots>>

-----------------------------------------------------------------------------
(* Guests *)

\* handle_sync_wfx(): the guest has nothing to do and yields.
Wfx ==
  /\ cpu = "guest"
  /\ Schedule("guest")
  /\ UNCHANGED <<total_vms, vm_connected_to_uart, pending, boots>>

\* An exception that has no handler: halt() with interrupts masked.
Halt ==
  /\ cpu = "guest"
  /\ cpu' = "halted"
  /\ UNCHANGED <<total_vms, current, quanta_remaining, vm_connected_to_uart,
                 resume, pending, boots>>

-----------------------------------------------------------------------------
Boot == VmInit \/ VmInitFails \/ BootDone

Next ==
  \/ VmInit \/ VmInitFails \/ BootDone
  \/ CloseWindow \/ LoopSchedule
  \/ TimerMatch \/ OtherMatch
  \/ TimerTick \/ VirtualTimer \/ UartToVm \/ UartToShell
  \/ ShellLine \/ EnterCommand
  \/ \E vmid \in Slots : EnterVmid(vmid)
  \/ Wfx \/ Halt

Spec == Init /\ [][Next]_vars

\* The hypervisor's own code makes progress and the counter keeps counting;
\* neither guests nor the person at the serial line owe anything.
Fairness ==
  /\ WF_vars(Boot)
  /\ WF_vars(CloseWindow)
  /\ WF_vars(LoopSchedule)
  /\ WF_vars(TimerMatch)
  /\ WF_vars(TimerTick)

FairSpec == Spec /\ Fairness

-----------------------------------------------------------------------------
(* Properties *)

\* The VM on the CPU always has a quantum left, so that the decrement in
\* scheduler_tick() (an unsigned counter tested with <= 0) never wraps, and
\* no VM ever holds more than the three-fold share of the connected one.
QuantaInv ==
  /\ quanta_remaining[current] > 0
  /\ \A v \in Slots : quanta_remaining[v] <= 3 * Quanta

\* Only one VM at a time has the enlarged share, however the serial line is
\* moved between VMs while the shares are being used up (sched.c:87).
OneBoosted ==
  \A v, w \in VMs :
    quanta_remaining[v] > Quanta /\ quanta_remaining[w] > Quanta => v = w

\* The hypervisor's main loop runs on the shell's context and on no other,
\* and the shell's context never runs guest code: each continuation saved by
\* switch_context() or by an exception comes back to the VM that left it.
ContextInv ==
  /\ current = Shell => cpu # "guest"
  /\ current # Shell => cpu \notin {"boot", "loop", "window"}
  /\ cpu \in {"shell", "enter"} =>
       resume[current] = (IF current = Shell THEN "window" ELSE "guest")
  /\ \A v \in VMs \ {current} :
       resume[v] \in (IF v = Shell THEN {"loop", "window"} ELSE {"start", "guest"})

\* A VM that has been on the CPU, or has already been off it half-way
\* through its code, is never sent to __prepare_vm again, which would zero
\* its registers and start it over.
NeverRestarted ==
  [][\A v \in VMs :
       (v = current \/ resume[v] # "start") /\ v # current' => resume'[v] # "start"]_vars

\* Every turn schedule() hands out is the next one of a round in which each
\* VM has exactly one turn, whatever the timer, the guests' WFx and the shell
\* do in between (sched.c:60-106).
R == INSTANCE Rounds WITH
       VM      <- Slots,
       First   <- Shell,
       members <- VMs,
       turn    <- current,
       waiting <- {v \in VMs \ {current} : quanta_remaining[v] > 0}

RoundRobin == R!Spec

\* No VM starves: it gets the CPU again and again, even if the other guests
\* never yield and somebody keeps typing, unless the shell stays blocked or
\* the machine halts for good.
EveryVmRuns ==
  \A v \in Slots : []<>(v < total_vms => current = v) \/ <>[]Blocked

=============================================================================
