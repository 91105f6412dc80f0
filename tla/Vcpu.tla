-------------------------------- MODULE Vcpu --------------------------------
(***************************************************************************)
(* What a guest sees of its processor: the traps of core/sync.c, the       *)
(* registers of the mini-UART, of the interrupt controller and of the      *)
(* system timer (core/vcpu.c), the system registers, the virtual interrupt *)
(* lines, and what of all this a change of VM carries over (core/vm.c,     *)
(* core/sched.S, core/exceptions.S).                                       *)
(*                                                                         *)
(* The hypervisor runs with interrupts masked: an exception, from          *)
(* hypervisor_entry to hypervisor_exit, is one step.  The value of a       *)
(* register is the set of its bits.  Which VM schedule() picks is left     *)
(* open (see Sched), so is who is connected to the serial line (Serial)    *)
(* and which timers match (VTimer).                                        *)
(***************************************************************************)
EXTENDS Integers, FiniteSetsExt

CONSTANTS Guests, Shell,
          Slots,     \* general registers that are modelled
          Room,      \* CONFIG_VM_CONSOLE_BUFFER_SIZE
          Programs   \* what the guests may do, see Repertoire

ASSUME VcpuAssumption == Shell \notin Guests /\ Room \in Nat \ {0} /\ Slots \subseteq 0 .. 30

VARIABLES
  program,     \* one of Programs
  current,
  started,     \* the guests prepare_vm() has run for
  pc, x,       \* pt_regs of each guest; pc counts trapped instructions modulo 2
  dev,         \* the emulated devices of each guest
  bank,        \* cpu.sysregs of each guest
  el1,         \* whose values the EL1 system registers hold
  vi, vf,      \* bits of HCR_EL2: the virtual interrupt lines
  did,         \* history: the instruction executed last
  wrote        \* history: the guests that have written EL1 registers

vars == <<program, current, started, pc, x, dev, bank, el1, vi, vf, did, wrote>>

AllOnes == 0 .. 63
Char    == {6}
Below(n, bits) == bits \intersect (0 .. n - 1)
If(condition, bit) == IF condition THEN {bit} ELSE {}

-----------------------------------------------------------------------------
(* The mini-UART.  aux: the registers that only keep what is written.       *)

AuxKept == {"ENABLES", "IER", "LCR", "MCR", "SCRATCH", "CNTL", "BAUD"}
AuxMu   == {"IO", "IIR", "LSR", "MSR", "STAT"} \union (AuxKept \ {"ENABLES"})

MuOn(d) == 0 \in d.aux["ENABLES"]
Dlab(d) == 7 \in d.aux["LCR"]

\* Mutant of IIR: the interrupt for sending is due while there is something to send.
IIR_swapped(d) ==
  LET send    == d.tx > 0 /\ 1 \in d.aux["IER"]
      receive == d.rx > 0 /\ 0 \in d.aux["IER"]
  IN  {6, 7} \union If(~send /\ ~receive, 0) \union If(send, 1) \union If(receive /\ ~send, 2)

IIR(d) ==
  LET send    == d.tx = 0 /\ 1 \in d.aux["IER"]
      receive == d.rx > 0 /\ 0 \in d.aux["IER"]
  IN  {6, 7} \union If(~send /\ ~receive, 0) \union If(send, 1) \union If(receive /\ ~send, 2)

LSR(d) == If(d.rx > 0, 0) \union If(d.tx < Room, 5) \union If(d.tx = 0, 6)

\* Bit 3 says "idle" when there is something to send.
STAT(d) ==
  LET Level(n, shift) == {shift + b : b \in {i \in 0 .. 3 : (Min({8, n}) \div 2^i) % 2 = 1}}
  IN  If(d.rx > 0, 0) \union If(d.tx < Room, 1) \union If(d.rx = 0, 2) \union If(d.tx > 0, 3)
      \union If(d.tx = Room, 5) \union If(d.tx = 0, 8) \union If(d.rx = 0 /\ d.tx = 0, 9)
      \union Level(d.rx, 16) \union Level(d.tx, 24)

read_aux_mu(d, r) ==
  IF ~MuOn(d) THEN {}
  ELSE CASE r = "IO"   -> IF Dlab(d) THEN Below(8, d.aux["BAUD"]) ELSE IF d.rx = 0 THEN AllOnes ELSE Char
         [] r = "IER"  -> IF Dlab(d) THEN {b - 8 : b \in d.aux["BAUD"] \ (0 .. 7)} ELSE d.aux["IER"]
         [] r = "IIR"  -> IIR(d)
         [] r = "LSR"  -> LSR(d)
         [] r = "STAT" -> STAT(d)
         [] r = "MSR"  -> {}
         [] OTHER      -> d.aux[r]

\* A UART that is off reads as 0, and thus as one with an interrupt pending.
AuxIrq(d) == 0 \notin read_aux_mu(d, "IIR")

read_aux(d, r) ==
  CASE r \in AuxMu     -> read_aux_mu(d, r)
    [] r = "AUX_IRQ"   -> (1 .. 63) \union If(AuxIrq(d), 0)
    [] r = "ENABLES"   -> d.aux["ENABLES"]

write_aux_mu(d, r, val) ==
  IF ~MuOn(d) \/ r \in {"LSR", "MSR", "STAT"} THEN d
  ELSE CASE r = "IO" /\ Dlab(d)  -> [d EXCEPT !.aux["LCR"] = @ \ {7}, !.aux["BAUD"] = Below(8, @ \union val)]
         [] r = "IO" /\ ~Dlab(d) -> [d EXCEPT !.tx = Min({Room, @ + 1})]
         [] r = "IER" /\ Dlab(d) -> [d EXCEPT !.aux["BAUD"] = Below(16, @ \ (0 .. 7)) \union Below(8, val)]
         [] r = "IIR" -> IF 1 \in val THEN [d EXCEPT !.rx = 0] ELSE [d EXCEPT !.tx = 0]
         [] OTHER     -> [d EXCEPT !.aux[r] = val]

write_aux(d, r, val) ==
  CASE r \in AuxMu   -> write_aux_mu(d, r, val)
    [] r = "ENABLES" -> [d EXCEPT !.aux["ENABLES"] = val]
    [] r = "AUX_IRQ" -> d

-----------------------------------------------------------------------------
(* The interrupt controller.  One set of enabled interrupts per bank stands *)
(* behind the ENABLE and the DISABLE register.                              *)

PENDING_1(d) == {b \in {1, 3} : b \in d.irqs1 /\ b \in d.cs}

\* The bit of the mini-UART is 57 - 32, but the enabled interrupts are tested
\* with that number as a mask: it has the bits 0, 3 and 4.
PENDING_2(d) == If(d.irqs2 \intersect {0, 3, 4} # {} /\ AuxIrq(d), 25)

BASIC_PENDING(d) == If(PENDING_1(d) # {}, 8) \union If(PENDING_2(d) # {}, 9)

read_intctl(d, r) ==
  CASE r = "BASIC_PENDING"  -> BASIC_PENDING(d)
    [] r = "PENDING_1"      -> PENDING_1(d)
    [] r = "PENDING_2"      -> PENDING_2(d)
    [] r = "FIQ_CONTROL"    -> d.fiq
    [] r = "ENABLE_1"       -> d.irqs1
    [] r = "ENABLE_2"       -> d.irqs2
    [] r = "ENABLE_BASIC"   -> d.basic
    [] r = "DISABLE_1"      -> (0 .. 31) \ d.irqs1
    [] r = "DISABLE_2"      -> (0 .. 31) \ d.irqs2
    [] r = "DISABLE_BASIC"  -> (0 .. 31) \ d.basic

Disabled(enabled, val) == enabled \ val

write_intctl(d, r, val) ==
  CASE r = "FIQ_CONTROL"   -> [d EXCEPT !.fiq = val]
    [] r = "ENABLE_1"      -> [d EXCEPT !.irqs1 = @ \union val]
    [] r = "ENABLE_2"      -> [d EXCEPT !.irqs2 = @ \union val]
    [] r = "ENABLE_BASIC"  -> [d EXCEPT !.basic = @ \union val]
    [] r = "DISABLE_1"     -> [d EXCEPT !.irqs1 = Disabled(@, val)]
    [] r = "DISABLE_2"     -> [d EXCEPT !.irqs2 = Disabled(@, val)]
    [] r = "DISABLE_BASIC" -> [d EXCEPT !.basic = Disabled(@, val)]
    [] r \in {"BASIC_PENDING", "PENDING_1", "PENDING_2"} -> d

check_irq_pending(d) == BASIC_PENDING(d) # {}

\* The answer is cut down to eight bits.
check_fiq_pending(d) ==
  LET n     == MapThenSumSet(LAMBDA b : 2^b, Below(7, d.fiq))
      banks == {<<0, PENDING_1(d)>>, <<32, PENDING_2(d)>>, <<64, Below(8, BASIC_PENDING(d))>>}
  IN  7 \in d.fiq /\ \E k \in banks : n - k[1] \in Below(8, k[2])

-----------------------------------------------------------------------------
(* Accesses to devices *)

Compares == {"C0", "C1", "C2", "C3"}

\* The clock, which only VTimer has, reads as 0.
read_systimer(d, r) == CASE r = "CS" -> d.cs [] r \in Compares -> d.c[r] [] r \in {"CLO", "CHI"} -> {}

write_systimer(d, r, val) ==
  CASE r = "CS" -> [d EXCEPT !.cs = @ \ val] [] r \in Compares -> [d EXCEPT !.c[r] = val]
    [] r \in {"CLO", "CHI"} -> d

Intctl   == {"BASIC_PENDING", "PENDING_1", "PENDING_2", "FIQ_CONTROL", "ENABLE_1", "ENABLE_2",
             "ENABLE_BASIC", "DISABLE_1", "DISABLE_2"}
Aux      == AuxMu \union {"AUX_IRQ", "ENABLES"}
Systimer == Compares \union {"CS", "CLO", "CHI"}

\* Some registers are out of every range: that of the interrupt controller ends
\* before DISABLE_BASIC, and that of GPIO ends where the interrupt controller's does,
\* before its own beginning.
Unreached == {"DISABLE_BASIC", "GPIO"}

read_mmio(d, r) ==
  CASE r \in Intctl -> read_intctl(d, r) [] r \in Aux -> read_aux(d, r)
    [] r \in Systimer -> read_systimer(d, r) [] r \in Unreached -> {}

\* The registers have 32 bits.
Word(val) == Below(32, val)

write_mmio(d, r, val) ==
  CASE r \in Intctl -> write_intctl(d, r, Word(val)) [] r \in Aux -> write_aux(d, r, Word(val))
    [] r \in Systimer -> write_systimer(d, r, Word(val)) [] r \in Unreached -> d

\* Reading data takes a character away.
AfterRead(d, r) ==
  IF r = "IO" /\ MuOn(d) /\ ~Dlab(d) /\ d.rx > 0 THEN [d EXCEPT !.rx = @ - 1] ELSE d

vcpu_initialise ==
  [irqs1 |-> {}, irqs2 |-> {}, basic |-> {}, fiq |-> {}, cs |-> {}, c |-> [r \in Compares |-> {}],
   aux |-> [r \in AuxKept |-> {}], rx |-> 0, tx |-> 0]

-----------------------------------------------------------------------------
(* What a guest may do.  imm: pairs of a register and a value it puts there; *)
(* load and store: pairs of a device register and a general one, store with *)
(* the value; mrs and msr: pairs of a system register that traps and a      *)
(* general one; timers: those that match for it; does: the rest.            *)

Mmio == Intctl \union Aux \union Systimer \union Unreached

Repertoire ==
  [imm    : SUBSET (Slots \X SUBSET AllOnes),
   load   : SUBSET (Mmio \X (0 .. 31)),
   store  : SUBSET (Mmio \X (0 .. 31) \X SUBSET AllOnes),
   mrs    : SUBSET (STRING \X (0 .. 31)),
   msr    : SUBSET (STRING \X (Slots \union {31})),
   timers : SUBSET (0 .. 3),
   does   : SUBSET {"wfx", "hvc", "el1"}]

ASSUME ProgramsAssumption == Programs \subseteq [Guests -> Repertoire]

-----------------------------------------------------------------------------
(* Exceptions *)

Running == current \in Guests
May(what) == Running /\ what \in program[current].does

\* vcpu_exit(): if the VM is connected, what it has written is put on the line.
Left(connected) ==
  [g \in Guests |-> IF g = current /\ connected THEN [dev[g] EXCEPT !.tx = 0] ELSE dev[g]]

\* Mutant of Prepares: the first continuation of a VM is never replaced.
Prepares_always(w) == w \in Guests /\ w # current

\* A VM that has never run goes on in prepare_vm().
Prepares(w) == w \in Guests /\ w \notin started

\* HCR_EL2.VI and VF, set or cleared.
Lines(irq, fiq) == vi' = irq /\ vf' = fiq

vm_assert_virtual_interrupt(d) == Lines(check_irq_pending(d), check_fiq_pending(d))

\* HCR_EL2 traps the ID registers, ACTLR_EL1 and CSSELR_EL1, not the registers a guest
\* runs on.
Listed == {"ID", "ACTLR", "CSSELR"}

\* What vm_init() finds in the processor, and prepare_vm() puts back there.
get_sysregs == [r \in Listed |-> IF r = "ID" THEN {0} ELSE {}]
put_sysregs == el1' = "boot"

\* prepare_vm(): the general registers are cleared (in x they are from the start), the EL1 registers are loaded
\* with those of cpu.sysregs, which get_sysregs() found at boot, and the interrupt
\* lines are set.  No other change of VM touches either.
prepare_vm(w) ==
  /\ started' = started \union {w}
  /\ put_sysregs
  /\ vm_assert_virtual_interrupt(dev[w])

\* hypervisor_exit into VM w, given the devices as the handler leaves them: vcpu_enter()
\* puts on the line what w has written, if it is connected, and marks timers.
Return(devices, w, connected) ==
  /\ current' = w
  /\ IF Prepares(w) THEN prepare_vm(w) ELSE UNCHANGED <<started, el1, vi, vf>>
  /\ \E matched \in SUBSET (IF w \in Guests THEN program[w].timers ELSE {}) :
       dev' = [g \in Guests |->
                IF g # w THEN devices[g]
                ELSE [devices[g] EXCEPT !.cs = @ \union matched, !.tx = IF connected THEN 0 ELSE @]]
  /\ UNCHANGED <<program, wrote>>

Goes(g) == pc' = [pc EXCEPT ![g] = 1 - @]
Does(op, n) == did' = [op |-> op, n |-> n]

\* Mutant of Slot: three bits.
Slot_three_bits(n) == n % 8

\* The register of an access, taken with a mask of four bits.
Slot(n) == n % 16

\* handle_sync_data_abort(), for a device.
Load(r, n) ==
  /\ Running /\ <<r, n>> \in program[current].load
  /\ \E connected \in BOOLEAN :
       LET left == Left(connected)
           d    == left[current]
       IN  /\ x' = [x EXCEPT ![current][Slot(n)] = read_mmio(d, r)]
           /\ Return([left EXCEPT ![current] = AfterRead(d, r)], current, connected)
  /\ Goes(current) /\ Does("load", n) /\ UNCHANGED bank

Store(r, n, val) ==
  /\ Running /\ <<r, n, val>> \in program[current].store /\ x[current][Slot(n)] = val
  /\ \E connected \in BOOLEAN :
       LET left == Left(connected)
       IN  Return([left EXCEPT ![current] = write_mmio(@, r, val)], current, connected)
  /\ Goes(current) /\ Does("store", n) /\ UNCHANGED <<x, bank>>

\* The register number of a system register access has five bits; 31 is the word
\* after x30, where hypervisor_entry keeps its own stack pointer.
sp_slot == {62}

handle_sync_sysreg_read(r, n) ==
  /\ r \in Listed
  /\ x' = IF n \in Slots THEN [x EXCEPT ![current][n] = bank[current][r]] ELSE x
  /\ Goes(current) /\ Does("load", n) /\ UNCHANGED bank

handle_sync_sysreg_write(r, n) ==
  /\ r \in Listed \ {"ID"}
  /\ bank' = [bank EXCEPT ![current][r] = IF n = 31 THEN sp_slot ELSE x[current][n]]
  /\ Goes(current) /\ Does("store", n) /\ UNCHANGED x

\* A register in neither table, as an access to the floating-point unit: the
\* program counter stays where it is.
Unknown(r) == r \notin Listed /\ UNCHANGED <<pc, x, bank>> /\ Does("none", 0)

Sysreg ==
  /\ Running
  /\ \/ \E i \in program[current].mrs : handle_sync_sysreg_read(i[1], i[2]) \/ Unknown(i[1])
     \/ \E i \in program[current].msr : handle_sync_sysreg_write(i[1], i[2])
  /\ \E connected \in BOOLEAN : Return(Left(connected), current, connected)

\* sse_hvc_main_handler() leaves 0 or -1 in x0; the processor itself has gone on.
Hvc ==
  /\ May("hvc")
  /\ \E return_val \in {{}, AllOnes} : x' = [x EXCEPT ![current][0] = return_val]
  /\ Goes(current) /\ Does("load", 0)
  /\ \E connected \in BOOLEAN : Return(Left(connected), current, connected)
  /\ UNCHANGED bank

\* Mutant of handle_sync_wfx: the instruction is acknowledged after schedule().
handle_sync_wfx_late(w) == IF w \in Guests THEN Goes(w) ELSE UNCHANGED pc

\* schedule() may make w the current VM, but the instruction is acknowledged first.
handle_sync_wfx(w) == Goes(current)

Wfx ==
  /\ May("wfx")
  /\ \E w \in Guests \union {Shell}, connected \in BOOLEAN :
       handle_sync_wfx(w) /\ Return(Left(connected), w, connected)
  /\ Does("wait", 0) /\ UNCHANGED <<x, bank>>

\* An interrupt; schedule() may follow.
Interrupt ==
  /\ \E w \in Guests \union {Shell}, connected \in BOOLEAN : Return(Left(connected), w, connected)
  /\ Does("none", 0) /\ UNCHANGED <<pc, x, bank>>

\* A character for VM g, which is connected; the VM on the CPU goes on.
uart_handler(g) ==
  /\ dev[g].rx < Room
  /\ LET left == [Left(g = current) EXCEPT ![g].rx = @ + 1]
     IN  Return(left, current, g = current)
  /\ Does("none", 0) /\ UNCHANGED <<pc, x, bank>>

-----------------------------------------------------------------------------
(* What a guest does without a trap *)

Compute ==
  /\ Running
  /\ \E i \in program[current].imm : x' = [x EXCEPT ![current][i[1]] = i[2]]
  /\ Does("none", 0)
  /\ UNCHANGED <<program, current, started, pc, dev, bank, el1, vi, vf, wrote>>

\* TTBR0_EL1, SCTLR_EL1 and the like do not trap.
WriteEl1 ==
  /\ May("el1")
  /\ el1' = current /\ wrote' = wrote \union {current} /\ Does("none", 0)
  /\ UNCHANGED <<program, current, started, pc, x, dev, bank, vi, vf>>

-----------------------------------------------------------------------------
Init ==
  /\ program \in Programs
  /\ current = Shell /\ started = {}
  /\ pc = [g \in Guests |-> 0] /\ x = [g \in Guests |-> [s \in Slots |-> {}]]
  /\ dev = [g \in Guests |-> vcpu_initialise]
  /\ bank = [g \in Guests |-> get_sysregs]
  /\ el1 = "boot" /\ vi = FALSE /\ vf = FALSE
  /\ did = [op |-> "none", n |-> 0] /\ wrote = {}

Next ==
  \/ \E i \in UNION {program[g].load : g \in Guests} : Load(i[1], i[2])
  \/ \E i \in UNION {program[g].store : g \in Guests} : Store(i[1], i[2], i[3])
  \/ Sysreg \/ Hvc \/ Wfx \/ Interrupt \/ Compute \/ WriteEl1
  \/ \E g \in Guests : uart_handler(g)

Spec == Init /\ [][Next]_vars

-----------------------------------------------------------------------------
Low == Slots \intersect (0 .. 15)

\* Interrupts that are pending, by number.
Pending(d) == PENDING_1(d) \union {32 + b : b \in PENDING_2(d)}

\* Whatever traps, interrupts and changes of VM come in between, each guest has a
\* machine of its own: instructions that trap are carried out once and in order,
\* on its own registers, and a load writes the register it names.  It holds for x0
\* to x15; of a load into another, it only says that no other guest sees it.
M == INSTANCE Machines
ImplementsMachines == M!MSpec

\* An interrupt that is pending for a guest stays so until the guest itself accesses
\* a device: no flush of its buffer by the shell, no character, no timer of
\* another guest and no change of VM takes it back.
PendingUntilServed ==
  [][\A g \in Guests : Pending(dev[g]) \subseteq Pending(dev'[g])
                       \/ (g = current /\ did'.op \in {"load", "store"})]_vars

\* As long as one guest alone has run, the EL1 registers are as it left them.
\* (With a second one they are not: no change of VM saves or loads them.)
AloneKeepsEl1 ==
  \A g \in Guests : started = {g} => el1 = IF g \in wrote THEN g ELSE "boot"
=============================================================================
