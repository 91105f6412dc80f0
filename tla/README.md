# deltaV in TLA+

deltaV is a bare-metal type-1 hypervisor for the Raspberry Pi 3 (BCM2837,
AArch64, EL2, one core). It boots, loads guest images from an SD card, gives
each guest a stage-2 address space and an emulated mini-UART, system timer and
interrupt controller, and shares the CPU and the serial line between them and
its own shell.

This directory holds TLA+ models of its components, the TLC configurations that
check them on small instances, and TLAPS proofs for every value of their
constants.

    tlc -workers 2 -config MCSched.cfg MCSched     # one run
    tlapm SchedProofs.tla                          # the proofs about Sched

## 1. Inventory

Line numbers are those of the repository's files.

| Component | Source | State | Operations |
|---|---|---|---|
| Scheduler, main loop | core/sched.c, sched.S, main.c, irq.c | `vmlist`, `total_vms`, `current`, `info.quanta_remaining`, the saved contexts | `sched_init`, `scheduler_tick`, `schedule`, `switch_context`, `handle_irq` |
| Console buffer | core/console.c | `buffer`, `begin`, `end`, `used` | `console_push`, `_pop`, `_full`, `_empty`, `_clear`, `_flush` |
| Page heap | mm/mm.c | `page_map` (one word per page) | `heap_init`, `malloc`, `free` |
| Virtual CPU registers | core/vcpu.c | mini-UART, AUX, interrupt controller, system timer and GPIO registers of each VM | `read_mmio`, `write_mmio`, `vcpu_enter`, `vcpu_exit`, `check_irq_pending`, `check_fiq_pending` |
| Physical timer | drivers/timer.c | C1, C3, CS, CLO, CHI | `timer_init`, the handlers of timers 1 and 3, `get_phys_time`, `get_virt_time` |
| Serial line | drivers/uart.c | `vm_connected_to_uart`, the static `escape_char_pressed` | `uart_init`, `uart_tx`, `uart_rx`, `uart_handler` |
| Shell | shell/shell.c | the command table | `shell_run`, `list`, `enter`, `help` |
| VM creation | core/vm.c | `struct vm` at the bottom of a page whose rest is the VM's hypervisor stack | `vm_init`, `load_vm`, `prepare_vm` |
| Synchronous traps | core/sync.c, exceptions.S | the exception frame | WFx, FP access, HVC, system registers, data aborts |
| Stage-2 translation | mm/paging.c, paging.S | three levels of tables for each VM | `map_page`, `map_table`, `map_virtual_address_space`, `ipa_to_phys` |
| Storage enclave (SSE) | sse/sse.c | one directory for each VM on the card | `sse_init`, HVC read and write |
| SD driver, disk layer | drivers/sd.c, fs/diskio.c | `sd_err`, `sd_scr`, `sd_rca`, `stat` | `sd_init`, `sd_cmd`, `sd_readblock`, `sd_writeblock` |
| FAT file system | fs/ff.c (FatFs) | `fat` with its one-sector window, FAT, directories and FSInfo on the card | `f_mount`, `f_open`, `f_read`, `f_write`, `f_close`, `f_chdir`, `f_stat`, `f_mkdir` |
| C library | lib/src | none | `printf`, `gets`, `itoa`, `stoi`, string and memory functions |
| Boot, machine set-up | boot/boot.S, core/misc.S, delay.c | none that changes later | |

How they interact. There is one core and no thread. The hypervisor is entered
by an exception (`hypervisor_entry`: save the frame, call `vcpu_exit()`), runs a
handler to its end with interrupts masked, and leaves (`hypervisor_exit`:
`vcpu_enter()`, restore the frame, `eret`). Interrupts are taken in two places
only: in a guest, and in the main loop between `__enable_irq` and
`__disable_irq`. Everything that is hard follows from what happens *between*
these atomic stretches:

* `schedule()` is called from four places (main loop, tick in the main loop, tick
  in a guest, trapped WFx), and whoever comes back comes back to a different one.
* `shell_run()` blocks in `gets()` inside the interrupt handler, on the stack of
  whichever VM was interrupted. Meanwhile the timers go on matching.
* The serial line changes hands in the middle of somebody's time slice, and
  output is in one of two places: on the line, or in a buffer.
* A guest's clock is a difference of readings taken at different exceptions.
* `free()` does not know the size of what it frees; only the order of the
  allocations before it decides what it releases.
* A call of the storage enclave is many sector writes, and the power may fail
  between any two of them.
* The SD driver polls a controller that answers, fails or is late as it likes, and
  interrupts of a transfer that was given up stay for the next one.
* A trap is carried out on the registers of `current`, and some traps change
  `current`; devices, interrupt lines and EL1 registers are each kept or not kept
  over a change of VM in their own way.

What makes each component correct, in a line: no VM starves and each comes back
where it left (scheduler); a bounded queue (console); nobody's memory twice, and
page tables only on pages that hold zeros (heap); time stands still for a VM that
is not running, and its nearest timer is the one that is set up (timer); output
complete, in order and at once for the VM one is connected to (serial line);
what the hypervisor reads through a guest's address is what the guest sees
(stage 2); each guest has a processor of its own (traps), and an interrupt that is pending
for it waits for it (interrupt controller); files are written once, and what was
acknowledged survives a loss of power (SSE), on a file system that
is whole at every moment (FAT); a call of the driver ends and counts the blocks that
really moved (SD). PROJECT.json lists the hazards behind these, each at its line.

## 2. Modules

| Module | Models | Proofs |
|---|---|---|
| `Rounds` | abstract: one turn for each VM and round | |
| `Sched` | scheduler, main loop, interrupts, blocking shell; implements `Rounds` | `SchedProofs` |
| `Fifo` | abstract: a bounded queue | |
| `Console` | the ring buffer; implements `Fifo` | in `SerialProofs` |
| `Heap` | page heap under the program's own sequences of calls | `HeapProofs` |
| `VTimer` | virtual time, virtual and physical compare registers | `VTimerProofs` |
| `PrivateMemory` | abstract: memory of one's own, that stays where it is | |
| `Stage2` | stage-2 tables, the hardware's walk and `ipa_to_phys`; implements `PrivateMemory` | `Stage2Proofs` |
| `Serial` | UART handler, shell, virtual mini-UARTs and both buffers of each VM | `SerialProofs` |
| `Machines` | abstract: a processor of its own for every guest | |
| `Vcpu` | traps, device registers, interrupt controller, register banks; implements `Machines` | `VcpuProofs` |
| `SdCard` | SD driver and disk layer, with the controller and the card | `SdProofs` |
| `Fat` | the functions of FatFs as operators on a volume | |
| `Vault` | abstract: a store of files that are written once | |
| `Enclave` | storage enclave on `Fat`, with a card that gets one sector at a time and power that fails; implements `Vault` | `EnclaveProofs` |

The modules whose names begin with MC give values to the constants. Two of them also put
two small systems that share no variable beside each other, so that one run explores both, one in
each behaviour: `MCSerial` the serial line and the ring buffer behind it (`LineSpec`), `MCMemory` the
heap and the stage-2 tables (`MemorySpec`). Definitions
called `...Unchecked`, `...Short` and the like, with a comment that starts "Mutant of", are not part of a
specification: each is a version of the following definition with a plausible bug, kept to show
that a property would notice it.

**Sched.** `resume[v]` is the continuation a VM has on its hypervisor stack:
`"start"` is `__prepare_vm`, `"guest"` and `"window"` are exception frames,
`"loop"` is the call of `schedule()` in the main loop; `Landing` says where
`switch_context` continues. `cpu` is where the CPU is. An action is one atomic
stretch: `TimerTick` is the whole of `handle_irq`, `system_timer_1_handler`,
`scheduler_tick` and, when the quanta are used up, `schedule`; the order of the tests
in `handle_irq` (M1, M3, AUX) is in the guards of `TimerTick`, `VirtualTimer` and
`UartPending`. `Schedule(k)` is lines 60-106 of sched.c with both iterations of
its loop. The branch for `total_vms == 0` is dead, since `sched_init` enters the
shell, and `ticks_passed`, which is only printed, is left out.

**Console, Fifo.** Every function of console.c. Characters are model values.
`console_flush` transmits what it pops; `out` is what an operation handed out.

**Heap.** Pages are numbers counted from `HEAP_LOW`, the word of a page is one of
four marks. `blocks` is the set of blocks somebody has a pointer to and `stale`
the free pages that once held data; both are bookkeeping of the model. A request
for n bytes takes n / 4096 + 1 pages, so that a page table takes two. One action is
one call of `malloc()` or `free()` at its place in the program: the hypervisor's
structures, then `vm_init()` (`AllocStruct`, `AllocLv1`, `AllocVas`, then either
`OpenFails` with its `free()`, or `AllocImage`, `AllocTable`, `Loaded`), then what
happens while guests run (`AllocText` for itoa() and the directory names,
`FaultPage`, `FaultTable`, `FaultDone` for a data abort). `AllocTable` and
`FaultTable` may happen any number of times, and `HypervisorAllocs` likewise: more
sequences than the code has. When a call leaves the heap (`wild`) the model stops.

**VTimer.** The physical counter ticks at any moment. `mode` says who runs: a
guest, the trap of a guest, the way back from it, or the hypervisor on the way to
any guest. `Word` and `Wide` stand for 2^32 and 2^64, so that the arithmetic keeps
its width; `Clo`, `Chi` and `get_phys_time` are computed as the code does it,
with the upper word not shifted. `active` and `due` are history variables.
Match bits are set when a guest is entered, for every register that is nearer than
those before it (`Matched`): several may be set at once, as in vcpu.c:380-395.

**Serial.** An exception with its `vcpu_exit`, handler and `vcpu_enter` is one
action; `Exited`, `Entered` and `Flushed` are composed in the order of the calls.
The buffers are the queues that `Console` is shown to implement. Output
characters are numbered in the order in which a guest writes them, so that order and
duplication can be seen; typed characters are `!`, `1` and any other. `Switch(w)`
lets any VM follow: `Sched` says which one does. Reading and writing are
restricted by AUX_ENABLES and DLAB as in vcpu.c. Not modelled: the `list` and
`help` texts, the echo and prompt on the same line, and the state test at
uart.c:112 and shell.c:121, since `state` is set to VM_RUNNING once and never
changed.

**Stage2.** Addresses are page numbers, a RAM page is a frame, `memory` holds the
entries of the frames that are tables. `map_page` is the code's function with its
two calls of `map_table`; `MapImage` and `MapDevice` are one iteration each of the
loops in `map_virtual_address_space`, `CreateVm` what precedes them in `vm_init` and
`load_vm`, and `DataAbort` the translation fault. `Walk` is the walk of the hardware
(external). Frames are handed out in order; that a table finds only zeros in its frame
is `TablesFresh` of `Heap`. `DeviceFirst` to `DeviceLast` are the pages of the loop's own bounds
(paging.c:72-77), `MmioLast` is the last page of the MMIO region as the hypervisor maps it for itself,
in blocks of 2 MB (paging.S:68-85); the two differ (section 4). `Far` relates the page a guest touches to the one in
`far_el2`, which is a virtual address: the run takes the identity, a guest whose own
translation is off or flat. For any other guest the handler maps the wrong page
(hazard sync.c:280).

**Vcpu, Machines.** An exception, from `hypervisor_entry` (`vcpu_exit()`) over its
handler to `hypervisor_exit` (`vcpu_enter()`), is one step; `Left` and `Return` are its
two ends. A register is the set of its bits, and the buffers of the UART are
counts (their contents are `Serial`'s matter). `dev` holds the device registers of a
guest, `bank` its `cpu.sysregs`, `el1` says whose values are in the EL1 system
registers of the processor: `prepare_vm()` loads them once, guests write them
without a trap (HCR_EL2 has no TVM), nothing else touches them. A change of VM
swaps `pt_regs` by swapping stacks, so `x` and `pc` are per guest. What a guest
executes is a constant, `Programs`: any order of the instructions listed there, which are
taken from `Repertoire`.
Which VM `schedule()` picks, who is connected and which timers match are left open.
`PENDING_2`, `Slot`, `Unreached`, `sp_slot` and bit 3 of `STAT` are what the code does,
not what the BCM2837 manual says.

**SdCard.** A call of the driver is a sequence `todo` of what it still waits for before its
next branch (the loop over the blocks, `NextRound`; that around ACMD41, `Tried`); each
element names the loop (`sd_status`, `sd_int`, those of `sd_clk` and `sd_init`), what
happens when it succeeds and what a failure does (return, go on without the command,
or, after CMD55, one or the other depending on the card's address, in which case `sd_err` keeps the
failure). `Poll` is one
round of a wait, `StatusEnds`, `LoopEnds`, `IntEnds` and `ReadScr` the code after it. Between
two of them the controller and the card (external) may do anything: answer, fail,
announce a block, finish, or stay silent. `moved` counts the blocks that really went
over the bus, against which the driver's count is compared.

**Fat.** Each function of ff.c that the hypervisor reaches is an operator from a
volume to a volume and a result. The volume is the `FATFS` object with its window,
together with the sectors of the card and the log of sector writes. A sector has
`SS` cells; a cell is a FAT entry, a directory entry or a byte. What ffconf.h
compiles out (long names, exFAT, GPT, locking) is left out, and so are dates, FAT12
cells across sectors, and functions nobody calls. Reading whole runs of sectors is
reading one after the other. A name is a value; `Sfn` says which directory entry
`create_name()` makes of it (two names may be one file). Disk errors are not in `Fat`:
the disk layer reports every transfer as successful (run `sd_told`), so FatFs never acts on one. What
the `enclave` run shows, it shows for transfers that did succeed. A loop of the code is a
recursive function on the number of its rounds, with the body as an operator of its own
(`Try`, `Removed`, `Look`, `ReadOn`, `WriteOn`) that does nothing when the loop has ended; where the
code has no bound of its own, `Rounds` is one that no file or directory reaches. `EOC` stands for
0xFFFFFFFF, the end of a chain and the count that is not known.

**Enclave, Vault.** A handler is computed in one step, since nothing interrupts it,
and its sector writes wait in `queue`; `DiskStep` lets the next one reach the
card, `PowerLoss` forgets everything but the card, `PowerOn` is the next boot: mount,
images (`vm_init`), directories (`sse_sandbox_init`), calls of the VMs. `stored` is what
a reader of the card would find, by a definition (`Stored`) that shares no chain- or
directory-walking with `Fat`. The machine is started with cards that are sound or hold no
volume (`CardsAssumption`): `Formatted` says what a formatting program leaves, that
all sectors of the volume are there, that FSInfo lies before the FAT, and that the entries of the
partition table before that of the volume point to sectors before it. The names of
the directories are a constant; the guests are numbered from 1, since `vmlist[0]` is the shell.
`FilePath` joins the directory's path and the guest's string as `strcat()` does, with nothing between
them: "/F" is a file of the VM's directory, "F" makes the file `VM_1F` of the root, and "/../f" leads out of the directory.
`Place` is what a path means, and `File` the file a VM means by a name; several names, and
names of several VMs, may mean one. `Vault` is therefore a store that all VMs share.
Pages taken for names are never given
back, which `pages` counts; when they are used up the model stops.

## 3. Runs

| Run | Instance | Shows |
|---|---|---|
| `sched` | 3 slots, 3 calls of `vm_init`, quanta 2 | quanta never wrap (`QuantaInv`), one tripled share at a time (`OneBoosted`), contexts return to their owners (`ContextInv`), no VM is started twice (`NeverRestarted`), `Sched` implements `Rounds` (`RoundRobin`), no VM starves (`EveryVmRuns`) |
| `heap_full` | 5 pages | **violation**: a full heap does not give NULL (`FailureIsNull`) |
| `vtimer` | 2 guests, 2 registers, counter below the word | a guest's clock is its time on the CPU (`ActiveTime`), the nearest timer is marked (`NearestMarked`) |
| `vtimer_c3` | the same, register values 1, 3 and 15 | **violation**: C3 does not match when the nearest timer comes up (`TimerArrives`) |
| `vtimer_wrap` | a word of 4 values, counter to 6 | **violation**: after the wrap the clock is wrong (`ActiveTime`) |
| `serial` | shell and 2 guests, buffers of 1, 3 characters each; a ring of 3 places, 2 characters | output is drained, immediate, in order (`Drained`, `Immediate`, `InOrder`); the escape is the last character typed (`EscapeIsLast`); the indices of the ring stay in step (`IndexInv`), the ring is a queue (`IsFifo`) |
| `memory` | heap of 16 pages, 2 calls of `vm_init`, images up to 2 pages; 2 VMs, tables of 3 entries, 20 frames | nobody's memory twice (`Exclusive`), tables on fresh pages (`TablesFresh`); `Stage2` implements `PrivateMemory` (`IsPrivate`), guests cannot reach tables (`TablesHidden`), below 1 GB `ipa_to_phys` agrees with the hardware (`SeesGuestPage`) |
| `stage2_devices` | the same tables | **violation**: pages of the MMIO region are given RAM (`DevicesTrap`) |
| `vcpu` | 2 guests, 4 registers, 4 programs | each guest has a machine of its own (`ImplementsMachines`), keeps a pending interrupt until it acts (`PendingUntilServed`), and keeps its EL1 registers while it is the only one (`AloneKeepsEl1`) |
| `sd` | 2 polls, 2 tries, 1 and 2 blocks | calls end (`CallsEnd`), a count returned is true (`CountIsTruth`), data commands wait for the data lines but in one case (`DataCommandsWait`) |
| `sd_told` | the same | **violation**: a failed transfer is reported as successful (`FailureIsTold`) |
| `enclave` | 4 cards, 2 VMs, 4 names, 2 contents, one loss of power | the card is a sound file system at every sector write (`ChainsSound`, `LinksSound`, `FreeCountNotLow`), leaks nothing without a loss of power (`NoLostClusters`), what was acknowledged is on it (`AckedIsStored`), reading gives it back (`ReadsBack`), `Enclave` implements `Vault` (`ImplementsVault`) |

Why the bounds are enough. *sched*: three slots hold a shell, a VM with the
serial line and one without; quanta 2 is the configured value and gives a VM a tick
that does not end its turn; three calls of `vm_init` with three slots include one
that finds the list full. *memory*, the heap: two calls of
`vm_init` are what `main` makes; each may fail or succeed before the other, and 16
pages leave room for faults after two successes as well as a heap that fills up in
every phase. *vtimer*: two guests are needed for idle time; two registers show
every order of near and far; four ticks let each guest run, wait and run again.
`CloAddress` is 1 in that run so that the counter reaches C3 within them.
*serial*: a buffer of one is full after one write, so every write to a VM that
is not connected meets an empty or a full buffer; longer ones are the ring's matter, in which
three places let a wrapped buffer have a character on either side of the end and one place free.
*memory*, the tables: with three entries a table the image ends in the block in which the devices
begin, the devices end in another, with one page of the MMIO region behind them, and two first-level entries are in use; the five
pages a guest may touch lie in front of, between and behind what is mapped at
boot and beyond 1 GB; 20 frames hold two loaded VMs and a few faults of each kind, or one VM with every fault.
*vcpu*: one guest works with the interrupt controller and a timer, one with every
branch of the UART's registers, two exchange values with system registers and use
registers 0, 15, 16 and 31 (the edges of the masks), two write EL1 registers; in each
instance another guest comes and goes. Buffers of two are empty, neither or full.
*sd*: with two polls a wait can end at once, in its last round or by
timeout; two tries give an ACMD41 that is repeated; two blocks are what the
multi-block commands begin at; the cards differ in addressing (CCS) and in
SET_BLKCNT, which the run chooses as it goes. An abandoned transfer is followed by any other
call. *enclave*: a FAT32 card with a partition table and room for everything, the same
nearly full, so that a write or a directory finds no cluster, a FAT16 card without
a table and with two-sector clusters, whose root directory has one free entry, and one
without a file system. A sector of three cells makes a content of four bytes cross a
sector, a cluster and the window; the image has two clusters; the names are one in the VM's directory, one that leads
out of it (in the instance to the root, where both VMs mean the same file), one without a separator, and one that is
refused; the root of the FAT32 cards is full, so that a file in it stretches it; free clusters hold no directory entries, as on a card on which no
directory was deleted (what else happens is said in section 4); 12 pages allow two writes or reads after a boot with two
VMs; one loss of power strikes at every write of every call, and the boot after it runs
to its end.

Deadlock is checked in `vtimer`, `serial`, `sd` and `vcpu`. It is not in `sched`, where
an exception without a handler halts the machine for good (sync.c:339), and not in
`memory` and `enclave`, where memory runs out and the model stops, nor in the runs that
end in a violation.

Fairness. In `sched`, weak fairness of `Boot`, `CloseWindow` and
`LoopSchedule`: this is code of the hypervisor itself, which the CPU executes.
`TimerMatch`: the counter is hardware and passes C1, which each tick programs
again. `TimerTick`: the CPU takes a pending interrupt in a guest or in the
window, and `handle_irq` tests M1 first, so that serial input cannot keep it away.
Nothing is assumed of guests (they need never yield) or of whoever types; hence
`EveryVmRuns` excuses a shell that blocks for ever and a machine that halted.
In `sd`, weak fairness of `Driver`, which is code with interrupts masked, and of
`WordReady`: the loop that reads the SCR (sd.c:377) never decrements its counter, so
`CallsEnd` holds only if a controller that announced a block also delivers its two
words. Nothing else is assumed of the controller.

## 4. Findings

* **mm/mm.c:84** `malloc()` cannot fail: when no block is large enough, `malloc_find_free_block()`
  returns a negative error code and leaves `page_map` as it was; `malloc()` tests the code with `< 0` in an
  unsigned variable and returns an address below the heap. Callers that test for NULL
  (vm.c:103, sync.c:276) never see it (`heap_full`).
* **mm/paging.c:77** the loop over the MMIO region goes in pages to the bound that paging.S:68-85 uses for
  blocks of 2 MB. The pages from 0x3fe01000 to 0x3fffffff are left out, and the first
  access of a guest to one of them is given RAM (`stage2_devices`).
* **fs/diskio.c:63** the driver returns 0 when a transfer failed, the disk layer tests for less than 0: FatFs
  is told RES_OK, "Successful" (diskio.h:19), of a sector that was not read or written (`sd_told`).
* **core/vcpu.c:402** C3 is set to the *address* of the counter register plus the
  time left, not to its value; the interrupt that vcpu.c:399-400 announces comes at
  an unrelated moment (`vtimer_c3`).
* **drivers/timer.c:43** the upper word of the counter is not shifted; when the lower
  one wraps, after 71 minutes, physical time jumps back and the idle time of a guest
  (vcpu.h:153) is wrong from then on (`vtimer_wrap`).

Seen on the way and not covered by a run: when an image cannot be opened,
`free(_vm)` also releases the first-level table that lies behind the struct and
leaks the page of the address space descriptor (vm.c:138, and `HeapProofs` for why
it releases exactly that); `shell_init()` fills in a local variable that hides the
global one (shell.c:82); and the entries of "hazards" in PROJECT.json that have a
note. The models of this part of the code say what it does, and the
properties are stated for what it can keep; a reader should know that

* no virtual interrupt line is ever raised: the lines are set in `prepare_vm()`, when a
  guest has nothing enabled, and never again (vm.c:90), so a guest must poll;
* the UART's interrupt is enabled by bits 0, 3 and 4 of ENABLE_2, not bit 25
  (vcpu.c:135), DISABLE_BASIC and all GPIO registers are out of every range
  (vcpu.c:19, 194), and bit 3 of STAT is inverted;
* a load into x16 to x30 goes to another register (sync.c:284);
* EL1 system registers are not switched, so two guests with translation on cannot
  both run (sched.c:105);
* a late error bit makes each later transfer fail, and so go unnoticed, until the card is initialised again (sd.c:132), and
  an error in the status of SEND_REL_ADDR is returned as a positive number, which
  `disk_initialize()` takes for success (sd.c:364);
* the tests of ACMD41's answer for an error are reached only with an answer that is complete (sd.c:335-355),
  since the lines before them that printed are commented out and their conditions are not: the first finds the
  error of a CMD55 that failed while the card had no address, the last is true of a
  complete answer without the voltage; and an answer in the last try is taken for none;
* the name of a file is appended to the path of the VM's directory without a separator and without a
  look at it (sse.c:131, 144-145), so a VM's files need not be in its directory and
  are not its own: `ImplementsVault` promises that files are written once, to whoever shares them;
* a write that finds the card full stores a part and returns 0 (sse.c:148), and one
  that was interrupted leaves an empty file that can never be written
  (FA_CREATE_NEW, sse.c:147);
* a directory that grows is linked to its new cluster before that is cleared (`create_chain()`, then
  `dir_clear()`, ff.c:1786-1790, which begins by writing the window with that link, ff.c:1678). A loss of
  power in between leaves what the cluster held as entries of the directory. If that was
  a directory once, its old entries come back to life, and two files may own one cluster: TLC finds `ChainsSound` violated
  when the free clusters of the cards are filled with an entry (`Junk` of `MCEnclave`). The
  run's cards have none, and `deltaV` itself deletes no directory;
* after a restart every sandbox is reported as failed, since its directory is there
  (sse.c:54), and works all the same.

## 5. Proofs

All proofs are checked by tlapm for arbitrary constants under the named
assumptions of the modules (`ConfigAssumption`, `SizeAssumption`, `HeapAssumption`,
`TimerAssumption`, `SerialAssumption`, `PagingAssumption`, `VcpuAssumption`,
`ProgramsAssumption`, `SdAssumption`, `FatAssumption`, `EnclaveAssumption`, `CardsAssumption`), which
say that sizes are positive, that three
shares of quanta fit into the counter, where the image and the devices lie in a guest,
that guests execute instructions of the repertoire that `Vcpu` lists, and that the card is sound
when the machine is first started. Where a theorem
assumes more its statement says so: that the physical counter stays below 2^32
(`ClockMax < Word`), or that faults are reported at the pages they are about (`FlatFaults`).

| Theorem | Statement |
|---|---|
| SchedProofs | `TypeCorrect`, `QuantaSafe`, `ContextSafe`, `SingleBoost`, `NoRestart`, `Refinement` (`Spec => R!Spec`) |
| HeapProofs | `TypeCorrect`, `BlocksExclusive`, `FreshForTables` |
| VTimerProofs | `TypeCorrect`, `VirtualTimeIsActiveTime`, `NearestIsMarked`, all assuming `ClockMax < Word` |
| SerialProofs | `TypeCorrect`, `AlwaysDrained`, `EscapeSafe`, `OutputInOrder`, `OutputImmediate`; of `Console`: `RingTyped`, `IndicesAgree`, `RingIsFifo` |
| Stage2Proofs | `MapPageSound`, `TypeCorrect`, `TablesAreHidden`, `FramesArePrivate`, `GuestPageIsSeen`; assuming `FlatFaults`: `ImplementsPrivate` (`Spec => IsPrivate`) |
| VcpuProofs | `TypeCorrect`, `LinesAreDown`, `AloneIsKept`, `PendingIsKept`, `MachinesAreOwn` (`Spec => ImplementsMachines`) |
| SdProofs | `CountsAreTrue`, `LinesAreFree` |
| EnclaveProofs | `EnclaveInv`, `EnclaveLinks`, `EnclaveChains`, `EnclaveCount`, `EnclaveVolume` |

Each goes by an inductive invariant (`IInv`, `EInv`) with one lemma for each action, or for
each kind of action.

* *Sched*: the conjunction of `TypeOK`, `QuantaInv`, `ContextInv` and `OneBoosted`,
  none of which is inductive alone: which continuation a caller of `schedule()` may
  leave depends on whether it is the shell. The refinement needs the quanta of
  `current` to be positive, since `Rounds` counts whoever is on the CPU as having
  its turn.
* *Console*: `TypeOK` and `IndexInv`. Without the latter, a push could store over
  the oldest character, and `Contents'` would not be `Append(Contents, c)`.
* *Heap*: the difficulty is that `free()` trusts the marks: it clears the words
  behind a one-page block. What makes the program safe is the shape of the free
  pages. While `vm_init()` runs they are the top of the heap, so the struct vm and its
  first table are neighbours and `free()` of the struct stops behind that table; it
  leaves a hole of three pages, only the first of which held data, and the next
  struct and first table fill it again. `Shape` says this for every `at`.
  `TablesFresh` follows from it, not from any test in the code.
* *VTimer*: for the guest on the CPU, physical time less `time_not_active` is its
  `active` time; for the others the same with `last_recorded` in place of the clock. The
  assumption `ClockMax < Word` is what run `vtimer_wrap` shows to be needed. For
  `NearestMarked` there is besides a lemma about the loop over the registers: the
  first of the nearest registers is nearer than all before it, hence marked. That there is
  a first one, for any number of registers, is the least-number principle (`Least`,
  from the library's theorem that `<` is well-founded on the naturals).
* *Serial*: the control part ties the flag to the last character typed; the
  buffer part says that everything sent and held is increasing and no larger than
  what was written, and that the connected VM holds nothing, also in the middle of
  an exception, after `Exited` and before `Entered`.
* *Stage2*: `TablesHidden` and `IsPrivate` are not inductive: a table entry that led to
  a frame in use elsewhere would break them at the next fault. The invariant is that
  the tables of all VMs and the RAM they map are a forest (`Forest`): one entry at most
  leads to a frame, none to a first table, and nothing is written beyond the frames
  handed out; that entries of the first two levels lead to tables only
  (`Levels`); and that what `map_virtual_address_space()` has still to map is free
  (`Loading`). `MapPageSound` shows that `map_page()` keeps the forest and changes one
  walk, of the page it is given, by cases on which of the two tables on the way are
  there; every action is then an instance of it. The invariant does not mention
  `Far`: wherever `far_el2` points, tables stay hidden and no two pages share a frame
  (`FramesArePrivate`, by following the forest up from the frame). That
  pages keep their places does depend on it: `handle_sync_data_abort()` maps the page
  `far_el2` names, without looking whether it is mapped (sync.c:280), so a guest whose own
  translation moves a page can have another one remapped. `FlatFaults` excludes this.
* *Vcpu*: each exception either leaves all devices as they were or with more to report (`Later`:
  the same enabled bits, no fewer match bits and characters to read, output flushed or
  untouched), or does so but for the one device of the guest that accesses it, and then carries out
  one instruction of its machine. `Later` is transitive, so that `vcpu_exit()`, handler and
  `vcpu_enter()` compose; `PENDING_1` and `PENDING_2` are monotone in it. The
  invariant adds that guests that have not
  run have enabled nothing, so that `prepare_vm()` raises no line (`LinesAreDown`), and that EL1 is as at
  boot until the first guest starts. `TypeCorrect` matters for the refinement:
  a register has room for every word a device returns.
* *SdCard*: `TypeOK` with the shape of what is left of a call (`Form`), the data lines (`Lines`)
  and the blocks (`Moving`). `Form` says what `todo` may hold: at most one data command
  until the next branch, a command that may be skipped is skipped whole, the wait for a
  block comes last, the wait for the end of the transfer first. `Lines` says that the lines
  are free or still waited for, but in the later rounds of the loop that does not wait
  (`Exempt`); a transfer begun on top of another is only possible there. `Moving` relates
  the driver's `c` to the blocks on the bus. In a read the two are equal, and an announced block
  is in the buffer. In a write, as long as no error bit is up, the blocks the card was told
  of (`Told`) are those moved and those still owed; the last may be in the buffer until
  `DATA_DONE`, so that the count is true only after that wait. An error bit that is up makes
  the next wait fail, which is what carries the proof past faults of the controller.

* *Enclave, Fat*: what a run of the file system does to the card is a sequence of sector writes, and
  each prefix of it may be all that a loss of power leaves. `EInv` says that the card is sound, and that the
  writes still in `queue` lead past sound cards (`Trail`) to the one the volume in memory takes for
  it. Each function of `Fat` is shown to keep `Ok`: the same card geometry (`Same`), a window that holds
  a sector of the FAT or of the data or one that is not written (`Window`), a card that is sound (`OkCard`) and reached
  by a `Trail`, and a FAT in memory (`Mem`: the card's, with the window in place of
  one of its sectors) whose links are apart too. That both FATs are sound is not inductive by itself, for two reasons.
  First, the window may hold several changes of one sector, or go to the card late: a link may
  be on the card and its target only in the window, or the other way round. As at most one
  sector differs, the card after `sync_window()` is the FAT of memory, so nothing in between has to be
  considered. Second, FSInfo is written at the end of a call, when clusters have been taken and freed:
  its count covers the clusters free on the card, those free in memory, and those taken since
  it was written, together (`Counted`). `remove_chain()` frees clusters whose count `f_mkdir()` never writes;
  they were taken in the same call, are nobody else's, and only lead to each other (`Hold`),
  so that the old count still covers them. `OkChain`, `OkRemove`, `OkClear`, `OkRegister`, `OkWrite`
  and `OkClose` are the functions that write; they write to the FAT, to
  FSInfo and to data sectors of clusters only, which needs the arithmetic of `clst2sect()` and of the
  directory pointer (`ClusterPlace`, `EntryPlace`). `Remount` shows that a card reached in
  this way is mounted with the geometry it had. The loops of `Fat` are handled by one
  lemma that says that a recursive function over 0..N exists (`LoopRuns`), and by induction over the rounds (`Induct`,
  from the same least-number principle as above). `EnclaveChains` follows from `EnclaveLinks`: a chain
  that begins where nothing leads cannot come back to a cluster it has passed, for that one has
  its one predecessor already (`PathGrows`); so it has at most as many clusters as the volume and the
  reader comes to its end (`ChainEnds`), and two chains that met would begin at one cluster (`PathsApart`).

Only model-checked: `EveryVmRuns` and `CallsEnd` (liveness under fairness, out of the
prover's reach), and of `Enclave` the properties that speak about the contents of directories and
files: `ChainsSound`, `NoLostClusters`, `AckedIsStored`, `ReadsBack` and the refinement `ImplementsVault`.
They compare what `Fat` does with what an independent reader finds by following paths and
chains to their ends (`Lookup`, `Chain`, `CellsOf`), that is with what recursive functions compute from a whole
tree. `EnclaveLinks` and `EnclaveChains` are the part of `ChainsSound` that concerns the FAT. Everything else
the passing runs check is proved.

Three models were changed for the proofs, to say more exactly what the code does. In `Vcpu` the
device registers take the low 32 bits of a stored value (`Word`; they are `uint32_t`), and what
guests may execute is stated (`Repertoire`). In `SdCard` the loop over the blocks is the code's:
`Transfer` is what precedes the first block, `Round` one round, `NextRound` the test of
the loop and `Closing` what follows it, where before all rounds were laid out in advance.
In `Fat` loops are functions with a bound instead of recursive operators, and `Formatted` says all that a
card must have for the code to read its sectors as what they are.

## 6. Not modelled, and the plan

Every component that keeps state is modelled, and every safety property and refinement is proved
but those of `Enclave` named above. What could be done next, in this order:

1. `ChainsSound`. That chains end and are apart is proved (`EnclaveChains`). What is missing is an invariant
   of the directories: that an entry names a cluster to which nothing leads, each once, that the chain is as long as the file,
   and that nothing but `dir_register()`, `f_sync()` and `f_mkdir()` changes the sectors of a
   directory. It needs the assumption that free clusters hold no entries (section 4).
2. `AckedIsStored` and `ReadsBack`, with the contents of the chain of a file as it is
   written and read; then `ImplementsVault`.
3. `PrivateMemory`, `Machines` and `Rounds`: what follows from them alone, as
   theorems of the abstract specifications.

Not modelled:

* the C library: functions without state; where one matters it is in the module
  of its caller (`itoa()` in `Heap` and in the names of `Enclave`, `gets()` in `Sched`);
* the boot code and register set-up (straight lines), debug output, and the texts the
  shell prints;
* parts of FatFs that ffconf.h compiles out or nobody calls;
* transfers that fail under FatFs: it never learns of them, and what it then does with
  the bytes in its window can be anything;
* whose buffers the calls of the enclave reach: a buffer that crosses a page;
* the depth of the per-VM stacks (a property of compiled code).
