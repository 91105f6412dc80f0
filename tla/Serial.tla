------------------------------- MODULE Serial -------------------------------
(***************************************************************************)
(* One serial line shared by the shell and the guests.  Every guest has a  *)
(* virtual mini-UART made of two console buffers; one VM at a time is      *)
(* connected to the physical line (drivers/uart.c, shell/shell.c).  What a *)
(* guest writes is kept in its buffer until it is connected, and is put on *)
(* the line by whoever flushes the buffer: vcpu_exit() and vcpu_enter() of *)
(* the connected VM, or the shell when it connects a VM (core/vcpu.c).     *)
(*                                                                         *)
(* The hypervisor runs with interrupts masked, so that an exception, from  *)
(* hypervisor_entry to hypervisor_exit, is one step.  A console buffer is  *)
(* the bounded queue that Console implements.  Output characters are the   *)
(* numbers 1, 2, ... in the order a guest writes them.                     *)
(***************************************************************************)
EXTENDS Naturals, Sequences

CONSTANTS Guests,    \* the VMs with an image
          Shell,     \* VMID_SHELL
          Size,      \* CONFIG_VM_CONSOLE_BUFFER_SIZE
          MaxSaid    \* bound: characters each guest writes

ASSUME SerialAssumption ==
  /\ Shell \notin Guests
  /\ Size \in Nat \ {0}
  /\ MaxSaid \in Nat

VARIABLES
  vm_connected_to_uart,
  escape_char_pressed,
  current,   \* the VM on the CPU
  input,     \* input_console of each VM
  output,    \* output_console of each VM, and what it put on the line
  enabled,   \* bit 0 of AUX_ENABLES of each VM
  dlab,      \* the DLAB bit of AUX_MU_LCR_REG of each VM
  said,      \* history: how many characters each VM wrote
  last       \* history: the last character typed, if a VM was to get it

vars == <<vm_connected_to_uart, escape_char_pressed, current, input, output,
          enabled, dlab, said, last>>

VMs   == Guests \cup {Shell}
Typed == {"!", "1", "other"}

TypeOK ==
  /\ vm_connected_to_uart \in VMs
  /\ escape_char_pressed \in BOOLEAN
  /\ current \in VMs
  /\ input \in [VMs -> Seq(Typed \ {"!"})]
  /\ output \in [VMs -> [held : Seq(Nat), sent : Seq(Nat)]]
  /\ \A v \in VMs : Len(input[v]) <= Size /\ Len(output[v].held) <= Size
  /\ enabled \in [VMs -> BOOLEAN]
  /\ dlab \in [VMs -> BOOLEAN]
  /\ said \in [VMs -> 0 .. MaxSaid]
  /\ last \in Typed \cup {"shell"}

Init ==
  /\ vm_connected_to_uart = Shell
  /\ escape_char_pressed = FALSE
  /\ current = Shell
  /\ input = [v \in VMs |-> <<>>]
  /\ output = [v \in VMs |-> [held |-> <<>>, sent |-> <<>>]]
  /\ enabled = [v \in VMs |-> FALSE]
  /\ dlab = [v \in VMs |-> FALSE]
  /\ said = [v \in VMs |-> 0]
  /\ last = "shell"

-----------------------------------------------------------------------------
(* The buffers *)

\* In Flushed and the like lines stands for output or what a handler has made
\* of it so far.

\* Mutant of Pushed: the limit is off by one.
PushedOver(queue, ch) == IF Len(queue) <= Size THEN Append(queue, ch) ELSE queue

\* console_push() on a queue.
Pushed(queue, ch) == IF Len(queue) < Size THEN Append(queue, ch) ELSE queue

\* Mutant of Flushed: what was transmitted stays in the buffer.
FlushedKept(lines, v) == [lines EXCEPT ![v].sent = @ \o lines[v].held]

\* console_flush() of the output of v.
Flushed(lines, v) ==
  [lines EXCEPT ![v] = [held |-> <<>>, sent |-> lines[v].sent \o lines[v].held]]

\* Mutant of Entered: vcpu_enter() leaves the flush to vcpu_exit().
EnteredUnflushed(lines, v, connected) == lines

\* vcpu_exit() and vcpu_enter() of VM v.
Exited(lines, v) == IF v = vm_connected_to_uart THEN Flushed(lines, v) ELSE lines
Entered(lines, v, connected) == IF v = connected THEN Flushed(lines, v) ELSE lines

\* An exception that only reads or writes registers of current.
Untouched == Entered(Exited(output, current), current, vm_connected_to_uart)

-----------------------------------------------------------------------------
(* The guest's side: accesses to the mini-UART trap *)

\* AUX_MU_IO_REG, write: with DLAB set the value goes into the baud rate.
WriteIo ==
  /\ current \in Guests /\ said[current] < MaxSaid
  /\ said' = [said EXCEPT ![current] = @ + 1]
  /\ LET before == Exited(output, current)
         after  == IF enabled[current] /\ ~dlab[current]
                   THEN [before EXCEPT ![current].held = Pushed(@, said'[current])]
                   ELSE before
     IN  output' = Entered(after, current, vm_connected_to_uart)
  /\ dlab' = [dlab EXCEPT ![current] = @ /\ ~enabled[current]]
  /\ UNCHANGED <<vm_connected_to_uart, escape_char_pressed, current, input, enabled, last>>

\* AUX_MU_IO_REG, read: nothing is taken from an empty buffer.
ReadIo ==
  /\ current \in Guests
  /\ input' = IF enabled[current] /\ ~dlab[current] /\ input[current] # <<>>
              THEN [input EXCEPT ![current] = Tail(@)]
              ELSE input
  /\ output' = Untouched
  /\ UNCHANGED <<vm_connected_to_uart, escape_char_pressed, current, enabled, dlab, said, last>>

\* AUX_MU_IIR_REG, write: bit 1 clears the input, else the output goes.
ClearInput ==
  /\ current \in Guests /\ enabled[current]
  /\ input' = [input EXCEPT ![current] = <<>>]
  /\ output' = Untouched
  /\ UNCHANGED <<vm_connected_to_uart, escape_char_pressed, current, enabled, dlab, said, last>>

ClearOutput ==
  /\ current \in Guests /\ enabled[current]
  /\ output' = Entered([Exited(output, current) EXCEPT ![current].held = <<>>],
                       current, vm_connected_to_uart)
  /\ UNCHANGED <<vm_connected_to_uart, escape_char_pressed, current, input, enabled, dlab, said,
                 last>>

\* AUX_ENABLES and AUX_MU_LCR_REG, write.
WriteEnables ==
  /\ current \in Guests
  /\ \E on \in BOOLEAN : enabled' = [enabled EXCEPT ![current] = on]
  /\ output' = Untouched
  /\ UNCHANGED <<vm_connected_to_uart, escape_char_pressed, current, input, dlab, said, last>>

WriteLcr ==
  /\ current \in Guests /\ enabled[current]
  /\ \E bit \in BOOLEAN : dlab' = [dlab EXCEPT ![current] = bit]
  /\ output' = Untouched
  /\ UNCHANGED <<vm_connected_to_uart, escape_char_pressed, current, input, enabled, said, last>>

-----------------------------------------------------------------------------
(* The hypervisor's side *)

\* An exception after which w continues; see Sched for when that happens.
Switch(w) ==
  /\ current' = w
  /\ output' = Entered(Exited(output, current), w, vm_connected_to_uart)
  /\ UNCHANGED <<vm_connected_to_uart, escape_char_pressed, input, enabled, dlab, said, last>>

\* Mutant of UartToVm: only the escape sequence itself ends the escape.
UartToVmSticky(ch) ==
  /\ vm_connected_to_uart # Shell
  /\ last' = ch
  /\ escape_char_pressed' = (ch = "!" \/ (escape_char_pressed /\ ch # "1"))
  /\ vm_connected_to_uart' =
       IF escape_char_pressed /\ ch = "1" THEN Shell ELSE vm_connected_to_uart
  /\ input' = IF ch = "!" \/ escape_char_pressed THEN input
              ELSE [input EXCEPT ![vm_connected_to_uart] = Pushed(@, ch)]
  /\ output' = Entered(Exited(output, current), current, vm_connected_to_uart')
  /\ UNCHANGED <<current, enabled, dlab, said>>

\* uart_handler() with a VM connected.
UartToVm(ch) ==
  /\ vm_connected_to_uart # Shell
  /\ last' = ch
  /\ escape_char_pressed' = (ch = "!")
  /\ vm_connected_to_uart' =
       IF escape_char_pressed /\ ch = "1" THEN Shell ELSE vm_connected_to_uart
  /\ input' = IF ch = "!" \/ escape_char_pressed THEN input
              ELSE [input EXCEPT ![vm_connected_to_uart] = Pushed(@, ch)]
  /\ output' = Entered(Exited(output, current), current, vm_connected_to_uart')
  /\ UNCHANGED <<current, enabled, dlab, said>>

\* uart_handler() with the shell connected: any line but "enter" with the
\* number of a VM.
ShellLine ==
  /\ vm_connected_to_uart = Shell
  /\ last' = "shell"
  /\ output' = Untouched
  /\ UNCHANGED <<vm_connected_to_uart, escape_char_pressed, current, input, enabled, dlab, said>>

\* Mutant of ShellEnter: the buffer waits for the VM to be scheduled.
ShellEnterUnflushed(v) ==
  /\ vm_connected_to_uart = Shell
  /\ vm_connected_to_uart' = v
  /\ last' = "shell"
  /\ output' = Entered(Exited(output, current), current, v)
  /\ UNCHANGED <<escape_char_pressed, current, input, enabled, dlab, said>>

\* The shell's enter() with a valid number.
ShellEnter(v) ==
  /\ vm_connected_to_uart = Shell
  /\ vm_connected_to_uart' = v
  /\ last' = "shell"
  /\ output' = Entered(Flushed(Exited(output, current), v), current, v)
  /\ UNCHANGED <<escape_char_pressed, current, input, enabled, dlab, said>>

Next ==
  \/ WriteIo \/ ReadIo \/ ClearInput \/ ClearOutput \/ WriteEnables \/ WriteLcr
  \/ \E w \in VMs : Switch(w)
  \/ \E ch \in Typed : UartToVm(ch)
  \/ ShellLine
  \/ \E v \in VMs : ShellEnter(v)

Spec == Init /\ [][Next]_vars

-----------------------------------------------------------------------------
(* Properties *)

\* Nothing the connected VM wrote waits in its buffer while any guest runs,
\* whether it was written before it was connected, by the VM before it was
\* preempted, or just now (shell.c:119, vcpu.c:355, vcpu.c:367).
Drained == output[vm_connected_to_uart].held = <<>>

\* So the connected VM cannot lose output: every character is on the line
\* before the VM executes its next instruction, however small the buffer.
Immediate ==
  [][(WriteIo /\ current = vm_connected_to_uart /\ enabled[current] /\ ~dlab[current])
     => output'[current].sent = Append(output[current].sent, said'[current])]_vars

\* What a VM put on the line, with what still waits behind it, is in the order
\* in which it was written and has nothing twice, through any number of
\* connections, preemptions and overflows of the buffer.
Line(v) == output[v].sent \o output[v].held

InOrder ==
  \A v \in VMs : \A i, j \in 1 .. Len(Line(v)) : i < j => Line(v)[i] < Line(v)[j]

\* "Press !1 to exit.": the hypervisor waits for the second character of the
\* escape exactly when "!" was the last thing typed for a VM, so that the
\* next VM that is entered is not robbed of its first character
\* (uart.c:100-115; the flag is static and outlives a connection).
EscapeIsLast == escape_char_pressed <=> last = "!"
=============================================================================
