------------------------------- MODULE MCVcpu -------------------------------
(* Instances of Vcpu: a guest that works with the interrupt controller and  *)
(* one that uses the mini-UART, each beside a guest that only waits, and    *)
(* two that exchange values with system registers and use high registers.   *)
EXTENDS Vcpu, TLC

CONSTANTS g1, g2

MCGuests == {g1, g2}
MCSlots  == {0, 7, 15, 16}

Nothing == [imm |-> {}, load |-> {}, store |-> {}, mrs |-> {}, msr |-> {}, timers |-> {}, does |-> {}]
Waits   == [Nothing EXCEPT !.does = {"wfx"}]

\* FIQ 1 and FIQ 57.
Fiq(n) == IF n = 1 THEN {7, 0} ELSE {7, 5, 4, 3, 0}

Interrupts ==
  [Nothing EXCEPT
    !.imm   = {0} \X {{1}, {0}, {25}, Fiq(1)},
    !.load  = {"BASIC_PENDING"} \X {0},
    !.store = {<<"ENABLE_1", 0, {1}>>, <<"DISABLE_1", 0, {1}>>, <<"ENABLE_2", 0, {0}>>,
               <<"ENABLE_2", 0, {25}>>, <<"DISABLE_2", 0, {0}>>, <<"CS", 0, {1}>>,
               <<"FIQ_CONTROL", 0, Fiq(1)>>, <<"ENABLES", 0, {0}>>, <<"IER", 0, {0}>>},
    !.timers = {1}, !.does = {"wfx"}]

Uart ==
  [Nothing EXCEPT
    !.imm   = {0} \X {{0}, {1}, {7}},
    !.load  = {"IO", "IER"} \X {0},
    !.store = {<<"ENABLES", 0, {0}>>, <<"LCR", 0, {7}>>, <<"IER", 0, {1}>>, <<"IO", 0, {0}>>,
               <<"IIR", 0, {1}>>, <<"IIR", 0, {0}>>, <<"ENABLE_2", 0, {0}>>},
    !.does  = {}]

Registers ==
  [Nothing EXCEPT
    !.imm = {0, 15} \X {{1}},
    !.load = {<<"DISABLE_BASIC", 0>>, <<"AUX_IRQ", 15>>, <<"GPIO", 16>>, <<"AUX_IRQ", 31>>},
    !.mrs = {<<"ACTLR", 0>>, <<"ID", 16>>, <<"ID_DFR0", 0>>},
    !.msr = {<<"ACTLR", 15>>, <<"ACTLR", 31>>},
    !.does = {"wfx"}]

Calls ==
  [Nothing EXCEPT !.msr = {<<"CSSELR", 0>>}, !.does = {"wfx", "hvc"}]

Boots == [Nothing EXCEPT !.does = {"wfx", "el1"}]

MCPrograms ==
  {(g1 :> Interrupts @@ g2 :> Waits), (g1 :> Uart @@ g2 :> Waits), (g1 :> Registers @@ g2 :> Calls),
   (g1 :> Boots @@ g2 :> Boots)}
=============================================================================
