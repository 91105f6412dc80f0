----------------------------- MODULE VcpuProofs -----------------------------
(***************************************************************************)
(* The virtual processor, for any guests and whatever they do.  Every step *)
(* of the hypervisor leaves the devices of all VMs but the one that        *)
(* accesses a device as they were, or with more to report (Later); that    *)
(* interrupts stay pending and that each guest has a machine of its own    *)
(* follow from this.                                                       *)
(***************************************************************************)
EXTENDS Vcpu, TLAPS

Bits   == SUBSET (0 .. 31)
Device == [irqs1 : Bits, irqs2 : Bits, basic : Bits, fiq : Bits, cs : Bits,
           c : [Compares -> Bits], aux : [AuxKept -> Bits], rx : 0 .. Room, tx : 0 .. Room]

TypeInv ==
  /\ program \in [Guests -> Repertoire]
  /\ current \in Guests \union {Shell} /\ started \in SUBSET Guests
  /\ pc \in [Guests -> {0, 1}] /\ x \in [Guests -> [Slots -> SUBSET AllOnes]]
  /\ dev \in [Guests -> Device]
  /\ bank \in [Guests -> [Listed -> SUBSET AllOnes]]
  /\ wrote \in SUBSET Guests

-----------------------------------------------------------------------------
(* The devices *)

\* A buffer that takes one more character is at most full.
LEMMA MinType ==
  ASSUME NEW n \in 0 .. Room PROVE Min({Room, n + 1}) \in 0 .. Room
<1>1. Room \in Nat /\ n + 1 \in Nat
  BY VcpuAssumption
<1>2. \E m \in {Room, n + 1} : \A k \in {Room, n + 1} : m <= k
  <2>1. CASE Room <= n + 1
    BY <1>1, <2>1
  <2>2. CASE n + 1 <= Room
    BY <1>1, <2>2
  <2> QED BY <1>1, <2>1, <2>2
<1>3. Min({Room, n + 1}) \in {Room, n + 1} /\ Min({Room, n + 1}) <= Room
  BY <1>2 DEF Min
<1> QED BY <1>1, <1>3

\* A register holds what fits into it, whatever is written.
LEMMA WriteFits ==
  ASSUME NEW d \in Device, NEW r \in Mmio, NEW val
  PROVE  write_mmio(d, r, val) \in Device
<1> DEFINE w == Word(val)
<1>1. w \in Bits
  BY DEF Word, Below, Bits
<1> HIDE DEF w
<1>2. ASSUME r \in Intctl PROVE write_intctl(d, r, w) \in Device
  BY ZenonT(40), <1>1, <1>2 DEF write_intctl, Intctl, Device, Bits, Disabled
<1>3. ASSUME r \in Systimer PROVE write_systimer(d, r, w) \in Device
  BY <1>1, <1>3 DEF write_systimer, Systimer, Compares, Device, Bits
<1>4. ASSUME r \in AuxMu PROVE write_aux_mu(d, r, w) \in Device
  <2>1. Min({Room, d.tx + 1}) \in 0 .. Room /\ 0 \in 0 .. Room
    BY MinType, VcpuAssumption DEF Device
  <2>2. \A A \in SUBSET (0 .. 31) : A \ {7} \in Bits /\ A \ (0 .. 7) \in Bits
    BY DEF Bits
  <2>3. \A A : Below(8, A) \in Bits /\ Below(16, A) \in Bits
    BY DEF Below, Bits
  <2>4. d.aux \in [AuxKept -> Bits] /\ {"LCR", "BAUD", "IER"} \subseteq AuxKept
    BY DEF Device, AuxKept
  <2>5. CASE ~ MuOn(d) \/ r \in {"LSR", "MSR", "STAT"}
    BY <2>5 DEF write_aux_mu
  <2>6. CASE MuOn(d) /\ r = "IO"
    <3>1. [d EXCEPT !.tx = Min({Room, @ + 1})] \in Device
      BY <2>1 DEF Device
    <3>2. [d EXCEPT !.aux["LCR"] = @ \ {7}, !.aux["BAUD"] = Below(8, @ \union w)] \in Device
      BY <2>2, <2>3, <2>4 DEF Device, Bits
    <3> QED BY <2>6, <3>1, <3>2 DEF write_aux_mu
  <2>7. CASE MuOn(d) /\ r = "IER" /\ Dlab(d)
    <3>1. \A A : Below(16, A) \union Below(8, w) \in Bits
      BY <2>3 DEF Bits
    <3>2. [d EXCEPT !.aux["BAUD"] = Below(16, @ \ (0 .. 7)) \union Below(8, w)] \in Device
      BY <2>4, <3>1 DEF Device
    <3> QED BY <2>7, <3>2 DEF write_aux_mu
  <2>8. CASE MuOn(d) /\ r = "IIR"
    BY <2>1, <2>8 DEF write_aux_mu, Device
  <2>9. CASE MuOn(d) /\ r \in AuxKept /\ ~ (r = "IER" /\ Dlab(d))
    <3>1. [d EXCEPT !.aux[r] = w] \in Device
      BY <1>1, <2>4, <2>9 DEF Device
    <3>2. r \notin {"IO", "IIR", "LSR", "MSR", "STAT"}
      BY <2>9 DEF AuxKept
    <3> QED BY <2>9, <3>1, <3>2 DEF write_aux_mu
  <2> QED BY <1>4, <2>5, <2>6, <2>7, <2>8, <2>9 DEF AuxMu
<1>5. ASSUME r \in Aux PROVE write_aux(d, r, w) \in Device
  BY <1>1, <1>4, <1>5 DEF write_aux, Aux, AuxKept, Device
<1> QED BY <1>2, <1>3, <1>5 DEF write_mmio, Mmio, w

\* A read of a device gives a 32-bit word and leaves a device.
LEMMA ReadFits ==
  ASSUME NEW d \in Device, NEW r \in Mmio
  PROVE  read_mmio(d, r) \in SUBSET AllOnes /\ AfterRead(d, r) \in Device
<1>1. AfterRead(d, r) \in Device
  BY VcpuAssumption DEF AfterRead, Device
<1>2. ASSUME r \in AuxMu PROVE read_aux_mu(d, r) \in SUBSET AllOnes
  <2>1. IIR(d) \in SUBSET AllOnes /\ LSR(d) \in SUBSET AllOnes
    BY DEF IIR, LSR, If, AllOnes
  <2>2. STAT(d) \in SUBSET AllOnes
    BY DEF STAT, If, AllOnes
  <2>3. \A q \in AuxKept : d.aux[q] \in Bits
    BY DEF Device
  <2> QED BY <1>2, <2>1, <2>2, <2>3 DEF read_aux_mu, AuxMu, AuxKept, AllOnes, Bits, Below, Char
<1>3. ASSUME r \in Aux PROVE read_aux(d, r) \in SUBSET AllOnes
  BY <1>2, <1>3 DEF read_aux, Aux, AllOnes, Device, Bits, If, AuxKept
<1>4. ASSUME r \in Intctl PROVE read_intctl(d, r) \in SUBSET AllOnes
  BY <1>4 DEF read_intctl, Intctl, BASIC_PENDING, PENDING_1, PENDING_2, If, AllOnes, Device, Bits
<1>5. ASSUME r \in Systimer PROVE read_systimer(d, r) \in SUBSET AllOnes
  BY <1>5 DEF read_systimer, Systimer, Compares, AllOnes, Device, Bits
<1> QED BY <1>1, <1>3, <1>4, <1>5 DEF read_mmio, Mmio

\* Device e is d later on, when its guest has not accessed it: timers may have
\* matched, characters may have come, and its output may have been sent.
Later(d, e) ==
  /\ e.irqs1 = d.irqs1 /\ e.irqs2 = d.irqs2 /\ e.fiq = d.fiq /\ e.aux = d.aux
  /\ d.cs \subseteq e.cs /\ d.rx <= e.rx /\ e.tx \in {d.tx, 0}

\* A device after a timer came up or its output was flushed.
LEMMA Sent ==
  ASSUME NEW d \in Device, NEW m \in Bits, NEW n \in {d.tx, 0},
         NEW e, e = [d EXCEPT !.cs = @ \union m, !.tx = n]
  PROVE  e \in Device /\ Later(d, e)
<1>1. d.cs \union m \in Bits /\ n \in 0 .. Room /\ d.rx \in 0 .. Room /\ Room \in Nat
  BY VcpuAssumption DEF Device, Bits
<1>2. e \in Device
  BY <1>1 DEF Device
<1>3. /\ e.irqs1 = d.irqs1 /\ e.irqs2 = d.irqs2 /\ e.fiq = d.fiq /\ e.aux = d.aux
      /\ e.cs = d.cs \union m /\ e.rx = d.rx /\ e.tx = n
  BY DEF Device
<1> QED BY <1>1, <1>2, <1>3 DEF Later

\* Two absences in a row are one.
LEMMA LaterLater ==
  ASSUME NEW d \in Device, NEW e \in Device, NEW f \in Device, Later(d, e), Later(e, f)
  PROVE  Later(d, f)
BY VcpuAssumption DEF Later, Device

\* What is pending stays so.
LEMMA LaterPending ==
  ASSUME NEW d \in Device, NEW e \in Device, Later(d, e)
  PROVE  Pending(d) \subseteq Pending(e)
<1>1. PENDING_1(d) \subseteq PENDING_1(e)
  BY DEF PENDING_1, Later
<1>2. AuxIrq(d) => AuxIrq(e)
  <2>1. /\ d.rx \in Int /\ e.rx \in Int /\ d.tx \in Int /\ e.tx \in Int
        /\ d.rx <= e.rx /\ e.tx \in {d.tx, 0} /\ e.aux = d.aux
    BY VcpuAssumption DEF Later, Device
  <2>2. /\ 0 \in IIR(d) <=> ~ (d.tx = 0 /\ 1 \in d.aux["IER"]) /\ ~ (d.rx > 0 /\ 0 \in d.aux["IER"])
        /\ 0 \in IIR(e) <=> ~ (e.tx = 0 /\ 1 \in e.aux["IER"]) /\ ~ (e.rx > 0 /\ 0 \in e.aux["IER"])
    BY DEF IIR, If
  <2>3. /\ AuxIrq(d) <=> ~ MuOn(d) \/ 0 \notin IIR(d)
        /\ AuxIrq(e) <=> ~ MuOn(e) \/ 0 \notin IIR(e)
    BY DEF AuxIrq, read_aux_mu
  <2> QED BY <2>1, <2>2, <2>3 DEF MuOn
<1>3. PENDING_2(d) \subseteq PENDING_2(e)
  BY <1>2 DEF PENDING_2, If, Later
<1> QED BY <1>1, <1>3 DEF Pending

-----------------------------------------------------------------------------
(* Leaving and entering the hypervisor *)

Devices == [Guests -> Device]

\* vcpu_exit() sends, and does nothing else.
LEMMA LeftStep ==
  ASSUME TypeInv, NEW connected \in BOOLEAN
  PROVE  Left(connected) \in Devices /\ \A g \in Guests : Later(dev[g], Left(connected)[g])
<1>1. ASSUME NEW g \in Guests
      PROVE  Left(connected)[g] \in Device /\ Later(dev[g], Left(connected)[g])
  <2>1. dev[g] \in Device /\ {} \in Bits
    BY DEF TypeInv, Bits
  <2>2. \A n : [dev[g] EXCEPT !.cs = @ \union {}, !.tx = n] = [dev[g] EXCEPT !.tx = n]
    BY <2>1 DEF Device
  <2>3. [dev[g] EXCEPT !.tx = dev[g].tx] = dev[g]
    BY <2>1 DEF Device
  <2>4. /\ dev[g] \in Device /\ Later(dev[g], dev[g])
        /\ [dev[g] EXCEPT !.tx = 0] \in Device /\ Later(dev[g], [dev[g] EXCEPT !.tx = 0])
    BY <2>1, <2>2, <2>3, Sent
  <2> QED BY <2>4 DEF Left
<1>2. Left(connected) = [g \in Guests |-> Left(connected)[g]]
  BY DEF Left
<1> QED BY <1>1, <1>2 DEF Devices

\* What a change of VM does to the processor: w starts, or nothing.
Enters(w) ==
  \/ /\ w \in Guests \ started
     /\ started' = started \union {w} /\ el1' = "boot"
     /\ vi' = check_irq_pending(dev[w]) /\ vf' = check_fiq_pending(dev[w])
  \/ /\ w \in Guests => w \in started
     /\ UNCHANGED <<started, el1, vi, vf>>

\* Entering a guest marks timers, sends, and starts the guest if it is new.
LEMMA ReturnStep ==
  ASSUME TypeInv, NEW devices \in Devices, NEW w \in Guests \union {Shell},
         NEW connected \in BOOLEAN, Return(devices, w, connected)
  PROVE  /\ dev' \in Devices /\ \A g \in Guests : Later(devices[g], dev'[g])
         /\ current' = w /\ program' = program /\ wrote' = wrote
         /\ Enters(w)
<1>1. current' = w /\ program' = program /\ wrote' = wrote /\ Enters(w)
  BY DEF Return, Prepares, prepare_vm, put_sysregs, vm_assert_virtual_interrupt, Lines, Enters
<1>2. PICK matched \in SUBSET (IF w \in Guests THEN program[w].timers ELSE {}) :
        dev' = [g \in Guests |->
                 IF g # w THEN devices[g]
                 ELSE [devices[g] EXCEPT !.cs = @ \union matched, !.tx = IF connected THEN 0 ELSE @]]
  BY DEF Return
<1>3. w \in Guests => matched \subseteq 0 .. 3
  BY <1>2 DEF TypeInv, Repertoire
<1>4. \A g \in Guests : devices[g] \in Device /\ Later(devices[g], devices[g])
  BY VcpuAssumption DEF Devices, Device, Later
<1>5. ASSUME w \in Guests
      PROVE  LET e == [devices[w] EXCEPT !.cs = @ \union matched, !.tx = IF connected THEN 0 ELSE @]
             IN  e \in Device /\ Later(devices[w], e)
  <2>1. devices[w] \in Device /\ matched \in Bits
    BY <1>3, <1>4, <1>5 DEF Bits
  <2>2. (IF connected THEN 0 ELSE devices[w].tx) \in {devices[w].tx, 0}
    OBVIOUS
  <2> QED BY <2>1, <2>2, Sent
<1> QED BY <1>1, <1>2, <1>4, <1>5 DEF Devices

\* An exception that does not access a device.
Quiet ==
  /\ dev' \in Devices /\ \A g \in Guests : Later(dev[g], dev'[g])
  /\ program' = program /\ wrote' = wrote
  /\ current' \in Guests \union {Shell} /\ Enters(current')

\* An exit and an entry, with no access between them.
LEMMA QuietStep ==
  ASSUME TypeInv, NEW w \in Guests \union {Shell}, NEW connected \in BOOLEAN,
         Return(Left(connected), w, connected)
  PROVE  Quiet /\ current' = w
<1>1. Left(connected) \in Devices /\ \A g \in Guests : Later(dev[g], Left(connected)[g])
  BY LeftStep
<1>2. /\ dev' \in Devices /\ \A g \in Guests : Later(Left(connected)[g], dev'[g])
      /\ current' = w /\ program' = program /\ wrote' = wrote /\ Enters(w)
  BY <1>1, ReturnStep
<1>3. \A g \in Guests : dev[g] \in Device /\ Left(connected)[g] \in Device /\ dev'[g] \in Device
  BY <1>1, <1>2 DEF TypeInv, Devices
<1>4. \A g \in Guests : Later(dev[g], dev'[g])
  BY <1>1, <1>2, <1>3, LaterLater
<1> QED BY <1>2, <1>4 DEF Quiet

\* The registers and the program counter of the guest on the CPU only.
OwnRegisters ==
  /\ pc' \in [Guests -> {0, 1}] /\ x' \in [Guests -> [Slots -> SUBSET AllOnes]]
  /\ bank' \in [Guests -> [Listed -> SUBSET AllOnes]]
  /\ \A g \in Guests \ {current} : x'[g] = x[g] /\ pc'[g] = pc[g] /\ bank'[g] = bank[g]

\* Nobody's registers change.
LEMMA SameRegisters == ASSUME TypeInv, UNCHANGED <<pc, x, bank>> PROVE OwnRegisters
BY DEF TypeInv, OwnRegisters

\* The guest goes on to its other half.
LEMMA GoesType ==
  ASSUME TypeInv, NEW g \in Guests, Goes(g)
  PROVE  /\ pc' \in [Guests -> {0, 1}] /\ pc' = [pc EXCEPT ![g] = 1 - @]
         /\ \A h \in Guests \ {g} : pc'[h] = pc[h]
<1>1. pc \in [Guests -> {0, 1}] /\ pc' = [pc EXCEPT ![g] = 1 - @]
  BY DEF Goes, TypeInv
<1>2. 1 - pc[g] \in {0, 1}
  <2>1. pc[g] = 0 \/ pc[g] = 1
    BY <1>1
  <2> QED BY <2>1
<1> QED BY <1>1, <1>2

\* A register of one guest is written.
LEMMA WriteRegister ==
  ASSUME TypeInv, NEW g \in Guests, NEW s, NEW v \in SUBSET AllOnes,
         x' = [x EXCEPT ![g][s] = v]
  PROVE  /\ x' \in [Guests -> [Slots -> SUBSET AllOnes]]
         /\ \A h \in Guests \ {g} : x'[h] = x[h]
         /\ \A t \in Slots \ {s} : x'[g][t] = x[g][t]
BY DEF TypeInv

\* An access to a device: that of the guest on the CPU becomes d, and later on
\* what it is when the guest is entered again.
LEMMA AccessStep ==
  ASSUME TypeInv, current \in Guests, NEW connected \in BOOLEAN, NEW d \in Device,
         Return([Left(connected) EXCEPT ![current] = d], current, connected)
  PROVE  /\ dev' \in Devices /\ Later(d, dev'[current])
         /\ \A g \in Guests \ {current} : Later(dev[g], dev'[g])
         /\ current' = current /\ program' = program /\ wrote' = wrote /\ Enters(current)
<1> DEFINE left == Left(connected)
           devices == [left EXCEPT ![current] = d]
<1>1. left \in Devices /\ \A g \in Guests : Later(dev[g], left[g])
  BY LeftStep
<1> HIDE DEF left
<1>2. devices \in Devices /\ devices[current] = d
      /\ \A g \in Guests \ {current} : devices[g] = left[g]
  BY <1>1 DEF Devices
<1>3. Return(devices, current, connected)
  BY DEF left
<1> HIDE DEF devices
<1>4. /\ dev' \in Devices /\ \A g \in Guests : Later(devices[g], dev'[g])
      /\ current' = current /\ program' = program /\ wrote' = wrote /\ Enters(current)
  BY <1>2, <1>3, ReturnStep
<1>5. \A g \in Guests \ {current} : Later(dev[g], dev'[g])
  <2>1. \A g \in Guests : dev[g] \in Device /\ left[g] \in Device /\ dev'[g] \in Device
    BY <1>1, <1>4 DEF TypeInv, Devices
  <2> QED BY <1>1, <1>2, <1>4, <2>1, LaterLater
<1> QED BY <1>2, <1>4, <1>5

\* An exception that accesses a device of the guest on the CPU.
Access ==
  /\ current \in Guests /\ current' = current /\ did'.op \in {"load", "store"}
  /\ dev' \in Devices /\ \A g \in Guests \ {current} : Later(dev[g], dev'[g])
  /\ program' = program /\ wrote' = wrote /\ Enters(current)

\* handle_sync_data_abort(), a load.
LEMMA LoadStep ==
  ASSUME TypeInv, NEW g \in Guests, NEW i \in program[g].load, Load(i[1], i[2])
  PROVE  Access /\ OwnRegisters /\ M!Load
<1> DEFINE r == i[1]
           n == i[2]
<1>1. r \in Mmio /\ n \in 0 .. 31 /\ current \in Guests
  BY DEF TypeInv, Repertoire, Load, Running
<1>2. PICK connected \in BOOLEAN :
        /\ x' = [x EXCEPT ![current][Slot(n)] = read_mmio(Left(connected)[current], r)]
        /\ Return([Left(connected) EXCEPT ![current] = AfterRead(Left(connected)[current], r)],
                  current, connected)
  BY DEF Load
<1>3. Goes(current) /\ did' = [op |-> "load", n |-> n] /\ bank' = bank
  BY DEF Load, Does
<1> DEFINE d == Left(connected)[current]
           e == AfterRead(d, r)
<1>4. d \in Device /\ Later(dev[current], d)
  BY <1>1, LeftStep DEF Devices
<1> HIDE DEF d, r, n
<1>5. e \in Device /\ read_mmio(d, r) \in SUBSET AllOnes
  BY <1>1, <1>4, ReadFits
<1> HIDE DEF e
<1>7. /\ dev' \in Devices /\ Later(e, dev'[current])
      /\ \A h \in Guests \ {current} : Later(dev[h], dev'[h])
      /\ current' = current /\ program' = program /\ wrote' = wrote /\ Enters(current)
  <2>1. Return([Left(connected) EXCEPT ![current] = e], current, connected)
    BY <1>2 DEF e, d
  <2> QED BY <1>1, <1>5, <2>1, AccessStep
<1>9. Access
  BY <1>1, <1>3, <1>7 DEF Access, TypeInv
<1>10. /\ x' \in [Guests -> [Slots -> SUBSET AllOnes]]
       /\ \A h \in Guests \ {current} : x'[h] = x[h]
       /\ \A t \in Slots \ {Slot(n)} : x'[current][t] = x[current][t]
  <2>1. x' = [x EXCEPT ![current][Slot(n)] = read_mmio(d, r)]
    BY <1>2 DEF d, r, n
  <2> QED BY <1>1, <1>5, <2>1, WriteRegister
<1>11. /\ pc' \in [Guests -> {0, 1}] /\ pc' = [pc EXCEPT ![current] = 1 - @]
       /\ \A h \in Guests \ {current} : pc'[h] = pc[h]
  BY <1>1, <1>3, GoesType
<1>12. OwnRegisters
  BY <1>3, <1>10, <1>11 DEF OwnRegisters, TypeInv
<1>13. n \in Low => Slot(n) = n
  BY DEF Low, Slot
<1>14. M!Load
  BY <1>1, <1>3, <1>7, <1>10, <1>11, <1>13 DEF M!Load, M!Others, M!Goes, n
<1> QED BY <1>9, <1>12, <1>14

\* handle_sync_data_abort(), a store.
LEMMA StoreStep ==
  ASSUME TypeInv, NEW g \in Guests, NEW i \in program[g].store, Store(i[1], i[2], i[3])
  PROVE  Access /\ OwnRegisters /\ M!Store
<1> DEFINE r == i[1]
           n == i[2]
           val == i[3]
<1>1. r \in Mmio /\ current \in Guests
  BY DEF TypeInv, Repertoire, Store, Running
<1>2. PICK connected \in BOOLEAN :
        Return([Left(connected) EXCEPT ![current] = write_mmio(@, r, val)], current, connected)
  BY DEF Store
<1>3. Goes(current) /\ did' = [op |-> "store", n |-> n] /\ bank' = bank /\ x' = x
  BY DEF Store, Does
<1> HIDE DEF r, val
<1> DEFINE d == Left(connected)[current]
           e == write_mmio(d, r, val)
<1>4. d \in Device /\ Later(dev[current], d) /\ Left(connected) \in Devices
  BY <1>1, LeftStep DEF Devices
<1>5. Return([Left(connected) EXCEPT ![current] = e], current, connected)
  BY <1>1, <1>2, <1>4 DEF Devices
<1> HIDE DEF d
<1>6. e \in Device
  BY <1>1, <1>4, WriteFits
<1>7. /\ dev' \in Devices /\ Later(e, dev'[current])
      /\ \A h \in Guests \ {current} : Later(dev[h], dev'[h])
      /\ current' = current /\ program' = program /\ wrote' = wrote /\ Enters(current)
  <2> HIDE DEF e
  <2> QED BY <1>1, <1>5, <1>6, AccessStep
<1>11. Access
  BY <1>1, <1>3, <1>7 DEF Access
<1>12. /\ pc' \in [Guests -> {0, 1}] /\ pc' = [pc EXCEPT ![current] = 1 - @]
       /\ \A h \in Guests \ {current} : pc'[h] = pc[h]
  BY <1>1, <1>3, GoesType
<1>13. OwnRegisters
  BY <1>3, <1>12 DEF OwnRegisters, TypeInv
<1>14. M!Store
  BY <1>1, <1>3, <1>7, <1>12 DEF M!Store, M!Goes
<1> QED BY <1>11, <1>13, <1>14

\* An access to a system register that traps.
LEMMA SysregStep ==
  ASSUME TypeInv, Sysreg
  PROVE  /\ Quiet /\ OwnRegisters /\ current \in Guests /\ current' = current
         /\ M!Load \/ M!Store \/ M!Interrupt
<1>1. current \in Guests
  BY DEF Sysreg, Running
<1>2. PICK connected \in BOOLEAN : Return(Left(connected), current, connected)
  BY DEF Sysreg
<1>3. Quiet /\ current' = current
  BY <1>1, <1>2, QuietStep
<1>4. /\ \A i \in program[current].mrs : i[2] \in 0 .. 31
      /\ \A i \in program[current].msr : i[2] \in Slots \union {31}
  BY <1>1 DEF TypeInv, Repertoire
<1>5. ASSUME NEW i \in program[current].mrs, handle_sync_sysreg_read(i[1], i[2])
      PROVE  OwnRegisters /\ M!Load
  <2>1. /\ Goes(current) /\ did' = [op |-> "load", n |-> i[2]] /\ bank' = bank
        /\ x' = IF i[2] \in Slots THEN [x EXCEPT ![current][i[2]] = bank[current][i[1]]] ELSE x
        /\ i[1] \in Listed
    BY <1>5 DEF handle_sync_sysreg_read, Does
  <2>2. bank[current][i[1]] \in SUBSET AllOnes
    BY <1>1, <2>1 DEF TypeInv
  <2>3. /\ x' \in [Guests -> [Slots -> SUBSET AllOnes]]
        /\ \A h \in Guests \ {current} : x'[h] = x[h]
        /\ \A t \in Slots \ {i[2]} : x'[current][t] = x[current][t]
    <3>1. CASE i[2] \in Slots
      BY <1>1, <2>1, <2>2, <3>1, WriteRegister
    <3>2. CASE i[2] \notin Slots
      BY <2>1, <3>2 DEF TypeInv
    <3> QED BY <3>1, <3>2
  <2>4. /\ pc' \in [Guests -> {0, 1}] /\ pc' = [pc EXCEPT ![current] = 1 - @]
        /\ \A h \in Guests \ {current} : pc'[h] = pc[h]
    BY <1>1, <2>1, GoesType
  <2>5. OwnRegisters
    BY <2>1, <2>3, <2>4 DEF OwnRegisters, TypeInv
  <2>6. M!Load
    BY <1>1, <1>3, <2>1, <2>3, <2>4 DEF M!Load, M!Others, M!Goes
  <2> QED BY <2>5, <2>6
<1>6. ASSUME NEW i \in program[current].msr, handle_sync_sysreg_write(i[1], i[2])
      PROVE  OwnRegisters /\ M!Store
  <2>1. /\ Goes(current) /\ did' = [op |-> "store", n |-> i[2]] /\ x' = x
        /\ bank' = [bank EXCEPT ![current][i[1]] = IF i[2] = 31 THEN sp_slot ELSE x[current][i[2]]]
    BY <1>6 DEF handle_sync_sysreg_write, Does
  <2>2. (IF i[2] = 31 THEN sp_slot ELSE x[current][i[2]]) \in SUBSET AllOnes
    <3>1. i[2] # 31 => i[2] \in Slots
      BY <1>4, <1>6
    <3>2. sp_slot \in SUBSET AllOnes
      BY DEF sp_slot, AllOnes
    <3> QED BY <1>1, <3>1, <3>2 DEF TypeInv
  <2>3. /\ bank' \in [Guests -> [Listed -> SUBSET AllOnes]]
        /\ \A h \in Guests \ {current} : bank'[h] = bank[h]
    BY <1>1, <2>1, <2>2 DEF TypeInv
  <2>4. /\ pc' \in [Guests -> {0, 1}] /\ pc' = [pc EXCEPT ![current] = 1 - @]
        /\ \A h \in Guests \ {current} : pc'[h] = pc[h]
    BY <1>1, <2>1, GoesType
  <2>5. OwnRegisters
    BY <2>1, <2>3, <2>4 DEF OwnRegisters, TypeInv
  <2>6. M!Store
    BY <1>1, <1>3, <2>1, <2>4 DEF M!Store, M!Goes
  <2> QED BY <2>5, <2>6
<1>7. ASSUME NEW i, Unknown(i) PROVE OwnRegisters /\ M!Interrupt
  BY <1>7, SameRegisters DEF Unknown, Does, M!Interrupt
<1> QED BY <1>1, <1>3, <1>5, <1>6, <1>7 DEF Sysreg

\* An HVC, answered in x0.
LEMMA HvcStep ==
  ASSUME TypeInv, Hvc
  PROVE  Quiet /\ OwnRegisters /\ current \in Guests /\ current' = current /\ M!Load
<1>1. current \in Guests /\ bank' = bank /\ did' = [op |-> "load", n |-> 0]
  BY DEF Hvc, May, Running, Does
<1>2. PICK connected \in BOOLEAN : Return(Left(connected), current, connected)
  BY DEF Hvc
<1>3. Quiet /\ current' = current
  BY <1>1, <1>2, QuietStep
<1>4. /\ x' \in [Guests -> [Slots -> SUBSET AllOnes]]
      /\ \A h \in Guests \ {current} : x'[h] = x[h]
      /\ \A t \in Slots \ {0} : x'[current][t] = x[current][t]
  <2>1. PICK v \in {{}, AllOnes} : x' = [x EXCEPT ![current][0] = v]
    BY DEF Hvc
  <2>2. v \in SUBSET AllOnes
    OBVIOUS
  <2> QED BY <1>1, <2>1, <2>2, WriteRegister
<1>5. /\ pc' \in [Guests -> {0, 1}] /\ pc' = [pc EXCEPT ![current] = 1 - @]
      /\ \A h \in Guests \ {current} : pc'[h] = pc[h]
  BY <1>1, GoesType DEF Hvc
<1>6. OwnRegisters
  BY <1>1, <1>4, <1>5 DEF OwnRegisters, TypeInv
<1>7. M!Load
  BY <1>1, <1>3, <1>4, <1>5 DEF M!Load, M!Others, M!Goes
<1> QED BY <1>1, <1>3, <1>6, <1>7

\* WFI or WFE: acknowledged for the guest that waits, whoever runs next.
LEMMA WfxStep == ASSUME TypeInv, Wfx PROVE Quiet /\ OwnRegisters /\ M!Wait
<1>1. /\ current \in Guests /\ bank' = bank /\ x' = x
      /\ did' = [op |-> "wait", n |-> 0] /\ Goes(current)
  BY DEF Wfx, May, Running, Does, handle_sync_wfx
<1>2. PICK w \in Guests \union {Shell}, connected \in BOOLEAN : Return(Left(connected), w, connected)
  BY DEF Wfx
<1>3. Quiet
  BY <1>1, <1>2, QuietStep
<1>4. /\ pc' \in [Guests -> {0, 1}] /\ pc' = [pc EXCEPT ![current] = 1 - @]
      /\ \A h \in Guests \ {current} : pc'[h] = pc[h]
  BY <1>1, GoesType
<1>5. OwnRegisters
  BY <1>1, <1>4 DEF OwnRegisters, TypeInv
<1>6. M!Wait
  BY <1>1, <1>4 DEF M!Wait, M!Goes
<1> QED BY <1>3, <1>5, <1>6

\* handle_irq(), as Machines sees it.
LEMMA InterruptStep == ASSUME TypeInv, Interrupt PROVE Quiet /\ OwnRegisters /\ M!Interrupt
<1>1. /\ UNCHANGED <<pc, x, bank>> /\ did' = [op |-> "none", n |-> 0]
  BY DEF Interrupt, Does
<1>2. PICK w \in Guests \union {Shell}, connected \in BOOLEAN : Return(Left(connected), w, connected)
  BY DEF Interrupt
<1>3. Quiet
  BY <1>1, <1>2, QuietStep
<1> QED BY <1>1, <1>3, SameRegisters DEF M!Interrupt

\* A character for the connected VM, which need not be the one on the CPU.
LEMMA UartStep ==
  ASSUME TypeInv, NEW g \in Guests, uart_handler(g) PROVE Quiet /\ OwnRegisters /\ M!Interrupt
<1> DEFINE here == g = current
           left == Left(here)
           d == [left[g] EXCEPT !.rx = @ + 1]
           devices == [left EXCEPT ![g] = d]
<1>1. /\ UNCHANGED <<pc, x, bank>> /\ did' = [op |-> "none", n |-> 0]
      /\ dev[g].rx < Room
  BY DEF uart_handler, Does
<1>2. left \in Devices /\ \A h \in Guests : Later(dev[h], left[h])
  BY LeftStep
<1>3. left[g].rx = dev[g].rx
  BY DEF Left, TypeInv, Device
<1>4. Return(devices, current, here)
  BY <1>2 DEF uart_handler, Devices
<1> HIDE DEF left, here
<1>5. /\ left[g] \in Device /\ dev[g] \in Device /\ left[g].rx + 1 \in 0 .. Room
      /\ dev[g].rx \in Int
  BY <1>1, <1>2, <1>3, VcpuAssumption DEF Devices, Device, TypeInv
<1>6. d \in Device
  BY <1>5 DEF Device
<1>7. /\ d.irqs1 = left[g].irqs1 /\ d.irqs2 = left[g].irqs2 /\ d.fiq = left[g].fiq
      /\ d.aux = left[g].aux /\ d.cs = left[g].cs /\ d.tx = left[g].tx /\ d.rx = left[g].rx + 1
  BY <1>5 DEF Device
<1>8. Later(dev[g], d)
  BY <1>2, <1>3, <1>5, <1>7 DEF Later
<1>9. devices \in Devices /\ \A h \in Guests : Later(dev[h], devices[h])
  BY <1>2, <1>6, <1>8 DEF Devices
<1> HIDE DEF d, devices
<1>10. current \in Guests \union {Shell} /\ here \in BOOLEAN
  BY DEF TypeInv, here
<1>11. /\ dev' \in Devices /\ \A h \in Guests : Later(devices[h], dev'[h])
       /\ current' = current /\ program' = program /\ wrote' = wrote /\ Enters(current)
  BY <1>4, <1>9, <1>10, ReturnStep
<1>12. \A h \in Guests : Later(dev[h], dev'[h])
  <2>1. \A h \in Guests : dev[h] \in Device /\ devices[h] \in Device /\ dev'[h] \in Device
    BY <1>9, <1>11 DEF TypeInv, Devices
  <2> QED BY <1>9, <1>11, <2>1, LaterLater
<1>13. Quiet
  BY <1>1, <1>10, <1>11, <1>12 DEF Quiet
<1> QED BY <1>1, <1>13, SameRegisters DEF M!Interrupt

\* A step of the guest on the CPU that does not trap.
Untrapped ==
  /\ current \in Guests
  /\ UNCHANGED <<program, current, started, pc, dev, bank, vi, vf>>
  /\ x' \in [Guests -> [Slots -> SUBSET AllOnes]]
  /\ \/ el1' = el1 /\ wrote' = wrote
     \/ el1' = current /\ wrote' = wrote \union {current}

\* An instruction that does not trap.
LEMMA ComputeStep == ASSUME TypeInv, Compute PROVE Untrapped /\ M!Compute
<1>1. /\ current \in Guests
      /\ UNCHANGED <<program, current, started, pc, dev, bank, el1, vi, vf, wrote>>
      /\ did' = [op |-> "none", n |-> 0]
  BY DEF Compute, Running, Does
<1>2. PICK i \in program[current].imm : x' = [x EXCEPT ![current][i[1]] = i[2]]
  BY DEF Compute
<1>3. i[2] \in SUBSET AllOnes
  BY <1>1, <1>2 DEF TypeInv, Repertoire
<1>4. /\ x' \in [Guests -> [Slots -> SUBSET AllOnes]]
      /\ \A h \in Guests \ {current} : x'[h] = x[h]
  BY <1>1, <1>2, <1>3, WriteRegister
<1> QED BY <1>1, <1>4 DEF Untrapped, M!Compute, M!Others

\* A guest writes an EL1 register of its own.
LEMMA WriteEl1Step == ASSUME TypeInv, WriteEl1 PROVE Untrapped /\ M!Interrupt
BY DEF TypeInv, WriteEl1, May, Running, Does, Untrapped, M!Interrupt

-----------------------------------------------------------------------------
(* The inductive invariant *)

\* A guest that has not run has enabled nothing and written nothing.
NotRun(g) == dev[g].irqs1 = {} /\ dev[g].irqs2 = {} /\ dev[g].fiq = {}

IInv ==
  /\ TypeInv
  /\ \A g \in Guests \ started : NotRun(g)
  /\ current \in Guests => current \in started
  /\ wrote \subseteq started
  /\ started = {} => el1 = "boot"
  /\ AloneKeepsEl1
  /\ vi = FALSE /\ vf = FALSE

\* Before any guest runs, every device is as vcpu_initialise() leaves it.
THEOREM InitIInv == Init => IInv /\ M!MInit
<1> SUFFICES ASSUME Init PROVE IInv /\ M!MInit
  OBVIOUS
<1> USE DEF Init
<1>1. vcpu_initialise \in Device
  BY VcpuAssumption DEF vcpu_initialise, Device, Bits
<1>2. TypeInv
  <2>1. get_sysregs \in [Listed -> SUBSET AllOnes]
    BY DEF get_sysregs, AllOnes
  <2>2. program \in [Guests -> Repertoire]
    BY ProgramsAssumption
  <2> QED BY <1>1, <2>1, <2>2 DEF TypeInv
<1>3. \A g \in Guests : NotRun(g)
  BY DEF NotRun, vcpu_initialise
<1>4. AloneKeepsEl1
  BY DEF AloneKeepsEl1
<1>5. current \notin Guests
  BY VcpuAssumption
<1>6. M!MInit
  BY DEF M!MInit
<1> QED BY <1>2, <1>3, <1>4, <1>5, <1>6 DEF IInv

\* The lines stay down: prepare_vm() alone sets them, for a guest that has
\* enabled nothing yet.
LEMMA LinesStayDown ==
  ASSUME IInv, NEW w \in Guests \union {Shell}, Enters(w) PROVE vi' = FALSE /\ vf' = FALSE
<1>1. ASSUME w \in Guests \ started
      PROVE  check_irq_pending(dev[w]) = FALSE /\ check_fiq_pending(dev[w]) = FALSE
  <2>1. NotRun(w)
    BY <1>1 DEF IInv
  <2>2. PENDING_1(dev[w]) = {} /\ PENDING_2(dev[w]) = {}
    BY <2>1 DEF NotRun, PENDING_1, PENDING_2, If
  <2>3. check_irq_pending(dev[w]) = FALSE
    BY <2>2 DEF check_irq_pending, BASIC_PENDING, If
  <2>4. 7 \notin dev[w].fiq
    BY <2>1 DEF NotRun
  <2>5. check_fiq_pending(dev[w]) = FALSE
    BY <2>4 DEF check_fiq_pending
  <2> QED BY <2>3, <2>5
<1> QED BY <1>1 DEF Enters, IInv

\* What all changes of VM keep, when no EL1 register is written.
LEMMA EntersKeeps ==
  ASSUME IInv, NEW w \in Guests \union {Shell}, Enters(w), current' = w, wrote' = wrote
  PROVE  /\ started' \in SUBSET Guests /\ started \subseteq started'
         /\ current' \in Guests => current' \in started'
         /\ wrote' \subseteq started' /\ (started' = {} => el1' = "boot") /\ AloneKeepsEl1'
<1>1. /\ started \in SUBSET Guests /\ wrote \subseteq started /\ (started = {} => el1 = "boot")
      /\ AloneKeepsEl1
  BY DEF IInv, TypeInv
<1>2. CASE w \in Guests \ started /\ started' = started \union {w} /\ el1' = "boot"
  <2>1. \A g \in Guests : started' = {g} => g \notin wrote
    BY <1>1, <1>2
  <2>2. AloneKeepsEl1'
    BY <1>2, <2>1 DEF AloneKeepsEl1
  <2> QED BY <1>1, <1>2, <2>2
<1>3. CASE (w \in Guests => w \in started) /\ UNCHANGED <<started, el1>>
  BY <1>1, <1>3 DEF AloneKeepsEl1
<1> QED BY <1>2, <1>3 DEF Enters

\* The invariant, in an exception without an access.
LEMMA QuietKeeps == ASSUME IInv, Quiet, OwnRegisters PROVE IInv'
<1>1. /\ TypeInv /\ current' \in Guests \union {Shell} /\ Enters(current')
      /\ wrote' = wrote /\ program' = program /\ dev' \in Devices
      /\ \A g \in Guests : Later(dev[g], dev'[g])
  BY DEF IInv, Quiet
<1>2. /\ started' \in SUBSET Guests /\ started \subseteq started'
      /\ current' \in Guests => current' \in started'
      /\ wrote' \subseteq started' /\ (started' = {} => el1' = "boot") /\ AloneKeepsEl1'
  BY <1>1, EntersKeeps
<1>3. vi' = FALSE /\ vf' = FALSE
  BY <1>1, LinesStayDown
<1>4. TypeInv'
  BY <1>1, <1>2 DEF TypeInv, OwnRegisters, Devices
<1>6. \A g \in Guests \ started' : NotRun(g)'
  BY <1>1, <1>2 DEF IInv, NotRun, Later
<1> QED BY <1>2, <1>3, <1>4, <1>6 DEF IInv

\* The invariant, in an exception with one.
LEMMA AccessKeeps == ASSUME IInv, Access, OwnRegisters PROVE IInv'
<1>1. /\ TypeInv /\ current \in Guests /\ current' = current /\ Enters(current)
      /\ wrote' = wrote /\ program' = program /\ dev' \in Devices
      /\ \A g \in Guests \ {current} : Later(dev[g], dev'[g])
      /\ current \in started
  BY DEF IInv, Access
<1>2. /\ started' \in SUBSET Guests /\ started \subseteq started'
      /\ current' \in Guests => current' \in started'
      /\ wrote' \subseteq started' /\ (started' = {} => el1' = "boot") /\ AloneKeepsEl1'
  BY <1>1, EntersKeeps
<1>3. vi' = FALSE /\ vf' = FALSE
  BY <1>1, LinesStayDown
<1>4. TypeInv'
  BY <1>1, <1>2 DEF TypeInv, OwnRegisters, Devices
<1>6. \A g \in Guests \ started' : NotRun(g)'
  BY <1>1, <1>2 DEF IInv, NotRun, Later
<1> QED BY <1>2, <1>3, <1>4, <1>6 DEF IInv

\* The invariant, without an exception.
LEMMA UntrappedKeeps == ASSUME IInv, Untrapped PROVE IInv'
<1>1. /\ TypeInv /\ current \in Guests /\ current \in started
      /\ UNCHANGED <<program, current, started, pc, dev, bank, vi, vf>>
      /\ x' \in [Guests -> [Slots -> SUBSET AllOnes]]
  BY DEF IInv, Untrapped
<1>2. /\ wrote' \in SUBSET Guests /\ wrote' \subseteq started' /\ started' # {} /\ AloneKeepsEl1'
  BY <1>1 DEF IInv, TypeInv, Untrapped, AloneKeepsEl1
<1>3. TypeInv'
  BY <1>1, <1>2 DEF TypeInv
<1>4. \A g \in Guests \ started' : NotRun(g)'
  BY <1>1 DEF IInv, NotRun
<1> QED BY <1>1, <1>2, <1>3, <1>4 DEF IInv

\* The invariant, when nothing happens.
LEMMA StutterKeeps == ASSUME IInv, UNCHANGED vars PROVE IInv'
<1>1. UNCHANGED <<program, current, started, pc, x, dev, bank, el1, vi, vf, did, wrote>>
  BY DEF vars
<1>2. TypeInv' /\ AloneKeepsEl1'
  BY <1>1 DEF IInv, TypeInv, AloneKeepsEl1
<1>3. \A g \in Guests \ started' : NotRun(g)'
  BY <1>1 DEF IInv, NotRun
<1> QED BY <1>1, <1>2, <1>3 DEF IInv

\* Every step is quiet, an access or untrapped, and one of a guest's own machine.
LEMMA StepKinds ==
  ASSUME IInv, [Next]_vars
  PROVE  /\ \/ Quiet /\ OwnRegisters
            \/ Access /\ OwnRegisters
            \/ Untrapped
            \/ UNCHANGED vars
         /\ [M!MNext]_(M!mvars)
<1> TypeInv
  BY DEF IInv
<1> USE DEF M!MNext
<1>1. ASSUME NEW g \in Guests, NEW i \in program[g].load, Load(i[1], i[2])
      PROVE  Access /\ OwnRegisters /\ M!MNext
  BY <1>1, LoadStep
<1>2. ASSUME NEW g \in Guests, NEW i \in program[g].store, Store(i[1], i[2], i[3])
      PROVE  Access /\ OwnRegisters /\ M!MNext
  BY <1>2, StoreStep
<1>3. ASSUME Sysreg PROVE Quiet /\ OwnRegisters /\ M!MNext
  BY <1>3, SysregStep
<1>4. ASSUME Hvc PROVE Quiet /\ OwnRegisters /\ M!MNext
  BY <1>4, HvcStep
<1>5. ASSUME Wfx PROVE Quiet /\ OwnRegisters /\ M!MNext
  BY <1>5, WfxStep
<1>6. ASSUME Interrupt PROVE Quiet /\ OwnRegisters /\ M!MNext
  BY <1>6, InterruptStep
<1>7. ASSUME Compute PROVE Untrapped /\ M!MNext
  BY <1>7, ComputeStep
<1>8. ASSUME WriteEl1 PROVE Untrapped /\ M!MNext
  BY <1>8, WriteEl1Step
<1>9. ASSUME NEW g \in Guests, uart_handler(g) PROVE Quiet /\ OwnRegisters /\ M!MNext
  BY <1>9, UartStep
<1>10. ASSUME UNCHANGED vars PROVE UNCHANGED M!mvars
  BY <1>10 DEF vars, M!mvars
<1> HIDE DEF M!MNext
<1> QED BY <1>1, <1>2, <1>3, <1>4, <1>5, <1>6, <1>7, <1>8, <1>9, <1>10 DEF Next

\* Every step of a guest and of the hypervisor keeps the invariant.
THEOREM NextIInv == IInv /\ [Next]_vars => IInv'
BY StepKinds, QuietKeeps, AccessKeeps, UntrappedKeeps, StutterKeeps

\* Everything holds what fits into it, whatever the guests do; in particular
\* no counter of characters exceeds the buffers.
THEOREM TypeCorrect == Spec => []TypeInv
<1>1. IInv => TypeInv
  BY DEF IInv
<1> QED BY <1>1, InitIInv, NextIInv, PTL DEF Spec

\* No virtual interrupt is ever signalled: vm_assert_virtual_interrupt() is called
\* only when a VM starts, and a VM that has not run has enabled nothing, so that
\* a guest learns of its interrupts by reading the controller (vm.c:73-92).
THEOREM LinesAreDown == Spec => [](vi = FALSE /\ vf = FALSE)
<1>1. IInv => vi = FALSE /\ vf = FALSE
  BY DEF IInv
<1> QED BY <1>1, InitIInv, NextIInv, PTL DEF Spec

\* A guest that is the only one to have run finds the EL1 registers as it left
\* them (sched.S:131-174, vm.c:81-92 and 111-114).
THEOREM AloneIsKept == Spec => []AloneKeepsEl1
<1>1. IInv => AloneKeepsEl1
  BY DEF IInv
<1> QED BY <1>1, InitIInv, NextIInv, PTL DEF Spec

\* Nothing that other VMs, the shell or the line do takes back an interrupt that
\* is pending for a guest (vcpu.c:351-411, uart.c:96-121).
THEOREM PendingIsKept == Spec => PendingUntilServed
<1>1. IInv /\ [Next]_vars =>
        [\A g \in Guests : Pending(dev[g]) \subseteq Pending(dev'[g])
                           \/ (g = current /\ did'.op \in {"load", "store"})]_vars
  <2> SUFFICES ASSUME IInv, [Next]_vars, ~ UNCHANGED vars, NEW g \in Guests
               PROVE  \/ Pending(dev[g]) \subseteq Pending(dev'[g])
                      \/ g = current /\ did'.op \in {"load", "store"}
    OBVIOUS
  <2>1. dev[g] \in Device
    BY DEF IInv, TypeInv
  <2>2. CASE Quiet
    BY <2>1, <2>2, LaterPending DEF Quiet, Devices
  <2>3. CASE Access
    BY <2>1, <2>3, LaterPending DEF Access, Devices
  <2>4. CASE Untrapped
    BY <2>4 DEF Untrapped
  <2> QED BY <2>2, <2>3, <2>4, StepKinds
<1> QED BY <1>1, InitIInv, NextIInv, PTL DEF Spec, PendingUntilServed

\* Each guest has a machine of its own: whatever traps, interrupts and changes of
\* VM come in between, its instructions are carried out once and in order, on its
\* own registers (sync.c:114-117 and 282-298, irq.c:66-78).
THEOREM MachinesAreOwn == Spec => ImplementsMachines
<1>1. IInv /\ [Next]_vars => [M!MNext]_(M!mvars)
  BY StepKinds
<1> QED BY <1>1, InitIInv, NextIInv, PTL DEF Spec, ImplementsMachines, M!MSpec
=============================================================================
