------------------------------- MODULE Stage2 -------------------------------
(***************************************************************************)
(* Stage-2 translation (mm/paging.c): the three levels of tables of each   *)
(* VM, built page by page when its image is loaded and completed by        *)
(* handle_sync_data_abort() when the guest touches a page that is not      *)
(* there, the walk the hardware makes over them, and the one ipa_to_phys() *)
(* makes for the storage enclave.                                          *)
(*                                                                         *)
(* Addresses are page numbers.  A page of RAM is a frame; malloc() hands   *)
(* out frames in order, and Heap shows that a table is never put on a      *)
(* frame that held data, so that a new table is empty.  Running out of     *)
(* memory is Heap's subject too.                                           *)
(***************************************************************************)
EXTENDS Integers

CONSTANTS VMs,
          Entries,     \* TABLE_ENTRIES
          Gigs,        \* first-level entries guests use
          Frames,      \* bound: frames malloc() hands out
          LoadPage,    \* page of load_addr
          MaxImage,    \* pages of the largest image
          DeviceFirst, \* pages of mmio_base and mmio_end
          DeviceLast,
          MmioLast,    \* the last page paging.S maps as MMIO for the hypervisor
          Touched,     \* the pages guests touch
          Far          \* the page far_el2 reports when page p is accessed

Index == 0 .. Entries - 1
Pages == 0 .. Gigs * Entries * Entries - 1

ASSUME PagingAssumption ==
  /\ Entries \in Nat \ {0} /\ Gigs \in 1 .. Entries
  /\ Frames \in Nat
  /\ MaxImage \in Nat /\ LoadPage \in Nat
  /\ DeviceFirst \in Nat /\ DeviceLast \in Nat /\ MmioLast \in Nat
  /\ LoadPage + MaxImage <= DeviceFirst /\ DeviceFirst <= DeviceLast
  /\ DeviceLast <= MmioLast /\ MmioLast < Entries * Entries
  /\ Touched \subseteq Pages
  /\ Far \in [Pages -> Pages]

VARIABLES
  memory,  \* the entries of each frame that is a table
  taken,   \* frames handed out
  lv1,     \* lv1_table of each VM, or None
  pc,      \* where vm_init() is, or "run"
  vm,      \* the VM that is being loaded
  virt,    \* the loop variables of map_virtual_address_space()
  phys,
  pages

vars == <<memory, taken, lv1, pc, vm, virt, phys, pages>>

None  == -1
Empty == [to |-> 0, kind |-> "none"]
Table(t) == [to |-> t, kind |-> "table"]

FrameNos == 0 .. Frames - 1
Kinds    == {"none", "table", "ram", "device"}

TypeOK ==
  /\ memory \in [FrameNos -> [Index -> [to : Nat, kind : Kinds]]]
  /\ taken \in 0 .. Frames
  /\ lv1 \in [VMs -> {None} \cup FrameNos]
  /\ pc \in {"idle", "image", "devices", "run"}
  /\ vm \in VMs
  /\ virt \in Nat /\ phys \in Nat
  /\ pages \in 0 .. MaxImage

Init ==
  /\ memory = [f \in FrameNos |-> [i \in Index |-> Empty]]
  /\ taken = 0
  /\ lv1 = [v \in VMs |-> None]
  /\ pc = "idle" /\ vm \in VMs
  /\ virt = 0 /\ phys = 0 /\ pages = 0

-----------------------------------------------------------------------------
(* Tables *)

Lv1(p) == p \div (Entries * Entries)
Lv2(p) == (p \div Entries) % Entries
Lv3(p) == p % Entries

\* The walk of the hardware: the entry of page p at the last level, or Empty
\* if it ends before.
Walk(v, p) ==
  IF lv1[v] = None THEN Empty
  ELSE LET e1 == memory[lv1[v]][Lv1(p)]
           e2 == memory[e1.to][Lv2(p)]
       IN  IF e1 = Empty \/ e2 = Empty THEN Empty ELSE memory[e2.to][Lv3(p)]

\* Mutant of map_table: a present entry is not looked for.
MapTableAlways(m, free, table, index) == free

\* map_table(): the table behind an entry, which is the next free frame if
\* there is none yet.
map_table(m, free, table, index) ==
  IF m[table][index] = Empty THEN free ELSE m[table][index].to

\* map_page(), when free is the next frame malloc() would return.
map_page(v, free, frame, page, kind) ==
  LET table2 == map_table(memory, free, lv1[v], Lv1(page))
      free2  == IF table2 = free THEN free + 1 ELSE free
      with2  == [memory EXCEPT ![lv1[v]][Lv1(page)] = Table(table2)]
      table3 == map_table(with2, free2, table2, Lv2(page))
  IN  /\ memory' = [with2 EXCEPT ![table2][Lv2(page)] = Table(table3),
                                 ![table3][Lv3(page)] = [to |-> frame, kind |-> kind]]
      /\ taken' = IF table3 = free2 THEN free2 + 1 ELSE free2

\* Mutant of ipa_to_phys: the last level is entered with the index of the
\* second.
IpaToPhysLv2(v, p) ==
  LET table2 == memory[lv1[v]][0].to
      entry2 == memory[table2][Lv2(p)]
  IN  IF entry2 = Empty THEN None ELSE memory[entry2.to][Lv2(p)].to

\* ipa_to_phys() for a VM that has been loaded: the first entry of the first
\* table stands for all of them.  Without a last-level table the code reads at
\* address 0, and the result is of no use (None).
ipa_to_phys(v, p) ==
  LET table2 == memory[lv1[v]][0].to
      entry2 == memory[table2][Lv2(p)]
  IN  IF entry2 = Empty THEN None ELSE memory[entry2.to][Lv3(p)].to

-----------------------------------------------------------------------------
(* vm_init() *)

Room(n) == taken + n <= Frames

\* create_virtual_address_space(), and load_vm() allocates and reads the image.
CreateVm(v) ==
  /\ pc = "idle" /\ lv1[v] = None
  /\ \E n \in 1 .. MaxImage :
       /\ Room(n + 1)
       /\ pages' = n
       /\ taken' = taken + n + 1
  /\ lv1' = [lv1 EXCEPT ![v] = taken]
  /\ vm' = v /\ virt' = LoadPage /\ phys' = taken + 1
  /\ pc' = "image"
  /\ UNCHANGED memory

\* Mutant of MapImage: "while(pages >= 0)".
MapImageOver ==
  /\ pc = "image" /\ pages >= 0 /\ Room(2)
  /\ map_page(vm, taken, phys, virt, "ram")
  /\ phys' = phys + 1 /\ virt' = virt + 1 /\ pages' = pages - 1
  /\ UNCHANGED <<lv1, pc, vm>>

MapImage ==
  /\ pc = "image" /\ pages > 0 /\ Room(2)
  /\ map_page(vm, taken, phys, virt, "ram")
  /\ phys' = phys + 1 /\ virt' = virt + 1 /\ pages' = pages - 1
  /\ UNCHANGED <<lv1, pc, vm>>

ImageMapped ==
  /\ pc = "image" /\ pages = 0
  /\ virt' = DeviceFirst
  /\ pc' = "devices"
  /\ UNCHANGED <<memory, taken, lv1, vm, phys, pages>>

\* The devices' pages, identity mapped without access.
MapDevice ==
  /\ pc = "devices" /\ virt <= DeviceLast /\ Room(2)
  /\ map_page(vm, taken, virt, virt, "device")
  /\ virt' = virt + 1
  /\ pc' = IF virt' <= DeviceLast THEN pc ELSE "idle"
  /\ UNCHANGED <<lv1, vm, phys, pages>>

\* main() starts to schedule.
BootDone ==
  /\ pc = "idle"
  /\ pc' = "run"
  /\ UNCHANGED <<memory, taken, lv1, vm, virt, phys, pages>>

-----------------------------------------------------------------------------
(* Guests *)

\* Mutant of DataAbort: the page is not taken before the tables are.
DataAbortUntaken(v, p) ==
  /\ pc = "run" /\ lv1[v] # None /\ Room(3)
  /\ Walk(v, p) = Empty
  /\ map_page(v, taken, taken, Far[p], "ram")
  /\ UNCHANGED <<lv1, pc, vm, virt, phys, pages>>

\* handle_sync_data_abort(), translation fault: a page is allocated first,
\* then the tables that are missing.  Accesses to device pages are
\* permission faults, which change no table.
DataAbort(v, p) ==
  /\ pc = "run" /\ lv1[v] # None /\ Room(3)
  /\ Walk(v, p) = Empty
  /\ map_page(v, taken + 1, taken, Far[p], "ram")
  /\ UNCHANGED <<lv1, pc, vm, virt, phys, pages>>

Next ==
  \/ \E v \in VMs : CreateVm(v)
  \/ MapImage \/ ImageMapped \/ MapDevice \/ BootDone
  \/ \E v \in VMs, p \in Touched : DataAbort(v, p)

Spec == Init /\ [][Next]_vars

-----------------------------------------------------------------------------
(* Properties *)

Tables ==
  LET first  == {lv1[v] : v \in VMs} \ {None}
      Below(ts) == {memory[t][i].to : t \in ts, i \in Index}
      Down(ts) == {f \in Below(ts) : \E t \in ts, i \in Index : memory[t][i] = Table(f)}
  IN  first \cup Down(first) \cup Down(Down(first))

\* No guest can write its own or another guest's tables: a frame that is
\* mapped as RAM is not a table (sync.c:273-280, paging.c:36).
TablesHidden ==
  \A v \in VMs, p \in Pages : Walk(v, p).kind = "ram" => Walk(v, p).to \notin Tables

\* Fails: no page of the MMIO region, as the hypervisor maps it for itself
\* (paging.S:68), is RAM for a guest, so that accesses to devices trap for ever.
\* The loop that is "identity mapping the MMIO region with NO ACCESS flags"
\* (paging.c:76) ends with the first page of the last block of 2 MB, and the first
\* access to one of the others is given a page of RAM, as any missing page is.
DevicesTrap ==
  \A v \in VMs, p \in DeviceFirst .. MmioLast : Walk(v, p).kind # "ram"

\* Below 1 GB the hypervisor finds a guest's page where the guest has it
\* (paging.c:84-100, used by sse.c:103-104).
SeesGuestPage ==
  \A v \in VMs, p \in Pages :
    Lv1(p) = 0 /\ Walk(v, p).kind = "ram" => ipa_to_phys(v, p) = Walk(v, p).to

\* Each guest has memory of its own, that stays where it is once it is there:
\* tables that are shared by several pages are found again and extended,
\* never replaced, for all VMs together.
P == INSTANCE PrivateMemory WITH
       Frames  <- FrameNos,
       Nowhere <- -1,
       Device  <- -2,
       place   <- [v \in VMs |-> [p \in Pages |->
                    CASE Walk(v, p).kind = "ram"    -> Walk(v, p).to
                      [] Walk(v, p).kind = "device" -> -2
                      [] OTHER                      -> -1]]

IsPrivate == P!Spec
=============================================================================
