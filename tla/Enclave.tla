------------------------------ MODULE Enclave ------------------------------
(***************************************************************************)
(* The secure storage enclave (sse/sse.c) on the file system and the card: *)
(* the part of the boot that touches the card (core/main.c, load_vm() in   *)
(* core/vm.c, sse_init()), the hypervisor calls by which a VM writes and   *)
(* reads files, and the loss of power between any two sector writes.       *)
(*                                                                         *)
(* Handlers run at EL2 with interrupts masked, so nothing but a power loss *)
(* comes between the steps of one.  An action computes a whole handler (Fat*)
(* has the functions it calls) and leaves in queue the sectors it writes,  *)
(* in order; DiskStep lets one of them reach the card; the handler returns *)
(* when all have.                                                          *)
(***************************************************************************)
EXTENDS Fat, FiniteSets, SequencesExt

CONSTANTS Cards,       \* the cards the machine may be started with
          Configured,  \* the VMs main() starts
          Image,       \* the path of their image
          DirName,     \* get_sse_vm_dir_name() of each VM number
          Names,       \* the names VMs give to files, split at their separators
          Contents,    \* what they write to them
          Sizes,       \* how many bytes they ask for
          Pages,       \* pages of the heap left for the enclave (bound)
          MaxLosses    \* losses of power (bound)

ASSUME EnclaveAssumption ==
  /\ Configured \in Nat /\ Pages \in Nat /\ MaxLosses \in Nat
  /\ 1 .. Configured \subseteq DOMAIN DirName
  /\ Image \in Seq(ToSet(Image))
  /\ \A name \in Names : name # <<>> /\ name \in Seq(ToSet(name))
  /\ \A data \in Contents : data \in Seq(ToSet(data))
  /\ Sizes \subseteq Nat

VARIABLES card,        \* the sectors of the card
          stored,      \* the files of the VMs on it (history)
          queue,       \* the sector writes of the running handler still to come
          fs,          \* the FATFS object fat and the state of the disk layer
          pc,          \* where main() is
          total_vms,   \* the shell, number 0, and the VMs that were loaded
          call,        \* the call of a VM being served, and its result
          pages,       \* pages malloc() can still give
          losses

vars == <<card, stored, queue, fs, pc, total_vms, call, pages, losses>>

Off    == [at |-> "off", i |-> 0]
NoCall == [op |-> "none", file |-> <<>>, data |-> <<>>, size |-> 0,
           fresh |-> FALSE, result |-> 0]

Path(abs, segs) == [abs |-> abs, segs |-> segs]

\* The volume the functions of Fat work on; ok: whether sd_init() will succeed,
\* if it is called (mount_volume() calls it when there is no volume).
Outcomes   == IF fs.fs_type = 0 \/ fs.stat = "STA_NOINIT" THEN BOOLEAN ELSE {TRUE}
Volume(ok) == [fs EXCEPT !.card = card, !.sd = ok]

\* A handler has left the volume as v.
Leaves(v) ==
  /\ queue' = v.log
  /\ fs' = [v EXCEPT !.card = <<>>, !.log = <<>>, !.sd = FALSE]
  /\ UNCHANGED <<card, stored>>

Idle == queue = <<>>

-----------------------------------------------------------------------------
(* The card as the next boot would find it, read without the code of Fat.  *)

OnCard(sectors) == f_mount([FATFS(sectors) EXCEPT !.sd = TRUE]).v

Cell(v, c) == v.card[v.fatbase + c \div SS][c % SS]

Clusts(v) == 2 .. v.n_fatent - 1

FreeClusters(v) == {c \in Clusts(v) : Cell(v, c) = 0}

LinksApart(v) ==
  \A c \in Clusts(v) : Cell(v, c) \in Clusts(v) =>
    /\ Cell(v, Cell(v, c)) # 0
    /\ \A d \in Clusts(v) : Cell(v, d) = Cell(v, c) => d = c

CountNotLow(v) == v.free_clst <= v.n_fatent - 2 => v.free_clst >= Cardinality(FreeClusters(v))

\* The sectors behind the FAT, as far as the last cluster.
DataSectors(v) == v.fatbase + v.fsize .. v.database + v.csize * (v.n_fatent - 2) - 1

\* A volume as a formatting program leaves it: all its sectors are there, FSInfo before
\* the FAT, and the partitions listed before it lie before it.
Formatted(v) ==
  LET boot  == v.card[v.volbase]
      table == v.card[0].table
  IN  /\ {v.volbase, boot.rsv, boot.root, boot.tot, boot.fsz} \subseteq Nat
      /\ v.n_fatent <= EOC
      /\ (0 .. v.fatbase + v.fsize - 1) \union DataSectors(v) \subseteq DOMAIN v.card
      /\ \A s \in v.fatbase .. v.fatbase + v.fsize - 1 : v.card[s] \in [Cells -> Nat]
      /\ \A s \in DataSectors(v) : DOMAIN v.card[s] = Cells
      /\ v.fsi_flag # "disabled" => v.volbase + 1 < v.fatbase /\ v.card[v.volbase + 1].free \in Nat
      /\ v.volbase # 0 =>
           /\ table \in Seq(Nat)
           /\ \A i \in DOMAIN table :
                (\A j \in 1 .. i : table[j] # v.volbase) => table[i] < v.volbase

SoundCard(sectors) ==
  \A v \in {OnCard(sectors)} : v.fs_type # 0 => Formatted(v) /\ LinksApart(v) /\ CountNotLow(v)

\* The machine is started with sound cards, or with ones that hold no volume.
ASSUME CardsAssumption == \A sectors \in Cards : SoundCard(sectors)

\* The clusters of a chain, as far as it can be followed.
Chain(v, c) ==
  LET Grown(s) == IF s = <<>> \/ ~IsClst(v, Cell(v, Last(s))) \/ Cell(v, Last(s)) \in ToSet(s)
                  THEN s ELSE Append(s, Cell(v, Last(s)))
      Part[n \in 0 .. v.n_fatent] ==
        IF n = 0 THEN IF IsClst(v, c) THEN <<c>> ELSE <<>> ELSE Grown(Part[n - 1])
  IN  Part[v.n_fatent]

Sectors(v, c) ==
  LET chain == Chain(v, c)
  IN  IF c = 0 /\ v.fs_type # 32
      THEN [i \in 1 .. v.n_rootdir \div SS |-> v.dirbase + i - 1]
      ELSE [i \in 1 .. Len(chain) * v.csize |->
              clst2sect(v, chain[(i - 1) \div v.csize + 1]) + ((i - 1) % v.csize)]

\* The cells of the sectors of a chain, in order.
CellsOf(v, c) ==
  LET sectors == Sectors(v, c)
  IN  [i \in 1 .. Len(sectors) * SS |-> v.card[sectors[(i - 1) \div SS + 1]][(i - 1) % SS]]

Root(v) == IF v.fs_type = 32 THEN v.dirbase ELSE 0

Objects(v, dir) == {e \in ToSet(CellsOf(v, dir)) : e.attr \in {"file", "dir"} /\ e.name \notin {".", ".."}}

\* Every object with its directory, down to the third level.
Tree(v) ==
  LET Below(objs) == UNION {{[dir |-> o.e.clust, e |-> e] : e \in Objects(v, o.e.clust)} :
                            o \in {p \in objs : p.e.attr = "dir"}}
      first  == {[dir |-> Root(v), e |-> e] : e \in Objects(v, Root(v))}
      second == Below(first)
  IN  first \union second \union Below(second)

\* The objects a path leads to.
Lookup(v, segs) ==
  LET In(dirs, name) == {e \in UNION {Objects(v, d.clust) : d \in dirs} : e.name = name}
      Reach[i \in 0 .. Len(segs)] ==
        IF i = 0 THEN {Entry("", "dir", Root(v), 0)}
        ELSE In({d \in Reach[i - 1] : d.attr = "dir"}, segs[i])
  IN  Reach[Len(segs)]

Absent == <<"absent">>

\* What is stored under a path: Absent, or the bytes of the file.
Stored(v, segs) ==
  LET found == IF v.fs_type = 0 THEN {} ELSE {e \in Lookup(v, segs) : e.attr = "file"}
      e     == CHOOSE e \in found : TRUE
  IN  IF found = {} THEN Absent ELSE [i \in 1 .. e.size |-> CellsOf(v, e.clust)[i].name]

\* The path of a VM's file: strcat() joins the path of its directory and the name
\* as they are, so that a name which does not begin with a separator makes the
\* directory's own name longer.
DirPath(vm)        == Path(TRUE, <<DirName[vm]>>)
FilePath(vm, name) == Path(TRUE, <<DirName[vm] \o Head(name)>> \o Tail(name))

\* Where a path from the root ends when all its directories exist.
Place(segs) ==
  LET Step(at, seg) == CASE create_name(seg) = "."                   -> at
                         [] create_name(seg) = ".." /\ at = <<>>     -> at
                         [] create_name(seg) = ".." /\ at # <<>>     -> Front(at)
                         [] OTHER                            -> Append(at, create_name(seg))
  IN  FoldLeft(Step, <<>>, segs)

\* The file a VM means by a name.  Different names, and names of different VMs,
\* may mean the same one.
File(vm, name) == Place(FilePath(vm, name).segs)

Files == {File(vm, name) : vm \in 1 .. Configured, name \in Names}

StoredFiles(sectors) == LET v == OnCard(sectors) IN [f \in Files |-> Stored(v, f)]

-----------------------------------------------------------------------------
(* Boot. *)

\* fs_init(), the first function of main() that touches the card; sched_init()
\* counts the shell.
PowerOn ==
  /\ pc = Off
  /\ \E ok \in BOOLEAN : Leaves(f_mount([FATFS(card) EXCEPT !.sd = ok]).v)
  /\ pc' = [at |-> "vm_init", i |-> 0]
  /\ total_vms' = 1
  /\ UNCHANGED <<call, pages, losses>>

\* vm_init() of the next VM of main(), as far as load_vm() reads its image;
\* f_read()'s result is not looked at.
vm_init ==
  /\ pc.at = "vm_init" /\ pc.i < Configured /\ Idle /\ call = NoCall
  /\ \E ok \in Outcomes : \E o \in {f_open(Volume(ok), Path(TRUE, Image), "read")} :
       \/ /\ o.res # "FR_OK"
          /\ Leaves(o.v) /\ UNCHANGED <<total_vms, call>>
       \/ /\ o.res = "FR_OK"
          /\ \E st \in {f_stat(o.v, Path(TRUE, Image))} : \E r \in {f_read(st.v, o.fp, st.fsize)} :
               /\ Leaves(f_close(r.v, r.fp).v)
               /\ total_vms' = total_vms + 1
               /\ call' = [NoCall EXCEPT !.op = "load", !.file = Image, !.data = r.data]
  /\ pc' = [pc EXCEPT !.i = @ + 1]
  /\ UNCHANGED <<pages, losses>>

\* sse_sandbox_init() of the next VM, in sse_init(); sse_enabled is 1 of all but
\* the shell.
sse_sandbox_init ==
  /\ pc.at = "sse_init" /\ pc.i < total_vms /\ Idle /\ pages >= 2
  /\ \E ok \in Outcomes : \E r \in {f_chdir(Volume(ok), Path(TRUE, <<>>))} :
       \/ r.res # "FR_OK" /\ Leaves(r.v) /\ UNCHANGED pages
       \/ /\ r.res = "FR_OK"
          /\ Leaves(f_mkdir(r.v, Path(FALSE, <<DirName[pc.i]>>)).v) /\ pages' = pages - 2
  /\ pc' = [pc EXCEPT !.i = @ + 1]
  /\ UNCHANGED <<total_vms, call, losses>>

\* main() goes on when the last VM of a loop has been served.
NextStage ==
  /\ Idle /\ call = NoCall
  /\ \/ pc.at = "vm_init" /\ pc.i = Configured /\ pc' = [at |-> "sse_init", i |-> 1]
     \/ pc.at = "sse_init" /\ pc.i = total_vms /\ pc' = [at |-> "schedule", i |-> 0]
  /\ UNCHANGED <<card, stored, queue, fs, total_vms, call, pages, losses>>

-----------------------------------------------------------------------------
(* The calls of the VMs.  Each takes pages for the names it builds, two for *)
(* a path and its number, and frees none of them.                           *)

Called(op, file, data, size, result) ==
  call' = [op |-> op, file |-> file, data |-> data, size |-> size, result |-> result,
           fresh |-> stored[file] = Absent]

sse_hvc_fwrite_handler(vm, name, data) ==
  /\ pc.at = "schedule" /\ Idle /\ call = NoCall /\ pages >= 4
  /\ \E ok \in Outcomes : \E sw \in {f_chdir(Volume(ok), DirPath(vm))} :
       LET Ends(v, result) == Leaves(v) /\ Called("fwrite", File(vm, name), data, Len(data), result)
       IN  \/ sw.res # "FR_OK" /\ Ends(sw.v, -1) /\ pages' = pages - 2
           \/ /\ sw.res = "FR_OK" /\ pages' = pages - 4
              /\ \E o \in {f_open(sw.v, FilePath(vm, name), "create")} :
                   \/ o.res # "FR_OK" /\ Ends(o.v, -1)
                   \/ /\ o.res = "FR_OK"
                      /\ \E w \in {f_write(o.v, o.fp, data)} :
                           \/ w.res # "FR_OK" /\ Ends(w.v, -1)
                           \/ w.res = "FR_OK" /\ Ends(f_close(w.v, w.fp).v, 0)
  /\ UNCHANGED <<pc, total_vms, losses>>

\* The result of switching to the directory of the VM is not looked at.
sse_hvc_fread_handler(vm, name, size) ==
  /\ pc.at = "schedule" /\ Idle /\ call = NoCall /\ pages >= 4
  /\ \E ok \in Outcomes : \E sw \in {f_chdir(Volume(ok), DirPath(vm))} :
     \E o \in {f_open(sw.v, FilePath(vm, name), "read")} :
       LET Ends(v, data, result) == Leaves(v) /\ Called("fread", File(vm, name), data, size, result)
       IN  \/ o.res # "FR_OK" /\ Ends(o.v, <<>>, -1)
           \/ /\ o.res = "FR_OK"
              /\ \E r \in {f_read(o.v, o.fp, size)} :
                   \/ r.res # "FR_OK" /\ Ends(r.v, r.data, -1)
                   \/ r.res = "FR_OK" /\ Ends(f_close(r.v, r.fp).v, r.data, 0)
  /\ pages' = pages - 4
  /\ UNCHANGED <<pc, total_vms, losses>>

\* The result is in x0 of the VM.
Return ==
  /\ call # NoCall /\ Idle
  /\ call' = NoCall
  /\ UNCHANGED <<card, stored, queue, fs, pc, total_vms, pages, losses>>

-----------------------------------------------------------------------------
(* The card and the power. *)

DiskStep ==
  /\ queue # <<>>
  /\ LET sectors == [card EXCEPT ![Head(queue)[1]] = Head(queue)[2]]
     IN  card' = sectors /\ stored' = StoredFiles(sectors)
  /\ queue' = Tail(queue)
  /\ UNCHANGED <<fs, pc, total_vms, call, pages, losses>>

\* The card keeps what has reached it, everything else is forgotten.
PowerLoss ==
  /\ pc # Off /\ losses < MaxLosses
  /\ losses' = losses + 1
  /\ queue' = <<>> /\ fs' = FATFS(<<>>) /\ pc' = Off
  /\ total_vms' = 0 /\ call' = NoCall /\ pages' = Pages
  /\ UNCHANGED <<card, stored>>

Init ==
  /\ card \in Cards /\ stored = StoredFiles(card)
  /\ queue = <<>> /\ fs = FATFS(<<>>) /\ pc = Off
  /\ total_vms = 0 /\ call = NoCall /\ pages = Pages /\ losses = 0

Calls ==
  \E vm \in 1 .. total_vms - 1, name \in Names :
    \/ \E data \in Contents : sse_hvc_fwrite_handler(vm, name, data)
    \/ \E size \in Sizes : sse_hvc_fread_handler(vm, name, size)

Next ==
  \/ PowerOn
  \/ vm_init
  \/ sse_sandbox_init
  \/ NextStage
  \/ Calls
  \/ Return
  \/ DiskStep
  \/ PowerLoss

Spec == Init /\ [][Next]_vars

-----------------------------------------------------------------------------
(* Properties. *)

\* Whenever the power may fail, what the directories of the card lead to is
\* whole: every chain ends, is long enough for its file and shares no cluster
\* with another, and a directory has its dot entries before anything names it.
\* This is the order in which create_chain(), dir_clear(), dir_register() and
\* f_sync() let their sectors reach the card.
ChainsSound ==
  \A v \in {OnCard(card)} : v.fs_type # 0 =>
    \A root \in {IF v.fs_type = 32 THEN {Chain(v, v.dirbase)} ELSE {}},
       tree \in {{[dir |-> o.dir, e |-> o.e, chain |-> Chain(v, o.e.clust)] : o \in Tree(v)}} :
      LET Ends(chain) == chain # <<>> /\ Cell(v, Last(chain)) = EOC
          Apart(one, other) == ToSet(one) \cap ToSet(other) = {}
      IN  /\ \A o \in tree :
               IF o.e.clust = 0 THEN o.e.attr = "file" /\ o.e.size = 0
               ELSE /\ Ends(o.chain)
                    /\ o.e.size <= Len(o.chain) * v.csize * SS
                    /\ o.e.attr = "dir" =>
                         SubSeq(CellsOf(v, o.e.clust), 1, 2) =
                           <<Entry(".", "dir", o.e.clust, 0),
                             Entry("..", "dir", IF o.dir = Root(v) THEN 0 ELSE o.dir, 0)>>
          /\ \A o, p \in tree : o # p => Apart(o.chain, p.chain)
          /\ \A r \in root : Ends(r) /\ \A o \in tree : Apart(o.chain, r)

\* At every moment, on every cluster of the card, lost ones included: no two lead
\* to the same, and none leads to a free one, so that what create_chain() takes
\* next is nobody's.  It marks a cluster as taken before it links it.
LinksSound == \A v \in {OnCard(card)} : v.fs_type # 0 => LinksApart(v)

\* The count of free clusters in the FSInfo sector, which is written after
\* everything else, is never below the truth: create_chain() refuses without a
\* search when it reads 0, and a cluster must be left when it does not.
FreeCountNotLow == \A v \in {OnCard(card)} : v.fs_type # 0 => CountNotLow(v)

\* The volume as the file system sees it between calls, with its window.
InMemory ==
  LET v == [fs EXCEPT !.card = card]
  IN  IF v.wflag THEN [v EXCEPT !.card[v.winsect] = v.win] ELSE v

\* As long as the power never failed no cluster is allocated that nothing leads
\* to, whatever calls were refused: f_mkdir() gives back the cluster of a
\* directory it cannot register, and a file that does not fit keeps its part.
NoLostClusters ==
  LET v == InMemory
  IN  (losses = 0 /\ Idle /\ v.fs_type # 0) =>
        Clusts(v) \ FreeClusters(v) =
          UNION {ToSet(Chain(v, o.e.clust)) : o \in Tree(v)}
            \union (IF v.fs_type = 32 THEN ToSet(Chain(v, v.dirbase)) ELSE {})

\* A write that returns 0 is on the card, not in a buffer: the next boot reads
\* all of it, or the beginning of it when the card has no cluster left.
AckedIsStored ==
  (call.op = "fwrite" /\ call.result = 0 /\ Idle) =>
    \/ stored[call.file] = call.data
    \/ /\ stored[call.file] \in Prefixes(call.data)
       /\ FreeClusters(OnCard(card)) = {}

\* Reading through the window, the chains and the sector buffer gives what is on
\* the card: the image of a VM, and the file that a VM wrote.
ReadsBack ==
  /\ call.op = "load" => call.data = Stored(OnCard(card), Image)
  /\ (call.op = "fread" /\ call.result = 0) =>
       /\ stored[call.file] # Absent
       /\ call.data = SubSeq(stored[call.file], 1,
                             IF call.size < Len(stored[call.file]) THEN call.size
                             ELSE Len(stored[call.file]))

\* The enclave is the store that Vault describes.
V == INSTANCE Vault WITH
       files <- stored,
       busy  <- IF call.op = "fwrite"
                THEN [file |-> call.file, data |-> call.data, fresh |-> call.fresh]
                ELSE [file |-> <<>>, data |-> <<>>, fresh |-> FALSE]

ImplementsVault == V!Spec
=============================================================================
