-------------------------------- MODULE Fat --------------------------------
(***************************************************************************)
(* The FAT file system (fs/ff.c) as the hypervisor calls it and as         *)
(* include/fs/ffconf.h builds it: no long names, no exFAT, relative paths, *)
(* one volume, no locking.  Every function is an operator on a volume: the *)
(* FATFS object together with the card as it is once every sector written  *)
(* so far has reached it (v.card), and those writes in order (v.log).      *)
(* Enclave takes the calls apart again, one sector write at a time.        *)
(*                                                                         *)
(* A sector has SS cells.  A cell of the FAT is a number, any other cell a *)
(* directory entry; a byte of a file is an entry with attribute "data".    *)
(* FR_DISK_ERR does not occur: disk_read() and disk_write() test what the  *)
(* SD driver returns for < 0, and the driver returns 0 when a transfer     *)
(* fails; such a transfer is not modelled here (see SdCard).               *)
(***************************************************************************)
EXTENDS Integers, Sequences, FiniteSetsExt

CONSTANTS SS,         \* cells in a sector, SS(fs)
          EOC,        \* 0xFFFFFFFF: the end of a chain, and an unknown count
          Sfn,        \* what create_name() makes of a name, see there
          MaxFat12,   \* MAX_FAT12
          MaxFat16    \* MAX_FAT16

ASSUME FatAssumption ==
  /\ SS \in Nat /\ SS >= 2 /\ EOC \in Nat
  /\ MaxFat12 \in Nat /\ MaxFat16 \in Nat /\ MaxFat12 <= MaxFat16

Invalid == "invalid"
Cells   == 0 .. SS - 1

Entry(name, attr, clust, size) ==
  [name |-> name, attr |-> attr, clust |-> clust, size |-> size]
Zero       == Entry("", "", 0, 0)
ZeroSector == [i \in Cells |-> Zero]
Byte(d)    == Entry(d, "data", 0, 0)

Ret(v, res) == [v |-> v, res |-> res]

\* The FATFS object before the volume is mounted, over a given card.
FATFS(card) ==
  [card |-> card, log |-> <<>>, sd |-> FALSE, stat |-> "STA_NOINIT",
   fs_type |-> 0, id |-> 0, n_fats |-> 0, csize |-> 0, n_rootdir |-> 0,
   n_fatent |-> 0, fsize |-> 0, volbase |-> 0, fatbase |-> 0, dirbase |-> 0,
   database |-> 0, winsect |-> 0, win |-> ZeroSector, wflag |-> FALSE,
   last_clst |-> EOC, free_clst |-> EOC, fsi_flag |-> "disabled", cdir |-> 0]

-----------------------------------------------------------------------------
(* The window: one sector of the volume, written back when it must move. *)

disk_write(v, sect, content) ==
  [v EXCEPT !.card[sect] = content, !.log = Append(@, <<sect, content>>)]

sync_window(v) ==
  LET first  == disk_write(v, v.winsect, v.win)
      mirror == /\ v.winsect \in v.fatbase .. v.fatbase + v.fsize - 1
                /\ v.n_fats = 2
      both   == IF mirror THEN disk_write(first, v.winsect + v.fsize, v.win)
                ELSE first
  IN  IF v.wflag THEN [both EXCEPT !.wflag = FALSE] ELSE v

\* Mutant of move_window: the window moves without being written back.
move_window_lost(v, sect) ==
  IF sect = v.winsect THEN v
  ELSE [v EXCEPT !.winsect = sect, !.win = v.card[sect], !.wflag = FALSE]

move_window(v, sect) ==
  IF sect = v.winsect THEN v
  ELSE [sync_window(v) EXCEPT !.winsect = sect, !.win = sync_window(v).card[sect]]

sync_fs(v) ==
  LET w    == sync_window(v)
      info == [sig |-> TRUE, free |-> v.free_clst, last |-> v.last_clst]
  IN  IF v.fs_type = 32 /\ v.fsi_flag = "dirty"
      THEN [disk_write(w, v.volbase + 1, info) EXCEPT
              !.winsect = v.volbase + 1, !.win = info, !.fsi_flag = "clean"]
      ELSE w

-----------------------------------------------------------------------------
(* Clusters and their chains. *)

IsClst(v, c) == c \in 2 .. v.n_fatent - 1

clst2sect(v, c) == IF IsClst(v, c) THEN v.database + v.csize * (c - 2) ELSE 0

\* 1 is an internal error, a value of at least n_fatent the end of the chain.
get_fat(v, c) ==
  LET w == move_window(v, v.fatbase + c \div SS)
  IN  IF IsClst(v, c) THEN [v |-> w, val |-> w.win[c % SS]]
      ELSE [v |-> v, val |-> 1]

\* Out of range it changes nothing, as when create_chain() has no predecessor.
put_fat(v, c, val) ==
  IF IsClst(v, c)
  THEN [move_window(v, v.fatbase + c \div SS) EXCEPT !.win[c % SS] = val, !.wflag = TRUE]
  ELSE v

TouchInfo(flag) == IF flag = "disabled" THEN flag ELSE "dirty"

\* One round of the search for a free cluster, until one is found or get_fat() fails.
Try(r, c) ==
  LET g == get_fat(r.v, c)
  IN  CASE ~r.on              -> r
        [] r.on /\ g.val = 0 -> [v |-> g.v, val |-> c, on |-> FALSE]
        [] r.on /\ g.val = 1 -> [v |-> g.v, val |-> 1, on |-> FALSE]
        [] OTHER              -> [v |-> g.v, val |-> 0, on |-> TRUE]

\* The first free cluster of a sequence, 0 if there is none.
FirstFree(v, cs) ==
  LET Tried[i \in 0 .. Len(cs)] ==
        IF i = 0 THEN [v |-> v, val |-> 0, on |-> TRUE] ELSE Try(Tried[i - 1], cs[i])
  IN  Tried[Len(cs)]

\* The clusters create_chain() tries after c, once around the table.
Around(v, c) == [i \in 1 .. v.n_fatent - 1 - c |-> c + i] \o [i \in 1 .. c - 1 |-> i + 1]

\* Mutant of Linked: the link is written before the cluster it leads to is taken.
Linked_early(found, clst) ==
  LET v == put_fat(put_fat(found.v, clst, found.val), found.val, EOC)
  IN  IF found.val < 2 THEN found
      ELSE [v |-> [v EXCEPT !.last_clst = found.val,
                            !.free_clst = IF @ <= v.n_fatent - 2 THEN @ - 1 ELSE @,
                            !.fsi_flag = TouchInfo(@)],
            val |-> found.val]

\* Cluster found.val, if it is one, becomes the end of the chain that ended in clst.
Linked(found, clst) ==
  LET v == put_fat(put_fat(found.v, found.val, EOC), clst, found.val)
  IN  IF found.val < 2 THEN found
      ELSE [v |-> [v EXCEPT !.last_clst = found.val,
                            !.free_clst = IF @ <= v.n_fatent - 2 THEN @ - 1 ELSE @,
                            !.fsi_flag = TouchInfo(@)],
            val |-> found.val]

NewCluster(v, clst) ==
  LET new   == clst = 0
      next  == IF clst + 1 >= v.n_fatent THEN 2 ELSE clst + 1
      start == CASE v.last_clst \in (IF new THEN 1 ELSE 2) .. v.n_fatent - 1 -> v.last_clst
                 [] OTHER -> IF new THEN 1 ELSE clst
      tries == IF new THEN Around(v, start) ELSE <<next>> \o Around(v, start)
  IN  IF v.free_clst = 0 THEN [v |-> v, val |-> 0] ELSE Linked(FirstFree(v, tries), clst)

\* cs: what get_fat() returned for clst.
Stretch(cs, clst) ==
  CASE cs.val < 2 -> [v |-> cs.v, val |-> 1]
    [] cs.val \in 2 .. cs.v.n_fatent - 1 -> cs
    [] OTHER -> NewCluster(cs.v, clst)

\* Stretches the chain that ends in clst, or starts one if clst is 0.
create_chain(v, clst) == IF clst = 0 THEN NewCluster(v, 0) ELSE Stretch(get_fat(v, clst), clst)

\* Mutant of remove_chain: the cluster is freed but not counted.
remove_chain_uncounted(v, c) == put_fat(v, c, 0)

\* Mutant of remove_chain: the clusters stay allocated.
remove_chain_none(v, c) == v

\* One round of remove_chain(): r.c is freed, or 0 at the end of the chain.
Removed(r) ==
  LET g == get_fat(r.v, r.c)
      v == [put_fat(g.v, r.c, 0) EXCEPT
              !.free_clst = IF @ < g.v.n_fatent - 2 THEN @ + 1 ELSE @,
              !.fsi_flag  = IF g.v.free_clst < g.v.n_fatent - 2 THEN TouchInfo(@) ELSE @]
  IN  IF g.val < 2 THEN [v |-> g.v, c |-> 0]
      ELSE [v |-> v, c |-> IF g.val < g.v.n_fatent THEN g.val ELSE 0]

\* A chain has no more than n_fatent clusters.
remove_chain(v, c) ==
  LET Rest[n \in 0 .. v.n_fatent] ==
        IF n = 0 THEN [v |-> v, c |-> c] ELSE Removed(Rest[n - 1])
  IN  Rest[v.n_fatent].v

-----------------------------------------------------------------------------
(* Directories.  d is a DIR; dir_sdi() is only ever asked for offset 0. *)

DIR(sclust) ==
  [sclust |-> sclust, dptr |-> 0, clust |-> 0, sect |-> 0, fn |-> "", attr |-> "",
   noname |-> FALSE]

DirRet(v, d, res) == [v |-> v, d |-> d, res |-> res]

\* The entry in the window d points at.
At(d) == d.dptr % SS

dir_clear(v, c) ==
  LET Clear[n \in 0 .. v.csize] ==
        IF n = 0 THEN [sync_window(v) EXCEPT !.winsect = clst2sect(v, c), !.win = ZeroSector]
        ELSE disk_write(Clear[n - 1], clst2sect(v, c) + n - 1, ZeroSector)
  IN  Clear[v.csize]

dir_sdi(v, d) ==
  LET c == IF d.sclust = 0 /\ v.fs_type = 32 THEN v.dirbase ELSE d.sclust
      s == IF c = 0 THEN v.dirbase ELSE clst2sect(v, c)
  IN  DirRet(v, [d EXCEPT !.dptr = 0, !.clust = c, !.sect = s],
             IF s = 0 THEN "FR_INT_ERR" ELSE "FR_OK")

\* The read pointer moves on to cluster c and sector s.
To(v, d, c, s) == DirRet(v, [d EXCEPT !.dptr = @ + 1, !.clust = c, !.sect = s], "FR_OK")

\* new: what create_chain() returned for the directory d.
Stretched(new, d) ==
  CASE new.val = 0 -> DirRet(new.v, d, "FR_DENIED")
    [] new.val = 1 -> DirRet(new.v, d, "FR_INT_ERR")
    [] OTHER -> To(dir_clear(new.v, new.val), d, new.val, clst2sect(new.v, new.val))

\* next: what get_fat() returned for the last cluster of d.
NextCluster(next, d, stretch) ==
  CASE next.val <= 1            -> DirRet(next.v, d, "FR_INT_ERR")
    [] IsClst(next.v, next.val) -> To(next.v, d, next.val, clst2sect(next.v, next.val))
    [] OTHER -> IF stretch THEN Stretched(create_chain(next.v, d.clust), d)
                ELSE DirRet(next.v, d, "FR_NO_FILE")

dir_next(v, d, stretch) ==
  LET ofs == d.dptr + 1
  IN  CASE ofs % SS # 0 -> To(v, d, d.clust, d.sect)
        [] ofs % SS = 0 /\ d.clust = 0 ->
             IF ofs >= v.n_rootdir THEN DirRet(v, d, "FR_NO_FILE") ELSE To(v, d, 0, d.sect + 1)
        [] OTHER ->
             IF (ofs \div SS) % v.csize # 0 THEN To(v, d, d.clust, d.sect + 1)
             ELSE NextCluster(get_fat(v, d.clust), d, stretch)

\* More than the sectors of any file or directory: no loop over them goes on longer.
Rounds(v) == v.n_fatent * v.csize

\* The sector of d is in the window; "more": the search goes on.
LookAt(v, d, alloc) ==
  LET e   == v.win[At(d)]
      hit == IF alloc THEN e.name \in {"", "deleted"}
             ELSE e.name = d.fn /\ e.attr # "volume"
      More(n) == IF n.res = "FR_OK" THEN [n EXCEPT !.res = "more"] ELSE n
  IN  CASE hit                           -> DirRet(v, [d EXCEPT !.attr = e.attr], "FR_OK")
        [] ~hit /\ ~alloc /\ e.name = "" -> DirRet(v, d, "FR_NO_FILE")
        [] OTHER                         -> More(dir_next(v, d, alloc))

Look(r, alloc) ==
  IF r.res = "more" THEN LookAt(move_window(r.v, r.d.sect), r.d, alloc) ELSE r

\* The loop of dir_find(), or with alloc of dir_alloc().
Search(v, d, alloc) ==
  LET last == Rounds(v) * SS + v.n_rootdir
      Seen[n \in 0 .. last] ==
        IF n = 0 THEN DirRet(v, d, "more") ELSE Look(Seen[n - 1], alloc)
  IN  Seen[last]

dir_find(v, d) ==
  LET s == dir_sdi(v, d) IN IF s.res = "FR_OK" THEN Search(v, s.d, FALSE) ELSE s

\* s: what dir_sdi() returned; Denied: no entry found is no room for one.
Denied(r) == IF r.res = "FR_NO_FILE" THEN [r EXCEPT !.res = "FR_DENIED"] ELSE r

AllocOn(s) == IF s.res = "FR_OK" THEN Denied(Search(s.v, s.d, TRUE)) ELSE s

dir_alloc(v, d) == AllocOn(dir_sdi(v, d))

\* The sector of the free entry d is in the window.
Enter(v, d) ==
  DirRet([v EXCEPT !.win[At(d)] = Entry(d.fn, "", 0, 0), !.wflag = TRUE], d, "FR_OK")

RegisterAt(r) == IF r.res = "FR_OK" THEN Enter(move_window(r.v, r.d.sect), r.d) ELSE r

dir_register(v, d) == RegisterAt(dir_alloc(v, d))

\* The 11 bytes of a directory entry: upper case, 8 characters and 3, so that
\* different names may become one; Invalid if it does not fit or has other characters.
create_name(name) == Sfn[name]

\* f: what dir_find() returned for a segment of the path, the last one or another.
\* A dot entry that does not exist, as in the root directory, stays there.
Found(f, last) ==
  LET dot == f.d.fn \in {".", ".."}
      in  == [f.d EXCEPT !.sclust = f.v.win[At(f.d)].clust]
  IN  CASE f.res = "FR_OK" ->
             CASE last -> f
               [] ~last /\ f.d.attr # "dir" -> [f EXCEPT !.res = "FR_NO_PATH"]
               [] OTHER -> [f EXCEPT !.d = in]
        [] f.res = "FR_NO_FILE" ->
             CASE dot /\ last   -> [f EXCEPT !.res = "FR_OK", !.d.noname = TRUE]
               [] dot /\ ~last  -> [f EXCEPT !.res = "FR_OK"]
               [] ~dot /\ last  -> f
               [] OTHER         -> [f EXCEPT !.res = "FR_NO_PATH"]
        [] OTHER -> f

Enters(r, name, last) ==
  LET fn == create_name(name)
  IN  CASE r.res # "FR_OK"                    -> r
        [] r.res = "FR_OK" /\ fn = Invalid -> [r EXCEPT !.res = "FR_INVALID_NAME"]
        [] OTHER -> Found(dir_find(r.v, [r.d EXCEPT !.fn = fn]), last)

Walk(v, d, segs) ==
  LET Reach[i \in 0 .. Len(segs)] ==
        IF i = 0 THEN DirRet(v, d, "FR_OK") ELSE Enters(Reach[i - 1], segs[i], i = Len(segs))
  IN  Reach[Len(segs)]

follow_path(v, path) ==
  LET d == DIR(IF path.abs THEN 0 ELSE v.cdir)
  IN  IF path.segs = <<>> THEN [dir_sdi(v, d) EXCEPT !.d.noname = TRUE] ELSE Walk(v, d, path.segs)

-----------------------------------------------------------------------------
(* Mounting.  A boot sector is a record of what the code reads from it. *)

\* 0: a FAT boot sector, 2: another boot sector, 3: none.
Format(sector) == IF sector.fat THEN 0 ELSE IF sector.sig THEN 2 ELSE 3

check_fs(v, sect) ==
  LET w == move_window([v EXCEPT !.wflag = FALSE, !.winsect = -1], sect)
  IN  [v |-> w, fmt |-> Format(w.win)]

\* The first partition with a FAT volume, or else the last that was looked at.
FindPartition(v, lbas) ==
  LET used == {i \in DOMAIN lbas : lbas[i] # 0}
      hits == {i \in used : Format(v.card[lbas[i]]) < 2}
  IN  IF used = {} THEN [v |-> v, fmt |-> 3]
      ELSE check_fs(v, lbas[IF hits = {} THEN Max(used) ELSE Min(hits)])

find_volume(v) ==
  LET c == check_fs(v, 0) IN IF c.fmt = 2 THEN FindPartition(c.v, c.v.win.table) ELSE c

\* The tests of the boot sector b of a FAT volume, and what follows from it.
RootSectors(b) == b.root \div SS
SysSectors(b)  == b.rsv + b.fats * b.fsz + RootSectors(b)
Clusters(b)    == (b.tot - SysSectors(b)) \div b.spc
FatType(b)     == IF Clusters(b) <= MaxFat12 THEN 12
                  ELSE IF Clusters(b) <= MaxFat16 THEN 16 ELSE 32

Proper(b) ==
  /\ b.ss = SS /\ b.fats \in {1, 2} /\ b.spc \in {1, 2, 4, 8, 16, 32, 64, 128}
  /\ b.root % SS = 0 /\ b.rsv # 0
  /\ b.tot >= SysSectors(b) /\ Clusters(b) # 0
  /\ (b.root = 0) <=> (FatType(b) = 32)
  /\ b.fsz * SS >= Clusters(b) + 2

\* The volume whose boot sector is in the window.
LoadVolume(v) ==
  LET b    == v.win
      base == v.winsect
      type == FatType(b)
      u    == [v EXCEPT !.fs_type = type, !.id = @ + 1, !.n_fats = b.fats,
                        !.csize = b.spc, !.n_rootdir = b.root, !.fsize = b.fsz,
                        !.n_fatent = Clusters(b) + 2, !.volbase = base,
                        !.fatbase = base + b.rsv, !.database = base + SysSectors(b),
                        !.dirbase = IF type = 32 THEN b.rootclus
                                    ELSE base + b.rsv + b.fats * b.fsz,
                        !.last_clst = EOC, !.free_clst = EOC,
                        !.fsi_flag = "disabled", !.cdir = 0]
      w    == move_window(u, base + 1)
  IN  IF type = 32 /\ b.info
      THEN [w EXCEPT !.fsi_flag  = "clean",
                     !.free_clst = IF w.win.sig THEN w.win.free ELSE @,
                     !.last_clst = IF w.win.sig THEN w.win.last ELSE @]
      ELSE u

\* v.sd: whether sd_init() succeeds.  RES_ERROR is the bit STA_NOINIT.
mount_volume(v) ==
  LET u == [v EXCEPT !.fs_type = 0, !.stat = IF v.sd THEN "" ELSE @]
      Load(f) == IF f.fmt < 2 /\ Proper(f.v.win) THEN Ret(LoadVolume(f.v), "FR_OK")
                 ELSE Ret(f.v, "FR_NO_FILESYSTEM")
  IN  CASE v.fs_type # 0 /\ v.stat # "STA_NOINIT" -> Ret(v, "FR_OK")
        [] (v.fs_type = 0 \/ v.stat = "STA_NOINIT") /\ ~v.sd -> Ret(u, "FR_NOT_READY")
        [] OTHER -> Load(find_volume(u))

\* A path is never null and never names a drive: get_ldnumber() returns 0.
f_mount(v) == mount_volume([v EXCEPT !.fs_type = 0])
-----------------------------------------------------------------------------
(* Files and directories.  fp is a FIL.  The callers open a file either to   *)
(* read it or to create it, and then call f_read() or f_write() once.        *)

FIL == [fs |-> FALSE, id |-> 0, mode |-> "", modified |-> FALSE, dirty |-> FALSE,
        err |-> "FR_OK", dir_sect |-> 0, dir_ptr |-> 0, sclust |-> 0, objsize |-> 0,
        fptr |-> 0, clust |-> 0, sect |-> 0, buf |-> ZeroSector]

FileRet(v, fp, res) == [v |-> v, fp |-> fp, res |-> res]

validate(v, fp) == fp.fs /\ v.fs_type # 0 /\ fp.id = v.id /\ v.stat # "STA_NOINIT"

\* m: what mount_volume() returned; every function of this section begins with
\* it and with follow_path(), and returns the error of the one that fails.
Reached(m, path) ==
  IF m.res = "FR_OK" THEN follow_path(m.v, path) ELSE DirRet(m.v, DIR(0), m.res)

\* The file whose entry r points at.
\* mode: "read" is FA_READ, "create" is FA_WRITE | FA_CREATE_NEW.
Opened(r, mode) ==
  LET e == r.v.win[At(r.d)]
  IN  FileRet(r.v, [FIL EXCEPT !.fs = TRUE, !.id = r.v.id, !.mode = mode,
                      !.modified = mode = "create", !.dir_sect = r.v.winsect,
                      !.dir_ptr = At(r.d), !.sclust = e.clust, !.objsize = e.size],
              "FR_OK")

\* new: what dir_register() returned.
Created(new) ==
  IF new.res = "FR_OK"
  THEN Opened([new EXCEPT !.v.win[At(new.d)].attr = "file", !.v.wflag = TRUE], "create")
  ELSE FileRet(new.v, FIL, new.res)

\* Mutant of OpenAt: an existing file is opened for writing, as by FA_OPEN_ALWAYS.
OpenAt_again(at, mode) ==
  CASE at.res = "FR_OK" /\ at.d.noname -> FileRet(at.v, FIL, "FR_INVALID_NAME")
    [] at.res = "FR_OK" /\ ~at.d.noname ->
         IF at.d.attr = "dir"
         THEN FileRet(at.v, FIL, IF mode = "create" THEN "FR_DENIED" ELSE "FR_NO_FILE")
         ELSE Opened(at, mode)
    [] OTHER ->
         IF mode = "create" /\ at.res = "FR_NO_FILE" THEN Created(dir_register(at.v, at.d))
         ELSE FileRet(at.v, FIL, at.res)

\* at: where follow_path() has led.
OpenAt(at, mode) ==
  CASE at.res = "FR_OK" /\ at.d.noname -> FileRet(at.v, FIL, "FR_INVALID_NAME")
    [] at.res = "FR_OK" /\ ~at.d.noname ->
         IF mode = "create"
         THEN FileRet(at.v, FIL, IF at.d.attr = "dir" THEN "FR_DENIED" ELSE "FR_EXIST")
         ELSE IF at.d.attr = "dir" THEN FileRet(at.v, FIL, "FR_NO_FILE") ELSE Opened(at, mode)
    [] OTHER ->
         IF mode = "create" /\ at.res = "FR_NO_FILE" THEN Created(dir_register(at.v, at.d))
         ELSE FileRet(at.v, FIL, at.res)

f_open(v, path, mode) == OpenAt(Reached(mount_volume(v), path), mode)

\* One round of f_read(): r.n bytes are still to be read.  A run of whole sectors
\* is read one by one.
ReadOn(r) ==
  LET v     == r.v
      fp    == r.fp
      csect == (fp.fptr \div SS) % v.csize
      chain == CASE csect # 0                 -> [v |-> v, val |-> fp.clust]
                 [] csect = 0 /\ fp.fptr = 0 -> [v |-> v, val |-> fp.sclust]
                 [] OTHER                     -> get_fat(v, fp.clust)
      first == clst2sect(chain.v, chain.val)
      sect  == first + csect
      got   == [i \in 1 .. (IF r.n < SS THEN r.n ELSE SS) |-> v.card[sect][i - 1].name]
      next  == [fp EXCEPT !.fptr = @ + Len(got), !.clust = chain.val,
                          !.sect = IF r.n < SS THEN sect ELSE @,
                          !.buf  = IF r.n < SS THEN v.card[sect] ELSE @]
  IN  IF r.n = 0 \/ r.res # "FR_OK" THEN r
      ELSE IF chain.val < 2 \/ first = 0
           THEN [r EXCEPT !.v = chain.v, !.fp.err = "FR_INT_ERR", !.res = "FR_INT_ERR"]
           ELSE [r EXCEPT !.v = chain.v, !.fp = next, !.n = @ - Len(got), !.data = @ \o got]

ReadFrom(v, fp, n) ==
  LET Part[i \in 0 .. Rounds(v)] ==
        IF i = 0 THEN [v |-> v, fp |-> fp, res |-> "FR_OK", data |-> <<>>, n |-> n]
        ELSE ReadOn(Part[i - 1])
  IN  Part[Rounds(v)]

\* Mutant of f_read: it reads on behind the end of the file.
f_read_past(v, fp, btr) == ReadFrom(v, fp, btr)

f_read(v, fp, btr) ==
  LET remain == fp.objsize - fp.fptr
  IN  IF ~validate(v, fp) \/ fp.mode # "read"
      THEN [v |-> v, fp |-> fp, res |-> "FR_INVALID_OBJECT", data |-> <<>>]
      ELSE ReadFrom(v, fp, IF btr > remain THEN remain ELSE btr)

\* The cluster the file pointer is in, allocated if the chain has to grow.
ClusterFor(v, fp) ==
  CASE (fp.fptr \div SS) % v.csize # 0    -> [v |-> v, val |-> fp.clust]
    [] fp.fptr = 0 /\ fp.sclust # 0       -> [v |-> v, val |-> fp.sclust]
    [] OTHER -> create_chain(v, IF fp.fptr = 0 THEN 0 ELSE fp.clust)

\* One round of f_write() from a sector boundary on, with the cluster that
\* ClusterFor() returned; it stops when the volume is full, and what does not fill
\* a sector stays in fp.buf.
WriteTo(chain, r) ==
  LET fp    == r.fp
      data  == r.data
      v     == IF fp.dirty THEN disk_write(chain.v, fp.sect, fp.buf) ELSE chain.v
      sect  == clst2sect(chain.v, chain.val) + ((fp.fptr \div SS) % chain.v.csize)
      whole == Len(data) >= SS
      wcnt  == IF whole THEN SS ELSE Len(data)
      bytes == [i \in Cells |-> IF i < wcnt THEN Byte(data[i + 1]) ELSE fp.buf[i]]
      next  == [fp EXCEPT !.fptr = @ + wcnt, !.objsize = IF @ < fp.fptr + wcnt THEN fp.fptr + wcnt ELSE @,
                          !.clust = chain.val, !.sclust = IF @ = 0 THEN chain.val ELSE @,
                          !.dirty = ~whole, !.sect = IF whole THEN @ ELSE sect,
                          !.buf = IF whole THEN @ ELSE bytes]
  IN  CASE chain.val = 0 -> [r EXCEPT !.v = chain.v, !.data = <<>>]
        [] chain.val = 1 -> [r EXCEPT !.v = chain.v, !.fp.err = "FR_INT_ERR", !.res = "FR_INT_ERR"]
        [] OTHER -> [r EXCEPT !.v = IF whole THEN disk_write(v, sect, bytes) ELSE v, !.fp = next,
                              !.data = SubSeq(data, wcnt + 1, Len(data))]

WriteOn(r) == IF r.data = <<>> \/ r.res # "FR_OK" THEN r ELSE WriteTo(ClusterFor(r.v, r.fp), r)

WriteFrom(v, fp, data) ==
  LET Part[i \in 0 .. Rounds(v)] ==
        IF i = 0 THEN [v |-> v, fp |-> fp, res |-> "FR_OK", data |-> data] ELSE WriteOn(Part[i - 1])
  IN  Part[Rounds(v)]

f_write(v, fp, data) ==
  LET w == WriteFrom(v, fp, data)
  IN  IF ~validate(v, fp) \/ fp.mode # "create" THEN FileRet(v, fp, "FR_INVALID_OBJECT")
      ELSE FileRet(w.v, [w.fp EXCEPT !.modified = IF w.res = "FR_OK" THEN TRUE ELSE @], w.res)

f_sync(v, fp) ==
  LET b == IF fp.dirty THEN disk_write(v, fp.sect, fp.buf) ELSE v
      w == move_window(b, fp.dir_sect)
      u == [w EXCEPT !.win[fp.dir_ptr].clust = fp.sclust,
                     !.win[fp.dir_ptr].size = fp.objsize, !.wflag = TRUE]
  IN  IF ~validate(v, fp) THEN FileRet(v, fp, "FR_INVALID_OBJECT")
      ELSE IF ~fp.modified THEN FileRet(v, fp, "FR_OK")
      ELSE FileRet(sync_fs(u), [fp EXCEPT !.modified = FALSE, !.dirty = FALSE], "FR_OK")

\* Mutant of f_close: the file is closed without f_sync().
f_close_unsynced(v, fp) == FileRet(v, [fp EXCEPT !.fs = FALSE], "FR_OK")

f_close(v, fp) ==
  LET s == f_sync(v, fp)
  IN  IF s.res = "FR_OK" /\ validate(s.v, s.fp) THEN [s EXCEPT !.fp.fs = FALSE] ELSE s

ChangeTo(at) ==
  LET to == IF at.d.noname THEN at.d.sclust ELSE at.v.win[At(at.d)].clust
  IN  IF at.res = "FR_OK"
      THEN IF at.d.noname \/ at.d.attr = "dir" THEN Ret([at.v EXCEPT !.cdir = to], "FR_OK")
           ELSE Ret(at.v, "FR_NO_PATH")
      ELSE Ret(at.v, IF at.res = "FR_NO_FILE" THEN "FR_NO_PATH" ELSE at.res)

f_chdir(v, path) == ChangeTo(Reached(mount_volume(v), path))

\* Of the FILINFO that get_fileinfo() fills in, the callers look at the size.
Info(v, res, size) == [v |-> v, res |-> res, fsize |-> size]

InfoAt(at) ==
  CASE at.res # "FR_OK"                 -> Info(at.v, at.res, 0)
    [] at.res = "FR_OK" /\ at.d.noname -> Info(at.v, "FR_INVALID_NAME", 0)
    [] OTHER -> Info(at.v, "FR_OK", at.v.win[At(at.d)].size)

f_stat(v, path) == InfoAt(Reached(mount_volume(v), path))

\* reg: what dir_register() returned for the directory in cluster dcl.
Registered(reg, dcl) ==
  LET entry == Entry(reg.d.fn, "dir", dcl, 0)
  IN  IF reg.res = "FR_OK"
      THEN Ret(sync_fs([reg.v EXCEPT !.win[At(reg.d)] = entry, !.wflag = TRUE]), "FR_OK")
      ELSE Ret(remove_chain(reg.v, dcl), reg.res)

\* dcl: the cluster create_chain() returned for a directory to be registered at d.
MadeIn(dcl, d) ==
  LET dots == [dir_clear(dcl.v, dcl.val) EXCEPT
                 !.win[0] = Entry(".", "dir", dcl.val, 0),
                 !.win[1] = Entry("..", "dir", d.sclust, 0), !.wflag = TRUE]
  IN  CASE dcl.val = 0 -> Ret(dcl.v, "FR_DENIED")
        [] dcl.val = 1 -> Ret(dcl.v, "FR_INT_ERR")
        [] OTHER       -> Registered(dir_register(dots, d), dcl.val)

MakeAt(at) ==
  IF at.res = "FR_NO_FILE" THEN MadeIn(create_chain(at.v, 0), at.d)
  ELSE Ret(at.v, IF at.res = "FR_OK" THEN "FR_EXIST" ELSE at.res)

f_mkdir(v, path) == MakeAt(Reached(mount_volume(v), path))
=============================================================================
