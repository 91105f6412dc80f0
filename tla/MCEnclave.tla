----------------------------- MODULE MCEnclave -----------------------------
(* Instances of Enclave: FAT32 cards with a partition table, one with room   *)
(* for both VMs and one nearly full, a FAT16 card without a partition table  *)
(* whose root directory has room for one more entry, and a card without a    *)
(* file system. Free clusters hold no directory entries: a directory is made *)
(* longer before its new cluster is cleared (dir_next(), ff.c:1786-1790), so *)
(* that after a loss of power what was there is read as entries.             *)
EXTENDS Enclave

\* "/F", "/?" and "/../f", and "F", which becomes the file VM_1F or VM_2F
\* of the root directory.
MCNames    == {<<"", "F">>, <<"", "?">>, <<"", "..", "f">>, <<"F">>}
MCContents == {<<"a">>, <<"b", "c", "d", "e">>}
MCImage    == <<"guests", "img">>
MCDirName  == <<"VM_1", "VM_2">>
MCSfn      == [n \in {"F", "f", "?", "..", "guests", "img", "VM_1", "VM_2", "VM_1F", "VM_2F"} |->
                CASE n = "?" -> Invalid [] n = "f" -> "F" [] OTHER -> n]

Sector(s) == [i \in Cells |-> IF i < Len(s) THEN s[i + 1] ELSE Zero]
Junk      == [i \in Cells |-> Byte("junk")]
ImageBytes == <<"i", "j", "k", "l">>
Dots(c, parent) == <<Entry(".", "dir", c, 0), Entry("..", "dir", parent, 0)>>
NoBoot    == [fat |-> FALSE, sig |-> FALSE]

\* FAT cells of a chain structure given as a function from clusters to cells.
FatSector(cells, n) == [i \in Cells |-> IF n * SS + i \in DOMAIN cells THEN cells[n * SS + i] ELSE 0]

\* Sector 0 partition table, 1 boot, 2 FSInfo, 3..6 FAT, 7..10 its copy, 11.. data:
\* cluster 2 root, 3 /guests, 4 and 5 the image, from 6 on the file /old.
Fat32(old) ==
  LET last  == 5 + old
      cells == [c \in 0 .. last |-> IF c = 4 \/ c \in 6 .. last - 1 THEN c + 1 ELSE EOC]
      boot  == [fat |-> TRUE, sig |-> TRUE, ss |-> SS, fats |-> 2, spc |-> 1, rsv |-> 2,
                root |-> 0, tot |-> 20, fsz |-> 4, rootclus |-> 2, info |-> TRUE]
  IN  [s \in 0 .. 20 |->
        CASE s = 0 -> [fat |-> FALSE, sig |-> TRUE, table |-> <<0, 1, 0, 0>>]
          [] s = 1 -> boot
          [] s = 2 -> [sig |-> TRUE, free |-> 6 - old, last |-> last]
          [] s \in 3 .. 10 -> FatSector(cells, (s - 3) % 4)
          [] s = 11 -> Sector(<<Entry("LABEL", "volume", 0, 0), Entry("guests", "dir", 3, 0),
                                Entry("old", "file", IF old = 0 THEN 0 ELSE 6, old * SS)>>)
          [] s = 12 -> Sector(Dots(3, 0) \o <<Entry("img", "file", 4, 4)>>)
          [] s = 13 -> [i \in Cells |-> Byte(ImageBytes[i + 1])]
          [] s = 14 -> Sector(<<Byte(ImageBytes[4])>>)
          [] OTHER -> Junk]

\* Sector 0 boot, 1..3 FAT, 4 root directory, 5.. data, two sectors a cluster.
Fat16 ==
  LET cells == (0 :> EOC) @@ (1 :> EOC) @@ (2 :> EOC) @@ (3 :> EOC)
      boot  == [fat |-> TRUE, sig |-> TRUE, ss |-> SS, fats |-> 1, spc |-> 2, rsv |-> 1,
                root |-> 3, tot |-> 17, fsz |-> 3, rootclus |-> 0, info |-> FALSE]
  IN  [s \in 0 .. 16 |->
        CASE s = 0 -> boot
          [] s \in 1 .. 3 -> FatSector(cells, s - 1)
          [] s = 4 -> Sector(<<Entry("LABEL", "volume", 0, 0), Entry("guests", "dir", 2, 0)>>)
          [] s = 5 -> Sector(Dots(2, 0) \o <<Entry("img", "file", 3, 4)>>)
          [] s = 7 -> [i \in Cells |-> Byte(ImageBytes[i + 1])]
          [] s = 8 -> Sector(<<Byte(ImageBytes[4])>>)
          [] OTHER -> Junk]

Blank == [s \in 0 .. 1 |-> NoBoot]

MCCards == {Fat32(0), Fat32(4), Fat16, Blank}
=============================================================================
