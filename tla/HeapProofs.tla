----------------------------- MODULE HeapProofs -----------------------------
(***************************************************************************)
(* For every heap size and every number of boots: the blocks in use never  *)
(* overlap, and a page table is never put on a page that held data.        *)
(*                                                                         *)
(* free() clears the words after a one-page block, so neither follows from *)
(* malloc() and free() alone.  What makes the program safe is the shape of *)
(* the free pages: while vm_init() runs they are the top of the heap, so   *)
(* the struct vm and its first table are neighbours, and free() of the     *)
(* struct stops behind that table.  It leaves a hole of three pages, which *)
(* the next struct and first table fill again.                             *)
(***************************************************************************)
EXTENDS Heap, TLAPS

FreePages == {p \in PageNos : page_map[p] = "free"}

\* S is the top of the heap, down to some page.
Top(S) == \A p \in S : \A q \in PageNos : q >= p => q \in S

\* The hole that free() left, with everything free above its surroundings.
Hole(h) ==
  /\ h \in FreePages
  /\ \A p \in FreePages : h <= p
  /\ {h, h + 1, h + 2} \subseteq FreePages
  /\ stale \subseteq {h}
  /\ Top(FreePages \ {h, h + 1, h + 2})

Packed == stale = {} /\ Top(FreePages)

\* The struct vm that vm_init() is filling in, and its first table.
Struct == [first |-> new_vm, len |-> 1, use |-> "data", holder |-> "new"]
Lv1    == [first |-> new_vm + 1, len |-> 2, use |-> "table", holder |-> "new"]

StructMade ==
  /\ Struct \in blocks
  /\ page_map[new_vm] = "first"
  /\ \A p \in FreePages : new_vm < p

Lv1Made ==
  /\ StructMade
  /\ Lv1 \in blocks
  /\ new_vm + 2 \in PageNos
  /\ page_map[new_vm + 1] = "first"
  /\ page_map[new_vm + 2] = "last"

Shape ==
  /\ at = "boot" => Packed
  /\ at = "idle" => Packed \/ \E h \in PageNos : Hole(h)
  /\ at = "lv1" =>
       /\ StructMade
       /\ stale = {}
       /\ \/ FreePages = {p \in PageNos : new_vm < p}
          \/ /\ {new_vm + 1, new_vm + 2} \subseteq FreePages
             /\ Top(FreePages \ {new_vm + 1, new_vm + 2})
  /\ at \in {"vas", "load"} => Packed /\ Lv1Made
  /\ at = "map" => Packed
  /\ at = "run" => stale = {} \/ \E h \in PageNos : Hole(h)
  /\ at = "fault" => stale = {}

InCall == at \in {"lv1", "vas", "load", "map"} => boots > 0

\* Once the heap has been left nothing happens any more.
IInv ==
  /\ HeapTypeOK
  /\ InCall
  /\ Exclusive
  /\ stale \subseteq FreePages
  /\ ~wild => Shape

-----------------------------------------------------------------------------
(* What one allocation does *)

Got(b, n, use, holder) ==
  /\ FirstFit(b, n)
  /\ page_map' = malloc_fill_blocks_taken(b, n)
  /\ blocks' = blocks \cup {[first |-> b, len |-> n, use |-> use, holder |-> holder]}
  /\ stale' = stale \ (b .. b + n - 1)

\* An allocation keeps the blocks apart and takes its pages from the free ones.
LEMMA GotKeeps ==
  ASSUME HeapTypeOK, Exclusive, stale \subseteq FreePages,
         NEW b \in PageNos, NEW n \in Nat \ {0}, NEW use \in Uses, NEW holder \in Holders,
         Got(b, n, use, holder)
  PROVE  /\ Exclusive'
         /\ stale' \subseteq FreePages'
         /\ FreePages' = FreePages \ (b .. b + n - 1)
         /\ b .. b + n - 1 \subseteq FreePages
         /\ b + n <= TotalPages
         /\ page_map' \in [PageNos -> Marks]
         /\ stale' \in SUBSET PageNos
         /\ \A c \in blocks' :
              /\ c \in [first : PageNos, len : Nat \ {0}, use : Uses, holder : Holders]
              /\ c.first + c.len <= TotalPages
<1> DEFINE new == [first |-> b, len |-> n, use |-> use, holder |-> holder]
           got == b .. b + n - 1
<1> USE HeapAssumption
<1>1. got \subseteq FreePages /\ got \subseteq PageNos /\ b + n <= TotalPages
  BY DEF Got, FirstFit, Fits, FreePages, PageNos
<1>2. \A p \in PageNos : page_map'[p] = "free" <=> page_map[p] = "free" /\ p \notin got
  BY <1>1 DEF Got, malloc_fill_blocks_taken, FreePages, PageNos
<1>3. page_map' \in [PageNos -> Marks]
  BY DEF Got, malloc_fill_blocks_taken, HeapTypeOK, Marks
<1>4. FreePages' = FreePages \ got
  BY <1>2 DEF FreePages
<1>5. stale' \subseteq FreePages' /\ stale' \in SUBSET PageNos
  BY <1>4 DEF Got, HeapTypeOK
<1>6. new \in [first : PageNos, len : Nat \ {0}, use : Uses, holder : Holders]
  OBVIOUS
<1>7. \A c \in blocks' :
         /\ c \in [first : PageNos, len : Nat \ {0}, use : Uses, holder : Holders]
         /\ c.first + c.len <= TotalPages
  BY <1>1, <1>6 DEF Got, HeapTypeOK
<1>8. PagesOf(new) = got
  BY DEF PagesOf
<1>9. \A c \in blocks : PagesOf(c) \subseteq PageNos
  BY DEF HeapTypeOK, PagesOf, PageNos
<1>10. \A c \in blocks : PagesOf(c) \cap got = {}
  BY <1>1, <1>9 DEF Exclusive, FreePages
<1>11. \A c \in blocks' : \A p \in PagesOf(c) : page_map'[p] # "free"
  BY <1>1, <1>2, <1>8, <1>9 DEF Got, Exclusive
<1>12. \A c, d \in blocks' : PagesOf(c) \cap PagesOf(d) # {} => c = d
  BY <1>8, <1>10 DEF Got, Exclusive
<1> QED BY <1>1, <1>3, <1>4, <1>5, <1>7, <1>11, <1>12 DEF Exclusive

\* From the top of the heap an allocation takes the lowest pages.
LEMMA TopFit ==
  ASSUME Top(FreePages), NEW b \in PageNos, NEW n \in Nat \ {0}, FirstFit(b, n)
  PROVE  /\ \A p \in FreePages : b <= p
         /\ Top(FreePages \ (b .. b + n - 1))
<1> USE HeapAssumption
<1>1. b + n <= TotalPages /\ b \in FreePages
  BY DEF FirstFit, Fits, FreePages, PageNos
<1>2. ASSUME NEW p \in FreePages, p < b PROVE FALSE
  <2>1. p + n <= TotalPages /\ p \in PageNos
    BY <1>1, <1>2 DEF FreePages, PageNos
  <2>2. \A q \in p .. p + n - 1 : page_map[q] = "free"
    BY <2>1 DEF Top, FreePages, PageNos
  <2>3. p \in Fits(n)
    BY <2>1, <2>2 DEF Fits
  <2>4. b <= p
    BY <2>3 DEF FirstFit
  <2> QED BY <2>1, <2>4, <1>2 DEF PageNos
<1>3. \A p \in FreePages : b <= p
  BY <1>2 DEF FreePages, PageNos
<1> QED BY <1>3 DEF Top, FreePages, PageNos

\* Any call of malloc() keeps everything but the shape of the free pages.
LEMMA MallocKeeps ==
  ASSUME IInv, NEW n \in Nat \ {0}, NEW use \in Uses, NEW holder \in Holders,
         Malloc(n, use, holder), wild \in BOOLEAN,
         at' \in {"boot", "idle", "lv1", "vas", "load", "map", "run", "fault"},
         boots' \in 0 .. Boots, new_vm' \in PageNos
  PROVE  HeapTypeOK' /\ Exclusive' /\ stale' \subseteq FreePages'
<1>1. CASE \E b \in PageNos : Got(b, n, use, holder) /\ result' = b /\ wild' = wild
  <2>1. PICK b \in PageNos : Got(b, n, use, holder) /\ result' = b /\ wild' = wild
    BY <1>1
  <2>2. result' \in Int
    BY <2>1 DEF PageNos
  <2> QED BY <2>1, <2>2, GotKeeps DEF HeapTypeOK, IInv
<1>2. CASE /\ result' = -2 /\ wild' = TRUE
           /\ UNCHANGED <<page_map, blocks, stale>>
  <2>1. HeapTypeOK'
    BY <1>2 DEF HeapTypeOK, IInv
  <2>2. Exclusive'
    BY <1>2 DEF Exclusive, IInv, PagesOf
  <2> QED BY <2>1, <2>2, <1>2 DEF FreePages, IInv
<1> QED BY <1>1, <1>2 DEF Malloc, Got

\* The shape of the free pages depends on these three variables only.
LEMMA SameShape ==
  ASSUME IInv, UNCHANGED <<page_map, blocks, stale>>,
         at' \in {"boot", "idle", "lv1", "vas", "load", "map", "run", "fault"},
         boots' \in 0 .. Boots, new_vm' \in PageNos, result' \in Int, wild' \in BOOLEAN
  PROVE  /\ HeapTypeOK' /\ Exclusive' /\ stale' \subseteq FreePages'
         /\ FreePages' = FreePages
         /\ Packed => Packed'
         /\ \A h \in PageNos : Hole(h) => Hole(h)'
<1>1. FreePages' = FreePages
  BY DEF FreePages
<1>2. Packed => Packed'
  BY <1>1 DEF Packed, Top
<1>3. ASSUME NEW h \in PageNos, Hole(h) PROVE Hole(h)'
  BY <1>1, <1>3 DEF Hole, Top
<1>4. HeapTypeOK'
  BY DEF HeapTypeOK, IInv
<1>5. Exclusive'
  BY DEF Exclusive, IInv, PagesOf
<1> QED BY <1>1, <1>2, <1>3, <1>4, <1>5 DEF IInv

\* From a hole or from a packed heap, one page is the lowest free page.
LEMMA HoleFit ==
  ASSUME NEW h \in PageNos, Hole(h), NEW b \in PageNos, NEW n \in 1 .. 2, FirstFit(b, n)
  PROVE  b = h
<1> USE HeapAssumption
<1>1. h \in Fits(n)
  <2>1. h + 2 \in PageNos
    BY DEF Hole, FreePages
  <2>2. h + n <= TotalPages
    BY <2>1 DEF PageNos
  <2>3. ASSUME NEW p \in h .. h + n - 1 PROVE page_map[p] = "free"
    <3>1. p = h \/ p = h + 1
      BY <2>3 DEF PageNos
    <3> QED BY <3>1 DEF Hole, FreePages
  <2> QED BY <2>2, <2>3 DEF Fits
<1>2. b \in FreePages
  BY DEF FirstFit, Fits, FreePages, PageNos
<1> QED BY <1>1, <1>2 DEF Hole, FirstFit, PageNos

-----------------------------------------------------------------------------
(* The actions *)

\* heap_init(): every page is free.
LEMMA InitInv == HeapInit => IInv
<1> SUFFICES ASSUME HeapInit PROVE IInv
  OBVIOUS
<1> USE HeapAssumption DEF HeapInit
<1>1. HeapTypeOK
  <2>1. page_map \in [PageNos -> Marks]
    BY DEF Marks
  <2>2. new_vm \in PageNos /\ boots \in 0 .. Boots
    BY DEF PageNos
  <2>3. stale \in SUBSET PageNos /\ result \in Int
    OBVIOUS
  <2>5. wild \in BOOLEAN
    BY Zenon
  <2>4. \A b \in blocks :
          /\ b \in [first : PageNos, len : Nat \ {0}, use : Uses, holder : Holders]
          /\ b.first + b.len <= TotalPages
    OBVIOUS
  <2> QED BY <2>1, <2>2, <2>3, <2>4, <2>5 DEF HeapTypeOK
<1>2. Exclusive
  BY DEF Exclusive
<1>3. FreePages = PageNos
  BY DEF FreePages
<1>4. Shape
  BY <1>3 DEF Shape, Packed, Top
<1> QED BY <1>1, <1>2, <1>4 DEF IInv, InCall, HeapInit

\* An allocation from a packed heap leaves a packed heap.
LEMMA PackedKeeps ==
  ASSUME IInv, Packed, NEW b \in PageNos, NEW n \in Nat \ {0},
         NEW use \in Uses, NEW holder \in Holders, Got(b, n, use, holder)
  PROVE  Packed'
<1>1. FreePages' = FreePages \ (b .. b + n - 1)
  BY GotKeeps DEF IInv
<1>2. Top(FreePages \ (b .. b + n - 1))
  BY TopFit DEF Got, Packed
<1> QED BY <1>1, <1>2 DEF Packed, Got, Top

\* main() before any VM: pages from the bottom up.
LEMMA HypervisorAllocsInv == IInv /\ HypervisorAllocs => IInv'
<1> SUFFICES ASSUME IInv, HypervisorAllocs PROVE IInv'
  OBVIOUS
<1>1. PICK n \in 1 .. 2 : Malloc(n, "data", "other")
  BY DEF HypervisorAllocs
<1>2. HeapTypeOK' /\ Exclusive' /\ stale' \subseteq FreePages'
  BY <1>1, MallocKeeps DEF HypervisorAllocs, IInv, HeapTypeOK, Uses, Holders
<1>3. ASSUME ~wild' PROVE Packed'
  <2>1. PICK b \in PageNos : Got(b, n, "data", "other")
    BY <1>1, <1>3 DEF Malloc, Got
  <2>2. Packed
    BY DEF HypervisorAllocs, IInv, Shape
  <2> QED BY <2>1, <2>2, PackedKeeps DEF Uses, Holders
<1>4. at' = "boot"
  BY DEF HypervisorAllocs
<1> QED BY <1>2, <1>3, <1>4 DEF IInv, Shape, InCall, HypervisorAllocs

\* From here on the free pages are the top of the heap.
LEMMA HypervisorReadyInv == IInv /\ HypervisorReady => IInv'
<1> SUFFICES ASSUME IInv, HypervisorReady PROVE IInv'
  OBVIOUS
<1>1. HeapTypeOK' /\ Exclusive' /\ stale' \subseteq FreePages' /\ (Packed => Packed')
  BY SameShape DEF HypervisorReady, IInv, HeapTypeOK
<1> QED BY <1>1 DEF HypervisorReady, IInv, Shape, InCall

\* vm_init(): the struct takes the lowest free page, or the one left by a failed call.
LEMMA AllocStructInv == IInv /\ AllocStruct => IInv'
<1> SUFFICES ASSUME IInv, AllocStruct PROVE IInv'
  OBVIOUS
<1> USE HeapAssumption
<1>1. new_vm' \in PageNos
  BY DEF AllocStruct, Malloc, IInv, HeapTypeOK
<1>2. HeapTypeOK' /\ Exclusive' /\ stale' \subseteq FreePages'
  BY <1>1, MallocKeeps DEF AllocStruct, IInv, HeapTypeOK, Uses, Holders
<1>3. ASSUME ~wild' PROVE Shape'
  <2>1. PICK b \in PageNos : Got(b, 1, "data", "new") /\ result' = b
    BY <1>3 DEF AllocStruct, Malloc, Got
  <2>2. new_vm' = b /\ at' = "lv1"
    BY <2>1, <1>3 DEF AllocStruct
  <2>3. FreePages' = FreePages \ {b} /\ b \in FreePages
    <3>1. b .. b + 1 - 1 = {b}
      BY DEF PageNos
    <3>2. /\ FreePages' = FreePages \ (b .. b + 1 - 1)
          /\ b .. b + 1 - 1 \subseteq FreePages
      BY <2>1, GotKeeps DEF IInv, Uses, Holders
    <3> QED BY <3>1, <3>2
  <2>4. stale' = stale \ {b}
    BY <2>1 DEF Got, PageNos
  <2>5. Struct' \in blocks' /\ page_map'[new_vm'] = "first"
    BY <2>1, <2>2 DEF Got, Struct, malloc_fill_blocks_taken, PageNos
  <2>6. CASE Packed
    <3>1. /\ \A p \in FreePages : b <= p
          /\ Top(FreePages \ (b .. b + 1 - 1))
      BY <2>1, <2>6, TopFit DEF Got, Packed
    <3>2. FreePages' = {p \in PageNos : b < p}
      BY <3>1, <2>3, <2>6 DEF Top, Packed, FreePages, PageNos
    <3>3. stale' = {}
      BY <2>4, <2>6 DEF Packed
    <3>4. \A p \in FreePages' : new_vm' < p
      BY <3>2, <2>2
    <3> QED BY <2>2, <2>5, <3>2, <3>3, <3>4 DEF Shape, StructMade
  <2>7. CASE \E h \in PageNos : Hole(h)
    <3>1. PICK h \in PageNos : Hole(h)
      BY <2>7
    <3>2. b = h
      BY <3>1, <2>1, HoleFit DEF Got
    <3>3. {new_vm' + 1, new_vm' + 2} \subseteq FreePages' /\ stale' = {}
      BY <3>1, <3>2, <2>2, <2>3, <2>4 DEF Hole, PageNos
    <3>4. FreePages' \ {new_vm' + 1, new_vm' + 2} = FreePages \ {h, h + 1, h + 2}
      BY <3>2, <2>2, <2>3
    <3>5. Top(FreePages \ {new_vm + 1, new_vm + 2})'
      BY <3>1, <3>4 DEF Hole, Top
    <3>6. \A p \in FreePages' : new_vm' < p
      BY <3>1, <3>2, <2>2, <2>3 DEF Hole, FreePages, PageNos
    <3> QED BY <2>2, <2>5, <3>3, <3>5, <3>6 DEF Shape, StructMade
  <2> QED BY <2>6, <2>7 DEF AllocStruct, IInv, Shape
<1> QED BY <1>2, <1>3 DEF IInv, InCall, AllocStruct

\* The first table lies behind the struct.
LEMMA AllocLv1Inv == IInv /\ AllocLv1 => IInv'
<1> SUFFICES ASSUME IInv, AllocLv1 PROVE IInv'
  OBVIOUS
<1> USE HeapAssumption
<1>1. HeapTypeOK' /\ Exclusive' /\ stale' \subseteq FreePages'
  BY MallocKeeps DEF AllocLv1, IInv, HeapTypeOK, Uses, Holders
<1>2. ASSUME ~wild' PROVE Shape'
  <2>1. PICK b \in PageNos : Got(b, 2, "table", "new")
    BY <1>2 DEF AllocLv1, Malloc, Got
  <2>2. new_vm' = new_vm /\ at' = "vas" /\ new_vm \in PageNos
    BY DEF AllocLv1, IInv, HeapTypeOK
  <2>3. /\ StructMade
        /\ stale = {}
        /\ \/ FreePages = {p \in PageNos : new_vm < p}
           \/ /\ {new_vm + 1, new_vm + 2} \subseteq FreePages
              /\ Top(FreePages \ {new_vm + 1, new_vm + 2})
    BY DEF AllocLv1, IInv, Shape
  <2>4. /\ FreePages' = FreePages \ (b .. b + 2 - 1)
        /\ b .. b + 2 - 1 \subseteq FreePages
        /\ b + 2 <= TotalPages
    BY <2>1, GotKeeps DEF IInv, Uses, Holders
  <2>5. new_vm < b
    BY <2>3, <2>4 DEF StructMade, PageNos
  <2>6. b = new_vm + 1 /\ Top(FreePages')
    <3>1. new_vm + 1 \in PageNos /\ new_vm + 3 <= TotalPages
      BY <2>2, <2>4, <2>5 DEF PageNos
    <3>2. new_vm + 1 \in FreePages /\ new_vm + 2 \in FreePages
      BY <2>2, <2>3, <3>1 DEF PageNos
    <3>3. \A p \in new_vm + 1 .. new_vm + 1 + 2 - 1 : page_map[p] = "free"
      <4>1. \A p \in new_vm + 1 .. new_vm + 1 + 2 - 1 : p = new_vm + 1 \/ p = new_vm + 2
        BY <2>2 DEF PageNos
      <4> QED BY <4>1, <3>2 DEF FreePages
    <3>4. new_vm + 1 \in Fits(2)
      BY <3>1, <3>3, <2>2 DEF Fits, PageNos
    <3>5. b = new_vm + 1
      BY <3>4, <2>1, <2>2, <2>5 DEF Got, FirstFit, PageNos
    <3>6. b .. b + 2 - 1 = {new_vm + 1, new_vm + 2}
      BY <3>5, <2>2 DEF PageNos
    <3> QED BY <3>5, <3>6, <2>2, <2>3, <2>4 DEF Top, FreePages, PageNos
  <2>7. page_map'[new_vm] = "first" /\ page_map'[new_vm + 1] = "first" /\ page_map'[new_vm + 2] = "last"
    BY <2>1, <2>2, <2>3, <2>4, <2>6 DEF Got, malloc_fill_blocks_taken, StructMade, PageNos
  <2>8. Struct' \in blocks' /\ Lv1' \in blocks'
    BY <2>1, <2>2, <2>3, <2>6 DEF Got, StructMade, Struct, Lv1
  <2>9. new_vm + 2 \in PageNos
    BY <2>2, <2>4, <2>6 DEF PageNos
  <2>10. \A p \in FreePages' : new_vm < p
    BY <2>3, <2>4 DEF StructMade
  <2>11. stale' = {}
    BY <2>1, <2>3 DEF Got
  <2> QED BY <2>2, <2>6, <2>7, <2>8, <2>9, <2>10, <2>11 DEF Shape, Packed, Lv1Made, StructMade, Top
<1> QED BY <1>1, <1>2 DEF IInv, InCall, AllocLv1

\* The descriptor of the address space: the heap is packed again, hole or not.
LEMMA AllocVasInv == IInv /\ AllocVas => IInv'
<1> SUFFICES ASSUME IInv, AllocVas PROVE IInv'
  OBVIOUS
<1> USE HeapAssumption
<1>1. HeapTypeOK' /\ Exclusive' /\ stale' \subseteq FreePages'
  BY MallocKeeps DEF AllocVas, IInv, HeapTypeOK, Uses, Holders
<1>2. ASSUME ~wild' PROVE Shape'
  <2>1. PICK b \in PageNos : Got(b, 1, "data", "new")
    BY <1>2 DEF AllocVas, Malloc, Got
  <2>2. new_vm' = new_vm /\ at' = "load" /\ new_vm \in PageNos
    BY DEF AllocVas, IInv, HeapTypeOK
  <2>3. Packed /\ Lv1Made
    BY DEF AllocVas, IInv, Shape
  <2>4. Packed'
    BY <2>1, <2>3, PackedKeeps DEF Uses, Holders
  <2>5. FreePages' \subseteq FreePages /\ b .. b + 1 - 1 \subseteq FreePages
    BY <2>1, GotKeeps DEF IInv, Uses, Holders
  <2>6. b .. b + 1 - 1 = {b}
    BY DEF PageNos
  <2>7. \A p \in PageNos : p # b => page_map'[p] = page_map[p]
    BY <2>1, <2>6 DEF Got, malloc_fill_blocks_taken
  <2>8. b \notin {new_vm, new_vm + 1, new_vm + 2}
    BY <2>3, <2>5, <2>6 DEF Lv1Made, StructMade, FreePages
  <2>9. new_vm + 1 \in PageNos
    BY <2>2, <2>3 DEF Lv1Made, PageNos
  <2>10. StructMade'
    BY <2>1, <2>2, <2>3, <2>5, <2>7, <2>8 DEF Lv1Made, StructMade, Struct, Got
  <2>11. Lv1Made'
    BY <2>1, <2>2, <2>3, <2>7, <2>8, <2>9, <2>10 DEF Lv1Made, Lv1, Got
  <2> QED BY <2>2, <2>4, <2>11 DEF Shape
<1> QED BY <1>1, <1>2 DEF IInv, InCall, AllocVas

\* The failure path: free() of the struct takes the first table with it and
\* stops there, because nothing else lies on these three pages.
LEMMA OpenFailsInv == IInv /\ OpenFails => IInv'
<1> SUFFICES ASSUME IInv, OpenFails PROVE IInv'
  OBVIOUS
<1> USE HeapAssumption
<1>1. Packed /\ Lv1Made /\ new_vm \in PageNos /\ ~wild
  BY DEF OpenFails, IInv, Shape, HeapTypeOK
<1>2. new_vm' = new_vm /\ at' = "idle" /\ boots' \in 0 .. Boots
  BY DEF OpenFails, IInv, HeapTypeOK, InCall
<1>3. new_vm + 1 \in PageNos /\ new_vm + 2 \in PageNos
  BY <1>1 DEF Lv1Made, PageNos
<1>4. new_vm + 2 \in Stops(new_vm) /\ \A q \in Stops(new_vm) : new_vm + 2 <= q
  <2>1. new_vm + 2 \in Stops(new_vm)
    BY <1>1, <1>3 DEF Stops, Lv1Made, PageNos
  <2>2. new_vm \notin Stops(new_vm) /\ new_vm + 1 \notin Stops(new_vm)
    BY <1>1 DEF Stops, Lv1Made, StructMade
  <2>3. \A q \in Stops(new_vm) : q \in PageNos /\ new_vm <= q
    BY DEF Stops
  <2> QED BY <1>1, <2>1, <2>2, <2>3 DEF PageNos
<1>5. new_vm .. new_vm + 2 = {new_vm, new_vm + 1, new_vm + 2}
  BY <1>1 DEF PageNos
<1>6. /\ page_map' = [p \in PageNos |-> IF p \in {new_vm, new_vm + 1, new_vm + 2} THEN "free" ELSE page_map[p]]
      /\ stale' = stale \cup
           {p \in new_vm .. new_vm + 2 : \E d \in NewBlocks : d.use = "data" /\ p \in PagesOf(d)}
      /\ wild' = wild
      /\ blocks' = blocks \ NewBlocks
  <2>1. PICK s \in Stops(new_vm) :
          /\ \A q \in Stops(new_vm) : s <= q
          /\ page_map' = [p \in PageNos |-> IF p \in new_vm .. s THEN "free" ELSE page_map[p]]
          /\ stale' = stale \cup
               {p \in new_vm .. s : \E d \in NewBlocks : d.use = "data" /\ p \in PagesOf(d)}
          /\ wild' = wild
    BY <1>4 DEF OpenFails, Free
  <2>2. s = new_vm + 2
    BY <2>1, <1>1, <1>4 DEF Stops, PageNos
  <2> QED BY <2>1, <2>2, <1>5 DEF OpenFails, Free
<1>7. FreePages' = FreePages \cup {new_vm, new_vm + 1, new_vm + 2}
  BY <1>1, <1>3, <1>6 DEF FreePages
<1>8. Struct \in NewBlocks /\ Lv1 \in NewBlocks
  BY <1>1 DEF Lv1Made, StructMade, NewBlocks, Struct, Lv1
<1>9. PagesOf(Struct) = {new_vm} /\ PagesOf(Lv1) = {new_vm + 1, new_vm + 2}
  BY <1>1 DEF PagesOf, Struct, Lv1, PageNos
<1>10. \A c \in blocks : c # Struct /\ c # Lv1 => PagesOf(c) \cap {new_vm, new_vm + 1, new_vm + 2} = {}
  BY <1>8, <1>9 DEF IInv, Exclusive, NewBlocks
<1>11. \A c \in blocks : PagesOf(c) \subseteq PageNos
  BY DEF IInv, HeapTypeOK, PagesOf, PageNos
<1>12. Exclusive'
  <2>1. ASSUME NEW c \in blocks', NEW p \in PagesOf(c) PROVE page_map'[p] # "free"
    <3>1. c \in blocks /\ c # Struct /\ c # Lv1
      BY <1>6, <1>8, <2>1
    <3>2. p \notin {new_vm, new_vm + 1, new_vm + 2} /\ p \in PageNos
      BY <3>1, <1>10, <1>11, <2>1
    <3>3. page_map[p] # "free"
      BY <3>1, <2>1 DEF IInv, Exclusive
    <3> QED BY <3>2, <3>3, <1>6
  <2>2. \A c, d \in blocks' : PagesOf(c) \cap PagesOf(d) # {} => c = d
    BY <1>6 DEF IInv, Exclusive
  <2> QED BY <2>1, <2>2 DEF Exclusive, PagesOf
<1>13. stale' \subseteq {new_vm}
  <2>1. ASSUME NEW p \in {new_vm + 1, new_vm + 2}, NEW d \in NewBlocks,
               d.use = "data", p \in PagesOf(d)
        PROVE  FALSE
    <3>1. d = Lv1
      BY <2>1, <1>8, <1>9 DEF IInv, Exclusive, NewBlocks
    <3> QED BY <3>1, <2>1 DEF Lv1
  <2> QED BY <2>1, <1>1, <1>5, <1>6 DEF Packed
<1>14. Hole(new_vm)'
  <2>1. \A p \in FreePages' : new_vm <= p
    BY <1>1, <1>7 DEF Lv1Made, StructMade, FreePages, PageNos
  <2>2. FreePages' \ {new_vm, new_vm + 1, new_vm + 2} = FreePages
    <3>1. {new_vm, new_vm + 1, new_vm + 2} \cap FreePages = {}
      BY <1>1 DEF Lv1Made, StructMade, FreePages
    <3> QED BY <3>1, <1>7
  <2>3. Top(FreePages \ {new_vm, new_vm + 1, new_vm + 2})'
    BY <1>1, <1>2, <2>2 DEF Packed, Top
  <2> QED BY <1>2, <1>7, <1>13, <2>1, <2>3 DEF Hole
<1>15. HeapTypeOK'
  <2>1. page_map' \in [PageNos -> Marks]
    BY <1>6 DEF IInv, HeapTypeOK, Marks
  <2>2. stale' \in SUBSET PageNos
    BY <1>13, <1>1
  <2>3. \A c \in blocks' :
          /\ c \in [first : PageNos, len : Nat \ {0}, use : Uses, holder : Holders]
          /\ c.first + c.len <= TotalPages
    BY <1>6 DEF IInv, HeapTypeOK
  <2>4. result' \in Int /\ wild' \in BOOLEAN
    BY <1>6 DEF OpenFails, IInv, HeapTypeOK
  <2> QED BY <2>1, <2>2, <2>3, <2>4, <1>1, <1>2 DEF HeapTypeOK
<1> QED BY <1>1, <1>2, <1>7, <1>12, <1>13, <1>14, <1>15 DEF IInv, Shape, InCall, OpenFails

\* load_vm(): pages of the image.
LEMMA AllocImageInv == IInv /\ AllocImage => IInv'
<1> SUFFICES ASSUME IInv, AllocImage PROVE IInv'
  OBVIOUS
<1> USE HeapAssumption
<1>1. PICK n \in 1 .. ImagePages : Malloc(n, "data", "new")
  BY DEF AllocImage
<1>2. HeapTypeOK' /\ Exclusive' /\ stale' \subseteq FreePages'
  BY <1>1, MallocKeeps DEF AllocImage, IInv, HeapTypeOK, Uses, Holders
<1>3. ASSUME ~wild' PROVE Packed'
  <2>1. PICK b \in PageNos : Got(b, n, "data", "new")
    BY <1>1, <1>3 DEF Malloc, Got
  <2> QED BY <2>1, PackedKeeps DEF AllocImage, IInv, Shape, Uses, Holders
<1> QED BY <1>2, <1>3 DEF IInv, Shape, InCall, AllocImage

\* map_table(): tables of the image.
LEMMA AllocTableInv == IInv /\ AllocTable => IInv'
<1> SUFFICES ASSUME IInv, AllocTable PROVE IInv'
  OBVIOUS
<1>1. HeapTypeOK' /\ Exclusive' /\ stale' \subseteq FreePages'
  BY MallocKeeps DEF AllocTable, IInv, HeapTypeOK, Uses, Holders
<1>2. ASSUME ~wild' PROVE Packed'
  <2>1. PICK b \in PageNos : Got(b, 2, "table", "new")
    BY <1>2 DEF AllocTable, Malloc, Got
  <2> QED BY <2>1, PackedKeeps DEF AllocTable, IInv, Shape, Uses, Holders
<1> QED BY <1>1, <1>2 DEF IInv, Shape, InCall, AllocTable

\* A block that changes hands keeps its pages.
LEMMA ReleasedKeeps ==
  ASSUME HeapTypeOK, Exclusive
  PROVE  /\ \A c \in Released(blocks) :
              \E d \in blocks : c = [d EXCEPT !.holder = "other"] /\ PagesOf(c) = PagesOf(d)
         /\ \A c \in Released(blocks) :
              /\ c \in [first : PageNos, len : Nat \ {0}, use : Uses, holder : Holders]
              /\ c.first + c.len <= TotalPages
         /\ \A c, d \in Released(blocks) : PagesOf(c) \cap PagesOf(d) # {} => c = d
         /\ \A c \in Released(blocks) : \A p \in PagesOf(c) : p \in PageNos /\ page_map[p] # "free"
<1>1. ASSUME NEW c \in Released(blocks)
      PROVE  \E d \in blocks : c = [d EXCEPT !.holder = "other"] /\ PagesOf(c) = PagesOf(d)
  <2>1. PICK d \in blocks : c = [d EXCEPT !.holder = "other"]
    BY <1>1 DEF Released
  <2>2. c.first = d.first /\ c.len = d.len
    BY <2>1 DEF HeapTypeOK
  <2> QED BY <2>1, <2>2 DEF PagesOf
<1>2. ASSUME NEW c \in Released(blocks)
      PROVE  /\ c \in [first : PageNos, len : Nat \ {0}, use : Uses, holder : Holders]
             /\ c.first + c.len <= TotalPages
             /\ \A p \in PagesOf(c) : p \in PageNos /\ page_map[p] # "free"
  <2>1. PICK d \in blocks : c = [d EXCEPT !.holder = "other"] /\ PagesOf(c) = PagesOf(d)
    BY <1>1
  <2>2. c \in [first : PageNos, len : Nat \ {0}, use : Uses, holder : Holders]
    BY <2>1 DEF HeapTypeOK, Holders
  <2>3. c.first + c.len <= TotalPages
    BY <2>1 DEF HeapTypeOK
  <2>4. PagesOf(d) \subseteq PageNos
    BY HeapAssumption DEF HeapTypeOK, PagesOf, PageNos
  <2> QED BY <2>1, <2>2, <2>3, <2>4 DEF Exclusive
<1>3. ASSUME NEW c \in Released(blocks), NEW d \in Released(blocks),
             PagesOf(c) \cap PagesOf(d) # {}
      PROVE  c = d
  <2>1. PICK x \in blocks : c = [x EXCEPT !.holder = "other"] /\ PagesOf(c) = PagesOf(x)
    BY <1>1
  <2>2. PICK y \in blocks : d = [y EXCEPT !.holder = "other"] /\ PagesOf(d) = PagesOf(y)
    BY <1>1
  <2>3. x = y
    BY <2>1, <2>2, <1>3 DEF Exclusive
  <2> QED BY <2>1, <2>2, <2>3
<1> QED BY <1>1, <1>2, <1>3

\* vm_init() succeeds or gives its struct back, table and all.
LEMMA LoadedInv == IInv /\ Loaded => IInv'
<1> SUFFICES ASSUME IInv, Loaded PROVE IInv'
  OBVIOUS
<1> USE HeapAssumption
<1> DEFINE new(b) == [first |-> b, len |-> 1, use |-> "data", holder |-> "other"]
<1>1. Packed /\ at' = "idle" /\ boots' \in 0 .. Boots /\ new_vm' = new_vm /\ new_vm \in PageNos
  BY DEF Loaded, IInv, Shape, HeapTypeOK, InCall
<1>2. CASE \E b \in PageNos :
             /\ FirstFit(b, 1)
             /\ page_map' = malloc_fill_blocks_taken(b, 1)
             /\ blocks' = Released(blocks) \cup {new(b)}
             /\ stale' = stale \ {b}
             /\ result' = b
             /\ wild' = wild
  <2>1. PICK b \in PageNos :
             /\ FirstFit(b, 1)
             /\ page_map' = malloc_fill_blocks_taken(b, 1)
             /\ blocks' = Released(blocks) \cup {new(b)}
             /\ stale' = stale \ {b}
             /\ result' = b
             /\ wild' = wild
    BY <1>2
  <2>2. b .. b + 1 - 1 = {b} /\ b + 1 <= TotalPages
    BY DEF PageNos
  <2>3. b \in FreePages
    BY <2>1, <2>2 DEF FirstFit, Fits, FreePages
  <2>4. page_map' = [p \in PageNos |-> IF p = b THEN "first" ELSE page_map[p]]
    BY <2>1, <2>2 DEF malloc_fill_blocks_taken
  <2>5. FreePages' = FreePages \ {b}
    BY <2>3, <2>4 DEF FreePages
  <2>6. Packed'
    <3>1. Top(FreePages \ (b .. b + 1 - 1))
      BY <1>1, <2>1, TopFit DEF Packed
    <3> QED BY <3>1, <1>1, <2>1, <2>2, <2>5 DEF Packed, Top
  <2>7. PagesOf(new(b)) = {b}
    BY <2>2 DEF PagesOf
  <2>8. b \notin UNION {PagesOf(c) : c \in Released(blocks)}
    BY <2>3, ReleasedKeeps DEF FreePages, IInv
  <2>9. Exclusive'
    <3>1. \A c \in blocks' : \A p \in PagesOf(c) : page_map'[p] # "free"
      BY <2>1, <2>4, <2>7, ReleasedKeeps DEF IInv
    <3>2. \A c, d \in blocks' : PagesOf(c) \cap PagesOf(d) # {} => c = d
      BY <2>1, <2>7, <2>8, ReleasedKeeps DEF IInv
    <3> QED BY <3>1, <3>2 DEF Exclusive, PagesOf
  <2>10. HeapTypeOK'
    <3>1. \A c \in blocks' :
            /\ c \in [first : PageNos, len : Nat \ {0}, use : Uses, holder : Holders]
            /\ c.first + c.len <= TotalPages
      <4>1. new(b) \in [first : PageNos, len : Nat \ {0}, use : Uses, holder : Holders]
        BY DEF Uses, Holders
      <4> QED BY <4>1, <2>1, <2>2, ReleasedKeeps DEF IInv
    <3>2. page_map' \in [PageNos -> Marks]
      BY <2>4 DEF IInv, HeapTypeOK, Marks
    <3>3. stale' \in SUBSET PageNos /\ result' \in Int
      BY <2>1 DEF IInv, HeapTypeOK, PageNos
    <3>4. wild' \in BOOLEAN
      BY <2>1 DEF IInv, HeapTypeOK
    <3> QED BY <1>1, <3>1, <3>2, <3>3, <3>4 DEF HeapTypeOK
  <2> QED BY <1>1, <2>6, <2>9, <2>10 DEF IInv, Shape, InCall, Packed
<1>3. CASE /\ result' = -2 /\ wild' = TRUE
           /\ blocks' = Released(blocks)
           /\ UNCHANGED <<page_map, stale>>
  <2>1. Exclusive'
    BY <1>3, ReleasedKeeps DEF IInv, Exclusive, PagesOf
  <2>2. HeapTypeOK'
    BY <1>1, <1>3, ReleasedKeeps DEF IInv, HeapTypeOK
  <2> QED BY <1>1, <1>3, <2>1, <2>2 DEF IInv, InCall, FreePages
<1> QED BY <1>2, <1>3 DEF Loaded, Fits

\* main() enters the loop.
LEMMA BootDoneInv == IInv /\ StartScheduling => IInv'
<1> SUFFICES ASSUME IInv, StartScheduling PROVE IInv'
  OBVIOUS
<1>1. /\ HeapTypeOK' /\ Exclusive' /\ stale' \subseteq FreePages'
      /\ \A h \in PageNos : Hole(h) => Hole(h)'
  BY SameShape DEF StartScheduling, IInv, HeapTypeOK
<1>2. stale = {} \/ \E h \in PageNos : Hole(h)
  BY DEF StartScheduling, IInv, Shape, Packed
<1>3. stale' = {} \/ (\E h \in PageNos : Hole(h))'
  BY <1>1, <1>2 DEF StartScheduling, PageNos
<1> QED BY <1>1, <1>3 DEF IInv, Shape, InCall, StartScheduling

\* While guests run: the first page of the hole is the first to be taken.
LEMMA RunAlloc ==
  ASSUME IInv, stale = {} \/ \E h \in PageNos : Hole(h),
         NEW n \in 1 .. 2, NEW use \in Uses, Malloc(n, use, "other"), ~wild'
  PROVE  stale' = {}
<1>1. PICK b \in PageNos : Got(b, n, use, "other")
  BY DEF Malloc, Got
<1>2. CASE stale = {}
  BY <1>1, <1>2 DEF Got
<1>3. CASE \E h \in PageNos : Hole(h)
  <2>1. PICK h \in PageNos : Hole(h)
    BY <1>3
  <2>2. b = h
    BY <1>1, <2>1, HoleFit DEF Got
  <2>3. b \in b .. b + n - 1
    BY DEF PageNos
  <2> QED BY <1>1, <2>1, <2>2, <2>3 DEF Got, Hole
<1> QED BY <1>2, <1>3

\* What a handler takes and never returns.
LEMMA AllocTextInv == IInv /\ AllocText => IInv'
<1> SUFFICES ASSUME IInv, AllocText PROVE IInv'
  OBVIOUS
<1>1. HeapTypeOK' /\ Exclusive' /\ stale' \subseteq FreePages'
  BY MallocKeeps DEF AllocText, IInv, HeapTypeOK, Uses, Holders
<1>2. ASSUME ~wild' PROVE stale' = {}
  BY <1>2, RunAlloc DEF AllocText, IInv, Shape, Uses
<1> QED BY <1>1, <1>2 DEF IInv, Shape, InCall, AllocText

\* A fault of a guest: its page.
LEMMA FaultPageInv == IInv /\ FaultPage => IInv'
<1> SUFFICES ASSUME IInv, FaultPage PROVE IInv'
  OBVIOUS
<1>1. HeapTypeOK' /\ Exclusive' /\ stale' \subseteq FreePages'
  BY MallocKeeps DEF FaultPage, IInv, HeapTypeOK, Uses, Holders
<1>2. ASSUME ~wild' PROVE stale' = {}
  BY <1>2, RunAlloc DEF FaultPage, IInv, Shape, Uses
<1> QED BY <1>1, <1>2 DEF IInv, Shape, InCall, FaultPage

\* A fault of a guest: a table on the way to the page.
LEMMA FaultTableInv == IInv /\ FaultTable => IInv'
<1> SUFFICES ASSUME IInv, FaultTable PROVE IInv'
  OBVIOUS
<1>1. HeapTypeOK' /\ Exclusive' /\ stale' \subseteq FreePages'
  BY MallocKeeps DEF FaultTable, IInv, HeapTypeOK, Uses, Holders
<1>2. ASSUME ~wild' PROVE stale' = {}
  BY <1>2, RunAlloc DEF FaultTable, IInv, Shape, Uses
<1> QED BY <1>1, <1>2 DEF IInv, Shape, InCall, FaultTable

\* The fault has been handled.
LEMMA FaultDoneInv == IInv /\ FaultDone => IInv'
<1> SUFFICES ASSUME IInv, FaultDone PROVE IInv'
  OBVIOUS
<1>1. HeapTypeOK' /\ Exclusive' /\ stale' \subseteq FreePages'
  BY SameShape DEF FaultDone, IInv, HeapTypeOK
<1> QED BY <1>1 DEF IInv, Shape, InCall, FaultDone

\* Every step keeps the invariant.
LEMMA StepInv == IInv /\ [HeapNext]_heapVars => IInv'
<1> SUFFICES ASSUME IInv, [HeapNext]_heapVars PROVE IInv'
  OBVIOUS
<1>1. CASE UNCHANGED heapVars
  <2>1. /\ HeapTypeOK' /\ Exclusive' /\ stale' \subseteq FreePages'
        /\ FreePages' = FreePages
    BY <1>1, SameShape DEF heapVars, IInv, HeapTypeOK
  <2>2. Shape <=> Shape'
    BY <1>1, <2>1 DEF heapVars, Shape, Packed, Hole, Top, StructMade, Lv1Made, Struct, Lv1, PageNos
  <2> QED BY <1>1, <2>1, <2>2 DEF heapVars, IInv, InCall
<1> QED
  BY <1>1, HypervisorAllocsInv, HypervisorReadyInv, AllocStructInv, AllocLv1Inv,
     AllocVasInv, OpenFailsInv, AllocImageInv, AllocTableInv, LoadedInv, BootDoneInv,
     AllocTextInv, FaultPageInv, FaultTableInv, FaultDoneInv DEF HeapNext

-----------------------------------------------------------------------------
(* The theorems *)

\* The invariant above is inductive.
THEOREM Invariance == HeapSpec => []IInv
<1>1. HeapInit => IInv
  BY InitInv
<1>2. IInv /\ [HeapNext]_heapVars => IInv'
  BY StepInv
<1> QED BY <1>1, <1>2, PTL DEF HeapSpec

\* Type correctness of the heap (mm/mm.c): no block reaches out of page_map
\* as long as neither malloc() nor free() has left the heap.
THEOREM TypeCorrect == HeapSpec => []HeapTypeOK
<1>1. IInv => HeapTypeOK
  BY DEF IInv
<1> QED BY <1>1, Invariance, PTL

\* No page of a block in use is ever marked free or belongs to another block,
\* although free() (mm.c:42) runs on past the end of a one-page block.
THEOREM BlocksExclusive == HeapSpec => []Exclusive
<1>1. IInv => Exclusive
  BY DEF IInv
<1> QED BY <1>1, Invariance, PTL

FreshTables == \A b \in blocks' \ blocks : b.use = "table" => PagesOf(b) \cap stale = {}

\* Only calls that ask for a table add one, and they find no stale page.
LEMMA TableAlloc ==
  ASSUME IInv, stale = {} \/ ~\E b \in blocks' \ blocks : b.use = "table"
  PROVE  FreshTables
BY DEF FreshTables

\* An allocation of data makes no table.
LEMMA DataAlloc ==
  ASSUME NEW n \in Nat \ {0}, NEW holder \in Holders, Malloc(n, "data", holder)
  PROVE  ~\E b \in blocks' \ blocks : b.use = "table"
BY DEF Malloc

\* A table is made only by the two allocations that find fresh pages.
LEMMA StepFresh == IInv /\ [HeapNext]_heapVars => FreshTables
<1> SUFFICES ASSUME IInv, [HeapNext]_heapVars PROVE FreshTables
  OBVIOUS
<1>1. CASE AllocLv1
  BY <1>1, TableAlloc DEF AllocLv1, IInv, Shape
<1>2. CASE AllocTable
  BY <1>2, TableAlloc DEF AllocTable, IInv, Shape, Packed
<1>3. CASE FaultTable
  BY <1>3, TableAlloc DEF FaultTable, IInv, Shape
<1>4. CASE HypervisorAllocs \/ AllocStruct \/ AllocVas \/ AllocText \/ FaultPage
  BY <1>4, TableAlloc, DataAlloc DEF HypervisorAllocs, AllocStruct, AllocVas, AllocText,
     FaultPage, Holders
<1>5. CASE AllocImage
  BY <1>5, TableAlloc, DataAlloc DEF AllocImage, Holders
<1>6. CASE Loaded
  <2>1. stale = {}
    BY <1>6 DEF Loaded, IInv, Shape, Packed
  <2> QED BY <2>1, TableAlloc
<1>7. CASE HypervisorReady \/ OpenFails \/ StartScheduling \/ FaultDone \/ UNCHANGED heapVars
  BY <1>7, TableAlloc DEF HypervisorReady, OpenFails, Free, StartScheduling, FaultDone, heapVars
<1> QED BY <1>1, <1>2, <1>3, <1>4, <1>5, <1>6, <1>7 DEF HeapNext

\* map_table() (paging.c:35) never sees what free() left behind.
THEOREM FreshForTables == HeapSpec => TablesFresh
<1>1. IInv /\ [HeapNext]_heapVars => [FreshTables]_heapVars
  BY StepFresh
<1> QED BY <1>1, Invariance, PTL DEF HeapSpec, TablesFresh, FreshTables
=============================================================================
