-------------------------------- MODULE Heap --------------------------------
(***************************************************************************)
(* The page heap (mm/mm.c) under the calls the program really makes: the   *)
(* hypervisor's own structures (core/sched.c, shell/shell.c), vm_init()    *)
(* with its failure path (core/vm.c, mm/paging.c), which is the only       *)
(* caller of free(), and the handlers that allocate while guests run       *)
(* (core/sync.c, lib/src/stdlib.c, sse/sse.c).                             *)
(*                                                                         *)
(* page_map has one word per page.  free() is told an address, not a size: *)
(* it clears words until it has cleared a "last" page or meets a free one, *)
(* and the single page of a one-page block is marked "first", not "last".  *)
(* A request for n bytes takes n / PAGE_SIZE + 1 pages, so that a page     *)
(* table, or a page for a guest, takes two.                                *)
(***************************************************************************)
EXTENDS Integers, FiniteSets

CONSTANTS TotalPages, \* TOTAL_PAGES
          HeapLow,    \* HEAP_LOW / PAGE_SIZE
          Boots,      \* how many times main() calls vm_init()
          ImagePages  \* pages of the largest guest image

ASSUME HeapAssumption ==
  /\ TotalPages \in Nat \ {0}
  /\ HeapLow \in Nat
  /\ Boots \in Nat
  /\ ImagePages \in Nat \ {0}

VARIABLES
  page_map,  \* the marks of every page
  blocks,    \* the blocks somebody still has a pointer to
  stale,     \* free pages that once held data
  at,        \* where boot, vm_init() or a handler is
  boots,     \* calls of vm_init() still to come
  new_vm,    \* the page of the struct vm that vm_init() is filling in
  result,    \* the page number malloc() returned last
  wild       \* malloc() or free() has left the heap

heapVars == <<page_map, blocks, stale, at, boots, new_vm, result, wild>>

\* The page number of address 0, counted from HEAP_LOW.
Null == -HeapLow

PageNos == 0 .. TotalPages - 1
Marks   == {"free", "first", "middle", "last"}
Uses    == {"data", "table"}

\* Who holds a block: the VM that vm_init() is building, or anybody else.
Holders == {"new", "other"}

PagesOf(b) == b.first .. b.first + b.len - 1
Owned(bs)  == UNION {PagesOf(b) : b \in bs}

HeapTypeOK ==
  /\ page_map \in [PageNos -> Marks]
  /\ \A b \in blocks :
       /\ b \in [first : PageNos, len : Nat \ {0}, use : Uses, holder : Holders]
       /\ b.first + b.len <= TotalPages
  /\ stale \in SUBSET PageNos
  /\ at \in {"boot", "idle", "lv1", "vas", "load", "map", "run", "fault"}
  /\ boots \in 0 .. Boots
  /\ new_vm \in PageNos
  /\ result \in Int
  /\ wild \in BOOLEAN

\* heap_init().
HeapInit ==
  /\ page_map = [p \in PageNos |-> "free"]
  /\ blocks = {} /\ stale = {}
  /\ at = "boot" /\ boots = Boots
  /\ new_vm = 0 /\ result = 0 /\ wild = FALSE

-----------------------------------------------------------------------------
(* malloc() and free() *)

\* Mutant of Fits: the scan takes what lies behind the map for free pages.
FitsOpen(n) ==
  {b \in PageNos : \A p \in (b .. b + n - 1) \cap PageNos : page_map[p] = "free"}

\* The places where n free pages follow each other.  The scan reads the word
\* behind the map when it reaches the end; that word, the first entry of the
\* page directory (linker.ld), is not PAGE_FREE.
Fits(n) == {b \in PageNos : b + n <= TotalPages /\ \A p \in b .. b + n - 1 : page_map[p] = "free"}

\* Mutant of FirstFit: "i < block + pages_to_allocate - 1".
FirstFitShort(b, n) ==
  LET fits == {c \in PageNos :
                 c + n <= TotalPages /\ \A p \in c .. c + n - 2 : page_map[p] = "free"}
  IN  b \in fits /\ \A c \in fits : b <= c

FirstFit(b, n) == b \in Fits(n) /\ \A c \in Fits(n) : b <= c

malloc_fill_blocks_taken(b, n) ==
  [p \in PageNos |->
     IF p \notin b .. b + n - 1 THEN page_map[p]
     ELSE IF p = b THEN "first"
     ELSE IF p = b + n - 1 THEN "last"
     ELSE "middle"]

\* malloc() of n pages.  Failure is -ERR_MALLOC_FAIL as an unsigned number,
\* for which "block_allocated < 0" is false.
Malloc(n, use, holder) ==
  \/ \E b \in PageNos :
       /\ FirstFit(b, n)
       /\ page_map' = malloc_fill_blocks_taken(b, n)
       /\ blocks' = blocks \cup
                      {[first |-> b, len |-> n, use |-> use, holder |-> holder]}
       /\ stale' = stale \ (b .. b + n - 1)
       /\ result' = b
       /\ UNCHANGED wild
  \/ /\ Fits(n) = {}
     /\ result' = -2
     /\ wild' = TRUE
     /\ UNCHANGED <<page_map, blocks, stale>>

\* Where malloc_fill_blocks_free(b) may stop.
Stops(b) == {p \in PageNos : p >= b /\ page_map[p] \in {"last", "free"}}

\* free() of the block at b, after which nobody uses the blocks in dead.
Free(b, dead) ==
  /\ blocks' = blocks \ dead
  /\ \/ \E s \in Stops(b) :
          /\ \A q \in Stops(b) : s <= q
          /\ page_map' = [p \in PageNos |-> IF p \in b .. s THEN "free" ELSE page_map[p]]
          /\ stale' = stale \cup
               {p \in b .. s : \E d \in dead : d.use = "data" /\ p \in PagesOf(d)}
          /\ UNCHANGED wild
     \/ /\ Stops(b) = {}
        /\ wild' = TRUE
        /\ UNCHANGED <<page_map, stale>>

-----------------------------------------------------------------------------
(* Boot *)

\* sched_init(), shell_init() and add_shell_command(): one or two pages each.
HypervisorAllocs ==
  /\ ~wild /\ at = "boot"
  /\ \E n \in 1 .. 2 : Malloc(n, "data", "other")
  /\ UNCHANGED <<at, boots, new_vm>>

HypervisorReady ==
  /\ ~wild /\ at = "boot"
  /\ at' = "idle"
  /\ UNCHANGED <<page_map, blocks, stale, boots, new_vm, result, wild>>

\* vm_init(): the struct vm.
AllocStruct ==
  /\ ~wild /\ at = "idle" /\ boots > 0
  /\ Malloc(1, "data", "new")
  /\ new_vm' = IF wild' THEN new_vm ELSE result'
  /\ at' = "lv1"
  /\ UNCHANGED boots

\* create_virtual_address_space(): the first table, then its descriptor.
AllocLv1 ==
  /\ ~wild /\ at = "lv1"
  /\ Malloc(2, "table", "new")
  /\ at' = "vas"
  /\ UNCHANGED <<boots, new_vm>>

AllocVas ==
  /\ ~wild /\ at = "vas"
  /\ Malloc(1, "data", "new")
  /\ at' = "load"
  /\ UNCHANGED <<boots, new_vm>>

NewBlocks == {b \in blocks : b.holder = "new"}

\* load_vm() cannot open the image: free(_vm), and the other pointers to
\* what was allocated are gone with it.
OpenFails ==
  /\ ~wild /\ at = "load"
  /\ Free(new_vm, NewBlocks)
  /\ at' = "idle"
  /\ boots' = boots - 1
  /\ UNCHANGED <<new_vm, result>>

\* load_vm() opens the image and allocates room for it.
AllocImage ==
  /\ ~wild /\ at = "load"
  /\ \E n \in 1 .. ImagePages : Malloc(n, "data", "new")
  /\ at' = "map"
  /\ UNCHANGED <<boots, new_vm>>

\* map_virtual_address_space(): a table wherever map_table() finds none.
AllocTable ==
  /\ ~wild /\ at = "map"
  /\ Malloc(2, "table", "new")
  /\ UNCHANGED <<at, boots, new_vm>>

Released(bs) == {[b EXCEPT !.holder = "other"] : b \in bs}

\* The VM enters vmlist and its number is printed with itoa().
Loaded ==
  /\ ~wild /\ at = "map"
  /\ at' = "idle"
  /\ boots' = boots - 1
  /\ \/ \E b \in Fits(1) :
          /\ FirstFit(b, 1)
          /\ page_map' = malloc_fill_blocks_taken(b, 1)
          /\ blocks' = Released(blocks) \cup
               {[first |-> b, len |-> 1, use |-> "data", holder |-> "other"]}
          /\ stale' = stale \ {b}
          /\ result' = b
          /\ UNCHANGED wild
     \/ /\ Fits(1) = {}
        /\ result' = -2
        /\ wild' = TRUE
        /\ blocks' = Released(blocks)
        /\ UNCHANGED <<page_map, stale>>
  /\ UNCHANGED new_vm

StartScheduling ==
  /\ ~wild /\ at = "idle" /\ boots = 0
  /\ at' = "run"
  /\ UNCHANGED <<page_map, blocks, stale, boots, new_vm, result, wild>>

-----------------------------------------------------------------------------
(* While guests run *)

\* itoa() and the directory names of sse.c, which are never freed.
AllocText ==
  /\ ~wild /\ at = "run"
  /\ Malloc(1, "data", "other")
  /\ UNCHANGED <<at, boots, new_vm>>

\* Mutant of FaultPage: the tables are completed before the page is allocated.
FaultTableFirst ==
  /\ ~wild /\ at = "run"
  /\ Malloc(2, "table", "other")
  /\ at' = "fault"
  /\ UNCHANGED <<boots, new_vm>>

\* handle_sync_data_abort(): first the page for the guest ...
FaultPage ==
  /\ ~wild /\ at = "run"
  /\ Malloc(2, "data", "other")
  /\ at' = "fault"
  /\ UNCHANGED <<boots, new_vm>>

\* ... then the tables that map_page() finds missing.
FaultTable ==
  /\ ~wild /\ at = "fault"
  /\ Malloc(2, "table", "other")
  /\ UNCHANGED <<at, boots, new_vm>>

FaultDone ==
  /\ ~wild /\ at = "fault"
  /\ at' = "run"
  /\ UNCHANGED <<page_map, blocks, stale, boots, new_vm, result, wild>>

HeapNext ==
  \/ HypervisorAllocs \/ HypervisorReady
  \/ AllocStruct \/ AllocLv1 \/ AllocVas \/ OpenFails
  \/ AllocImage \/ AllocTable \/ Loaded \/ StartScheduling
  \/ AllocText \/ FaultPage \/ FaultTable \/ FaultDone

HeapSpec == HeapInit /\ [][HeapNext]_heapVars

-----------------------------------------------------------------------------
(* Properties *)

\* Nobody's memory is handed out twice: the blocks in use are disjoint and
\* all their pages are marked as taken.  free() clears whatever follows a
\* one-page block, so this rests on the order of the allocations in vm_init().
Exclusive ==
  /\ \A b \in blocks : \A p \in PagesOf(b) : page_map[p] # "free"
  /\ \A b, c \in blocks : PagesOf(b) \cap PagesOf(c) # {} => b = c

\* map_table() takes any non-zero word of a new table for an entry and nobody
\* clears tables, so a table must never be put on a page that held data.
TablesFresh ==
  [][\A b \in blocks' \ blocks : b.use = "table" => PagesOf(b) \cap stale = {}]_heapVars

\* malloc() returns the address of a page of the heap, or NULL when there is
\* no room (mm.c:84), which is what its callers test for (vm.c:103, sync.c:276).
FailureIsNull == result \in PageNos \cup {Null}
=============================================================================
