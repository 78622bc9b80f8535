-------------------------------- MODULE Vmm --------------------------------
(***************************************************************************)
(* Page tables (common/mm/vmm.c): what map_page() does to them, with       *)
(* get_next_level(), which splits a large page that a smaller one is put   *)
(* into.                                                                   *)
(*                                                                         *)
(* A pagemap is a pair of top level tables, one for each half of the       *)
(* virtual address space.  (On x86 and RISC-V both halves are in one       *)
(* table.)  A table is a function from indices to entries; as every table  *)
(* is freshly allocated and has one parent, an entry simply contains it.   *)
(* Level l maps pages of Size(l) bytes: 4 KiB, 2 MiB and 1 GiB are the     *)
(* levels 0, 1 and 2.                                                      *)
(***************************************************************************)
EXTENDS Integers, Sequences, SequencesExt

CONSTANTS
  Page,       \* bytes in a 4 KiB page
  Fanout      \* Fanout[l]: entries in a table of level l, from level 0 on

Levels == DOMAIN Fanout

(* page_sizes[] *)
Size(l) == LET size[k \in Levels] == IF k = 0 THEN Page ELSE size[k - 1] * Fanout[k - 1]
           IN  size[l]

(* The bytes in one half of the address space under n levels of tables     *)
HalfSpace(n) == Size(n - 1) * Fanout[n - 1]

Index(virt, l) == (virt \div Size(l)) % Fanout[l]

NoTable == << >>

Entry(kind, phys, flags, table) ==
  [kind |-> kind, phys |-> phys, flags |-> flags, table |-> table]

Absent == Entry("absent", 0, {}, NoTable)

Leaf(phys, flags) == Entry("page", phys, flags, NoTable)

Pointer(table) == Entry("table", 0, {}, table)

EmptyTable(l) == [k \in 0..(Fanout[l] - 1) |-> Absent]

AlignDown(x, a) == x - (x % a)

AlignUp(x, a) == AlignDown(x + (a - 1), a)
-----------------------------------------------------------------------------
(* What the processor finds at virt, from a table of level l down: the     *)
(* entry that ends the walk, and its level                                 *)
RECURSIVE Walk(_, _, _)
Walk(table, l, virt) ==
  LET e == table[Index(virt, l)]
  IN  IF e.kind = "table" THEN Walk(e.table, l - 1, virt) ELSE [level |-> l, entry |-> e]

Unmapped == [phys |-> 0, flags |-> {"unmapped"}]

(* The page that virt is translated to                                     *)
Translate(pagemap, levels, half, virt) ==
  LET w == Walk(pagemap[half], levels - 1, virt)
  IN  IF w.entry.kind = "absent" THEN Unmapped
      ELSE [phys |-> w.entry.phys + (virt % Size(w.level)), flags |-> w.entry.flags]

(* pte_addr(): the address in a large page's entry.  x86 keeps the PAT bit *)
(* of a large page, which VMM_FLAG_FB sets, within the address mask.       *)
pte_addr(e, arch) == e.phys + (IF arch = "x86" /\ "fb" \in e.flags THEN Page ELSE 0)

(* get_next_level() panics: "Unexpected page table entry address"          *)
SplitPanics(pagemap, levels, half, virt, size, arch) ==
  LET w == Walk(pagemap[half], levels - 1, virt)
  IN  /\ w.level > size /\ w.entry.kind = "page"
      /\ pte_addr(w.entry, arch) % Size(w.level) # 0

(* map_page() from a table of level l down, for a page size the processor  *)
(* has.  get_next_level() is the table below the entry: there already, or  *)
(* a new one, in which the large page found there is put together from     *)
(* pages of the wanted size.                                               *)
RECURSIVE PutPage(_, _, _, _, _, _)
RECURSIVE get_next_level(_, _, _, _)

(* Mutant: the rest of a large page that is split is lost *)
BugForgetsLargePage(e, l, virt, size) ==
  IF e.kind = "table" THEN e.table ELSE EmptyTable(l - 1)

get_next_level(e, l, virt, size) ==
  CASE e.kind = "table"  -> e.table
    [] e.kind = "absent" -> EmptyTable(l - 1)
    [] e.kind = "page"   ->
         LET pieces == [k \in 1..(Size(l) \div Size(size)) |-> (k - 1) * Size(size)]
             put(table, off) ==
               PutPage(table, l - 1, AlignDown(virt, Size(l)) + off, e.phys + off, e.flags, size)
         IN  FoldLeft(put, EmptyTable(l - 1), pieces)

PutPage(table, l, virt, phys, flags, size) ==
  [table EXCEPT ![Index(virt, l)] =
     IF l = size THEN Leaf(phys, flags)
     ELSE Pointer(PutPage(get_next_level(@, l, virt, size), l - 1, virt, phys, flags, size))]

(* The page size map_page() really uses                                    *)
UsedSize(size, largest) == IF size > largest THEN largest ELSE size

(* Where the pages of the size in use begin within a page of the size that *)
(* was asked for                                                           *)
Pieces(size, largest) ==
  LET used == Size(UsedSize(size, largest))
  IN  [k \in 1..(Size(size) \div used) |-> (k - 1) * used]

map_page(pagemap, levels, half, virt, phys, flags, size, largest) ==
  LET put(table, off) ==
        PutPage(table, levels - 1, virt + off, phys + off, flags, UsedSize(size, largest))
  IN  [pagemap EXCEPT ![half] = FoldLeft(put, @, Pieces(size, largest))]

(* Mutant: a large page may begin at physical address 0 on x86 too *)
BugLargeAtZero(phys, arch) == TRUE

LARGE_PAGE_PHYS_OK(phys, arch) == arch = "x86" => phys # 0

(* map_pages(): the size of the next page                                  *)
NextSize(virt, phys, left, arch) ==
  LET fits(l) == /\ LARGE_PAGE_PHYS_OK(phys, arch)
                 /\ phys % Size(l) = 0 /\ virt % Size(l) = 0 /\ left >= Size(l)
  IN  IF fits(2) THEN 2 ELSE IF fits(1) THEN 1 ELSE 0
=============================================================================
