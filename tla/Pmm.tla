-------------------------------- MODULE Pmm --------------------------------
(***************************************************************************)
(* The physical memory manager (common/mm/pmm.s2.c, BIOS build) on top of  *)
(* the memory map.  An operation begins when no loop over the map runs: it *)
(* picks a range and starts pmm_new_entry(), whose loop and the passes of  *)
(* pmm_sanitise_entries() that follow are the steps of Memmap.  Nothing    *)
(* else happens until they are through.                                    *)
(***************************************************************************)
EXTENDS Memmap

CONSTANTS
  E820Maps,      \* the memory maps init_e820() may have read
  Ebda, OneMiB,  \* the hole in conventional memory
  BssEnd,        \* the end of the boot loader in memory, page aligned
  FourGiB,       \* where allocations end unless high ones are allowed
  AllocTypes,    \* the types callers allocate memory as
  Sizes,         \* the sizes asked for
  Alignments,    \* the alignments asked for, whole pages
  Limits,        \* the limits callers of ..._below() set
  Fixed,         \* ranges wanted at their own address: <<base, length>>
  Tables         \* firmware tables and framebuffers: <<base, length, type>>

VARIABLES
  stage,     \* "self": init_memmap() is running; "ready": allocations allowed;
             \* "final": get_memmap() was called
  convBase,  \* conv_mem_alloc()'s static variable base
  live       \* history: the ranges handed out and not freed, [base, size, type]

pmmvars == <<stage, convBase, live>>

vars == <<mapvars, pmmvars>>

E820Types == {"usable", "reserved", "acpi_reclaimable", "acpi_nvs", "bad"}

ASSUME PmmConstants ==
  /\ \A m \in E820Maps :
       m \in Seq([base: Nat, length: Nat, type: E820Types]) /\ Len(m) <= MaxEntries
  /\ Ebda \in Nat /\ OneMiB \in Nat /\ FourGiB \in Nat /\ FourGiB <= AddrTop
  /\ BssEnd \in Nat /\ BssEnd % PageSize = 0 /\ PageSize < BssEnd /\ BssEnd < AddrTop
  /\ AllocTypes \subseteq MemTypes \ {"usable"}
  /\ Sizes \subseteq Nat /\ Limits \subseteq 0..AddrTop
  /\ Alignments \subseteq Nat \ {0} /\ \A a \in Alignments : a % PageSize = 0
  /\ \A r \in Fixed \cup Tables : r[1] \in Nat /\ r[2] \in Nat \ {0} /\ r[1] + r[2] < AddrTop
  /\ \A r \in Tables : r[3] \in {"reserved_mapped", "framebuffer"}

Loan(base, size, type) == [base |-> base, size |-> size, type |-> type]

Self == Loan(PageSize, BssEnd - PageSize, "bootloader")
-----------------------------------------------------------------------------
(* init_memmap(): entries that wrap are left out, and so is usable memory  *)
(* between the EBDA and 1 MiB, unless an entry spans all of it.  Lengths   *)
(* are 64 bits wide: an empty entry at 1 MiB becomes one that wraps.       *)
InHole(e) == e.type = "usable" /\ e.base >= Ebda /\ e.base < OneMiB

Imported(e) == ~Wraps(e) /\ ~(InHole(e) /\ Top(e) <= OneMiB)

Import(e) ==
  CASE InHole(e) -> Span(OneMiB, Top(e), e.type)
    [] e.type = "usable" /\ ~InHole(e) /\ Top(e) > Ebda /\ Top(e) <= OneMiB
         -> Entry(e.base, (Ebda - e.base) % AddrTop, e.type)
    [] OTHER -> e

(* The places of the entries it takes over, in their order                 *)
ImportOrder(m) ==
  LET kept == {k \in 1..Len(m) : Imported(m[k])}
  IN  {f \in UNION {[1..n -> kept] : n \in 0..Len(m)} :
         /\ \A k, n \in DOMAIN f : k < n => f[k] < f[n]
         /\ \A k \in kept : \E n \in DOMAIN f : f[n] = k}

Init ==
  /\ \E m \in E820Maps : \E f \in ImportOrder(m) :
       memmap = [k \in DOMAIN f |-> Import(m[f[k]])]
  /\ phase = "clip" /\ i = 1 /\ j = 1 /\ passes = 0 /\ align = FALSE
  /\ ins = Entry(0, 0, "usable")
  /\ stage = "self" /\ convBase = PageSize /\ live = {}

(* memmap_alloc_range(): some one entry must hold the whole range; overlay *)
(* is a set of types                                                       *)
AllocRangeOK(base, top, overlay) ==
  \E k \in 1..Len(memmap) :
    /\ memmap[k].type \in overlay /\ ~Wraps(memmap[k])
    /\ base >= memmap[k].base /\ base < Top(memmap[k]) /\ top <= Top(memmap[k])

(* init_memmap(): the boot loader itself, then allocations are allowed     *)
AllocSelf ==
  /\ stage = "self" /\ phase = "idle"
  /\ AllocRangeOK(PageSize, BssEnd, MemTypes)
  /\ StartInsert(PageSize, BssEnd - PageSize, "bootloader", 1)
  /\ stage' = "ready" /\ live' = {Self}
  /\ UNCHANGED convBase

AllocSelfFails ==
  /\ stage = "self" /\ phase = "idle"
  /\ ~AllocRangeOK(PageSize, BssEnd, MemTypes)
  /\ Panic
  /\ UNCHANGED pmmvars
-----------------------------------------------------------------------------
Ready == stage = "ready" /\ phase = "idle"

(* A zero-size request still owns storage *)
Rounded(count, alignment) == AlignUp(IF count = 0 THEN 1 ELSE count, alignment)

(* The entry's end, as far as the limit allows *)
Cut(k, limit) == IF Top(memmap[k]) > limit THEN limit ELSE Top(memmap[k])

(* Mutant: the base is rounded up, not down *)
BugRoundsBaseUp(k, size, alignment, limit) == AlignUp(Cut(k, limit) - size, alignment)

TopDownBase(k, size, alignment, limit) == AlignDown(Cut(k, limit) - size, alignment)

(* The usable entries with room below the limit *)
Fitting(size, alignment, limit) ==
  {k \in 1..Len(memmap) :
     /\ memmap[k].type = "usable" /\ ~Wraps(memmap[k])
     /\ memmap[k].base < Cut(k, limit) /\ Cut(k, limit) - memmap[k].base >= size
     /\ TopDownBase(k, size, alignment, limit) >= memmap[k].base}

(* ext_mem_alloc_impl(): below 4 GiB, else anywhere if high memory will do *)
ExtLimit(size, alignment, high) ==
  IF high /\ Fitting(size, alignment, FourGiB) = {} THEN AddrTop ELSE FourGiB

(* Top down, and everything up to the entry's end is taken                 *)
ext_mem_alloc(count, type, alignment, high) ==
  /\ Ready
  /\ LET size == Rounded(count, alignment)
         limit == ExtLimit(size, alignment, high)
     IN  \E k \in Fitting(size, alignment, limit) :
           LET base == TopDownBase(k, size, alignment, limit)
           IN  /\ \A n \in Fitting(size, alignment, limit) : n <= k
               /\ StartInsert(base, Cut(k, limit) - base, type, 1)
               /\ live' = live \cup {Loan(base, size, type)}
  /\ UNCHANGED <<stage, convBase>>

(* "High memory allocator: Out of memory". (ext_mem_alloc_nopanic()        *)
(* returns NULL and changes nothing.)                                      *)
ExtMemFails(count, alignment, high) ==
  /\ Ready
  /\ LET size == Rounded(count, alignment)
     IN  Fitting(size, alignment, ExtLimit(size, alignment, high)) = {}
  /\ Panic
  /\ UNCHANGED pmmvars

BottomUpBase(k, alignment) == AlignUp(memmap[k].base, alignment)

FittingUp(size, alignment, limit) ==
  {k \in 1..Len(memmap) :
     /\ memmap[k].type = "usable" /\ ~Wraps(memmap[k])
     /\ memmap[k].base < Cut(k, limit) /\ Cut(k, limit) - memmap[k].base >= size
     /\ BottomUpBase(k, alignment) <= Cut(k, limit) - size}

FittingBelow(size, alignment, limit, bottomUp) ==
  IF bottomUp THEN FittingUp(size, alignment, limit) ELSE Fitting(size, alignment, limit)

(* ext_mem_alloc_type_aligned_below(): exactly the size is taken           *)
alloc_below(count, type, alignment, limit, bottomUp) ==
  /\ Ready
  /\ LET size == Rounded(count, alignment)
         fit == FittingBelow(size, alignment, limit, bottomUp)
     IN  \E k \in fit :
           LET base == IF bottomUp THEN BottomUpBase(k, alignment)
                       ELSE TopDownBase(k, size, alignment, limit)
           IN  /\ \A n \in fit : IF bottomUp THEN k <= n ELSE n <= k
               /\ StartInsert(base, size, type, 1)
               /\ live' = live \cup {Loan(base, size, type)}
  /\ UNCHANGED <<stage, convBase>>

AllocBelowFails(count, alignment, limit, bottomUp) ==
  /\ Ready
  /\ FittingBelow(Rounded(count, alignment), alignment, limit, bottomUp) = {}
  /\ Panic
  /\ UNCHANGED pmmvars

(* conv_mem_alloc(): the first page from convBase on where the range fits  *)
ConvFits(base, size) == AllocRangeOK(base, base + size, {"usable"})

conv_mem_alloc(count) ==
  /\ Ready
  /\ LET size == Rounded(count, PageSize)
     IN  \E base \in convBase..OneMiB :
           /\ base % PageSize = 0 /\ base + size <= OneMiB
           /\ ConvFits(base, size)
           /\ \A b \in convBase..(base - 1) : b % PageSize = 0 => ~ConvFits(b, size)
           /\ StartInsert(base, size, "bootloader", 1)
           /\ live' = live \cup {Loan(base, size, "bootloader")}
           /\ convBase' = base + size
  /\ UNCHANGED stage

ConvMemFails(count) ==
  /\ Ready
  /\ LET size == Rounded(count, PageSize)
     IN  \A b \in convBase..OneMiB : b % PageSize = 0 /\ b + size <= OneMiB => ~ConvFits(b, size)
  /\ Panic
  /\ UNCHANGED pmmvars
-----------------------------------------------------------------------------
(* memmap_alloc_range() of usable memory at a given address. It may say no *)
ClaimRange(base, length, type) ==
  /\ Ready
  /\ AllocRangeOK(base, base + length, {"usable"})
  /\ StartInsert(base, length, type, 0)
  /\ live' = live \cup {Loan(base, length, type)}
  /\ UNCHANGED <<stage, convBase>>

(* Mutant: one page too many is given back *)
BugFreesTooMuch(l) ==
  /\ Ready
  /\ l # Self /\ l.base % PageSize = 0
  /\ StartInsert(l.base, AlignUp(l.size + 1, PageSize), "usable", 0)
  /\ live' = live \ {l}
  /\ UNCHANGED <<stage, convBase>>

(* pmm_free(): the caller gives back the pages it asked for, all of what   *)
(* the allocation was rounded to or fewer.  The boot loader stays.         *)
pmm_free(l) ==
  /\ Ready
  /\ l # Self /\ l.base % PageSize = 0
  /\ \E count \in 1..l.size :
       /\ count % PageSize = 0
       /\ StartInsert(l.base, count, "usable", 0)
  /\ live' = live \ {l}
  /\ UNCHANGED <<stage, convBase>>

(* memmap_alloc_range(..., new_entry = true) of a firmware table or of a   *)
(* framebuffer. They are not in memory that the boot loader was given.     *)
MapTable(base, length, type) ==
  /\ Ready
  /\ \A l \in live : base + length <= l.base \/ l.base + l.size <= base
  /\ StartInsert(base, length, type, 0)
  /\ UNCHANGED pmmvars

(* protos/limine.c cuts usable memory to whole pages before it builds page *)
(* tables                                                                  *)
SanitiseAligned ==
  /\ Ready
  /\ StartSanitise(TRUE, 0)
  /\ UNCHANGED pmmvars

get_memmap ==
  /\ Ready
  /\ StartSanitise(TRUE, 0)
  /\ stage' = "final"
  /\ UNCHANGED <<convBase, live>>

LoopStep == MapStep /\ UNCHANGED pmmvars

Operation ==
  \/ AllocSelf \/ AllocSelfFails
  \/ \E count \in Sizes :
       \/ \E alignment \in Alignments, type \in AllocTypes :
            \/ \E high \in BOOLEAN : ext_mem_alloc(count, type, alignment, high)
            \/ \E limit \in Limits, bottomUp \in BOOLEAN :
                 alloc_below(count, type, alignment, limit, bottomUp)
       \/ \E alignment \in Alignments :
            \/ \E high \in BOOLEAN : ExtMemFails(count, alignment, high)
            \/ \E limit \in Limits, bottomUp \in BOOLEAN :
                 AllocBelowFails(count, alignment, limit, bottomUp)
       \/ conv_mem_alloc(count) \/ ConvMemFails(count)
  \/ \E r \in Fixed : ClaimRange(r[1], r[2], "kernel")
  \/ \E l \in live : pmm_free(l)
  \/ \E r \in Tables : MapTable(r[1], r[2], r[3])
  \/ SanitiseAligned \/ get_memmap

Next == LoopStep \/ Operation

Spec == Init /\ [][Next]_vars

(* The loops run on by themselves; nobody has to call the allocator *)
FairSpec == Spec /\ WF_vars(LoopStep)
-----------------------------------------------------------------------------
(* Queries of the map.                                                     *)

(* pmm_check_type(): the first entry that holds the address; 0 for none    *)
pmm_check_type(a) ==
  LET holding == {k \in 1..Len(memmap) : ~Wraps(memmap[k]) /\ Covers(memmap[k], a)}
  IN  IF holding = {} THEN "none"
      ELSE memmap[CHOOSE k \in holding : \A n \in holding : k <= n].type

RamTypes == {"usable", "bootloader", "kernel"}

Counted(k) == memmap[k].type \in RamTypes /\ ~Wraps(memmap[k])

(* Mutant: what an entry holds above the range is counted too *)
BugOverlapUnclamped(k, base, top) ==
  IF Counted(k) /\ memmap[k].base < top /\ Top(memmap[k]) > base
  THEN Top(memmap[k]) - (IF memmap[k].base > base THEN memmap[k].base ELSE base)
  ELSE 0

(* How much of base .. top - 1 entry k holds *)
Overlap(k, base, top) ==
  IF Counted(k) /\ memmap[k].base < top /\ Top(memmap[k]) > base
  THEN (IF Top(memmap[k]) < top THEN Top(memmap[k]) ELSE top)
         - (IF memmap[k].base > base THEN memmap[k].base ELSE base)
  ELSE 0

(* mmap_get_info(): the frontier moves over the entries that reach across  *)
(* it, over and over, until a round moves it no further                    *)
Frontier(m, start) ==
  LET moved[r \in 0..Len(m), k \in 0..Len(m)] ==
        CASE r = 0 -> start
          [] r > 0 /\ k = 0 -> moved[r - 1, Len(m)]
          [] OTHER -> LET at == moved[r, k - 1]
                      IN  IF /\ m[k].type = "usable" /\ ~Wraps(m[k])
                             /\ m[k].base <= at /\ Top(m[k]) > at
                          THEN Top(m[k]) ELSE at
  IN  moved[Len(m), Len(m)]

mmap_get_info(m) ==
  [lowermem |-> IF Frontier(m, 0) > OneMiB THEN OneMiB ELSE Frontier(m, 0),
   uppermem |-> Frontier(m, OneMiB) - OneMiB]

(* check_usable_memory(): one entry holds all of it, or the overlaps met   *)
(* so far add up to it                                                     *)
check_usable_memory(base, top) ==
  LET remaining[k \in 0..Len(memmap)] ==
        IF k = 0 THEN top - base ELSE remaining[k - 1] - Overlap(k, base, top)
  IN  \E k \in 1..Len(memmap) :
        /\ Counted(k)
        /\ \/ base >= memmap[k].base /\ base < Top(memmap[k]) /\ top <= Top(memmap[k])
           \/ Overlap(k, base, top) > 0 /\ remaining[k] = 0
-----------------------------------------------------------------------------
Addresses == 0..(AddrTop - 1)

Cells(l) == l.base..(l.base + l.size - 1)

(* No memory is handed out twice, and what was handed out, the boot        *)
(* loader's own image included, keeps its type through every loop over the *)
(* map until it is freed: never usable, never another entry's.             *)
LoansAreExclusive ==
  /\ \A l \in live : \A a \in Cells(l) : Owners(a) = {l.type}
  /\ \A l, k \in live : l # k => Cells(l) \cap Cells(k) = {}

Promise ==
  INSTANCE AddressSpace WITH
    Addr <- Addresses, Types <- MemTypes, owner <- [a \in Addresses |-> Settled(a)]

(* Every operation has, on every address, just the effect the allocator    *)
(* promises, at the moment it starts; the loops change nothing but give up *)
(* usable memory outside whole pages or in the first page.                 *)
KeepsPromise == Promise!Spec

(* pmm_check_type() and check_usable_memory(), which adds up overlaps as   *)
(* if RAM entries never overlapped, answer as a look at every address      *)
(* would.                                                                  *)
QueriesAgree ==
  Ready =>
    /\ \A a \in Addresses :
         LET type == pmm_check_type(a)
         IN  IF Owners(a) = {} THEN type = "none" ELSE type \in Owners(a)
    /\ \A base, top \in Addresses : base < top =>
         (check_usable_memory(base, top)
            <=> \A a \in base..(top - 1) : Owners(a) \cap RamTypes # {})
=============================================================================
