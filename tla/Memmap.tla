------------------------------- MODULE Memmap -------------------------------
(***************************************************************************)
(* The memory map (common/mm/pmm.s2.c): pmm_new_entry(), which puts a      *)
(* range into it, and pmm_sanitise_entries(), which takes from the usable  *)
(* entries whatever another entry covers, drops empty entries, sorts, and  *)
(* merges neighbours.                                                      *)
(*                                                                         *)
(* Both rewrite the array in place while they walk it, so a step here is   *)
(* one turn of one of their loops.  Indices count from 1.  C's             *)
(* CHECKED_ADD() is Wraps(): an end that does not fit 64 bits.             *)
(***************************************************************************)
EXTENDS Integers, Sequences

CONSTANTS
  PageSize,        \* PAGE_SIZE, and the end of the first page
  AddrTop,         \* 2^64
  MaxEntries,      \* memmap_max_entries
  KeepFirstPage    \* pmm_sanitiser_keep_first_page: FALSE on BIOS

ASSUME MemmapConstants ==
  /\ PageSize \in Nat \ {0}
  /\ AddrTop \in Nat /\ PageSize < AddrTop /\ AddrTop % PageSize = 0
  /\ MaxEntries \in Nat \ {0}
  /\ KeepFirstPage \in BOOLEAN

VARIABLES
  memmap,   \* memmap[0 .. memmap_entries - 1]
  phase,    \* the loop being run; "idle" when none is, "panic" after panic(),
            \* "insert_panic" after a panic() in pmm_new_entry()
  i, j,     \* its indices (the sort's p is i)
  ins,      \* the entry pmm_new_entry() is putting in
  align,    \* the argument align_entries
  passes    \* calls of pmm_sanitise_entries() still to come after this one

mapvars == <<memmap, phase, i, j, ins, align, passes>>

MemTypes ==
  {"usable", "reserved", "reserved_mapped", "acpi_reclaimable", "acpi_nvs", "bad",
   "framebuffer", "bootloader", "kernel", "efi_reclaimable"}

Mergeable == {"usable", "reserved_mapped", "bootloader", "kernel"}

Entry(base, length, type) == [base |-> base, length |-> length, type |-> type]

Span(base, top, type) == Entry(base, top - base, type)

IsEntry(e) ==
  e = Entry(e.base, e.length, e.type) /\ e.base \in Nat /\ e.length \in Nat /\ e.type \in MemTypes

Top(e) == e.base + e.length

Wraps(e) == Top(e) >= AddrTop

AlignDown(x, a) == x - (x % a)

AlignUp(x, a) == AlignDown(x + (a - 1), a)

(* m without entry k, the last one moved into its place *)
SwapOut(m, k) == SubSeq([m EXCEPT ![k] = m[Len(m)]], 1, Len(m) - 1)

Walk(where, atI, atJ) ==
  /\ phase' = where /\ i' = atI /\ j' = atJ
  /\ UNCHANGED <<ins, align, passes>>

Panic == phase' = "panic" /\ UNCHANGED <<memmap, i, j, ins, align, passes>>
-----------------------------------------------------------------------------
(* pmm_new_entry(): every entry gives up what it shares with the new one.  *)

Inserting == phase = "insert" /\ i <= Len(memmap)

Covered(e) == ins.base <= e.base /\ Top(ins) >= Top(e)

InsertSkip ==
  /\ Inserting
  /\ LET e == memmap[i]
     IN  \/ Wraps(e)
         \/ ~Covered(e) /\ (Top(ins) <= e.base \/ ins.base >= Top(e))
  /\ Walk("insert", i + 1, j)
  /\ UNCHANGED memmap

InsertCovers ==
  /\ Inserting
  /\ ~Wraps(memmap[i]) /\ Covered(memmap[i])
  /\ memmap' = SwapOut(memmap, i)
  /\ Walk("insert", i, j)

(* The entry's bottom or its top is shaved off *)
InsertShaves ==
  /\ Inserting
  /\ LET e == memmap[i]
     IN  /\ ~Wraps(e)
         /\ \/ /\ ins.base <= e.base /\ Top(ins) < Top(e) /\ Top(ins) > e.base
               /\ memmap' = [memmap EXCEPT ![i] = Span(Top(ins), Top(e), e.type)]
            \/ /\ ins.base > e.base /\ ins.base < Top(e) /\ Top(ins) >= Top(e)
               /\ memmap' = [memmap EXCEPT ![i] = Span(e.base, ins.base, e.type)]
  /\ Walk("insert", i + 1, j)

Nested(e) == ins.base > e.base /\ Top(ins) < Top(e)

InsertSplits ==
  /\ Inserting
  /\ LET e == memmap[i]
     IN  /\ ~Wraps(e) /\ Nested(e)
         /\ Len(memmap) < MaxEntries
         /\ memmap' = Append([memmap EXCEPT ![i] = Span(e.base, ins.base, e.type)],
                             Span(Top(ins), Top(e), e.type))
  /\ Walk("insert", i + 1, j)

(* Both places where a new slot is needed *)
InsertExhausted ==
  /\ phase = "insert" /\ Len(memmap) >= MaxEntries
  /\ i <= Len(memmap) => ~Wraps(memmap[i]) /\ Nested(memmap[i])
  /\ phase' = "insert_panic" /\ UNCHANGED <<memmap, i, j, ins, align, passes>>

(* The new entry itself, and on to pmm_sanitise_entries() *)
InsertEnd ==
  /\ phase = "insert" /\ i > Len(memmap)
  /\ Len(memmap) < MaxEntries
  /\ memmap' = Append(memmap, ins)
  /\ Walk("clip", 1, 1)
-----------------------------------------------------------------------------
(* pmm_sanitise_entries(), first loop: usable entry i is cut down to what  *)
(* no other entry j covers.                                                *)

Clipping == phase = "clip" /\ i <= Len(memmap) /\ memmap[i].type = "usable"

ClipSkip ==
  /\ phase = "clip" /\ i <= Len(memmap) /\ memmap[i].type # "usable"
  /\ Walk("clip", i + 1, 1)
  /\ UNCHANGED memmap

(* Mutant: an empty entry cuts like any other *)
BugEmptyCuts == j = i \/ Wraps(memmap[j])

(* Entries that take nothing from any other: i itself, ends past the top  *)
(* of the address space, nothing to cover                                 *)
Ignored == j = i \/ Wraps(memmap[j]) \/ memmap[j].length = 0

Swallows(r, e) == r.base <= e.base /\ Top(r) >= Top(e)

(* Entry i goes: its end wraps, or j contains it. The walk starts again.  *)
ClipRemoves ==
  /\ Clipping /\ j <= Len(memmap) /\ j # i
  /\ Wraps(memmap[i]) \/ (~Ignored /\ Swallows(memmap[j], memmap[i]))
  /\ memmap' = SwapOut(memmap, i)
  /\ Walk("clip", 1, 1)

Pair == Clipping /\ j <= Len(memmap) /\ (j = i \/ ~Wraps(memmap[i]))

(* r begins within e, and ends within e *)
BeginsIn(r, e) == r.base >= e.base /\ r.base < Top(e)

EndsIn(r, e) == Top(r) >= e.base /\ Top(r) < Top(e)

ClipPasses ==
  /\ Pair
  /\ \/ Ignored
     \/ LET e == memmap[i]
            r == memmap[j]
        IN  ~Swallows(r, e) /\ ~BeginsIn(r, e) /\ ~EndsIn(r, e)
  /\ Walk("clip", i, j + 1)
  /\ UNCHANGED memmap

ClipSplits ==
  /\ Pair /\ ~Ignored
  /\ LET e == memmap[i]
         r == memmap[j]
     IN  /\ ~Swallows(r, e) /\ BeginsIn(r, e) /\ EndsIn(r, e)
         /\ Len(memmap) < MaxEntries
         /\ memmap' = Append([memmap EXCEPT ![i] = Span(e.base, r.base, e.type)],
                             Span(Top(r), Top(e), e.type))
  /\ Walk("clip", i, j + 1)

ClipExhausted ==
  /\ Pair /\ ~Ignored
  /\ ~Swallows(memmap[j], memmap[i])
  /\ BeginsIn(memmap[j], memmap[i]) /\ EndsIn(memmap[j], memmap[i])
  /\ Len(memmap) >= MaxEntries
  /\ Panic

ClipCuts ==
  /\ Pair /\ ~Ignored
  /\ LET e == memmap[i]
         r == memmap[j]
     IN  /\ ~Swallows(r, e)
         /\ \/ /\ BeginsIn(r, e) /\ ~EndsIn(r, e)
               /\ memmap' = [memmap EXCEPT ![i] = Span(e.base, r.base, e.type)]
            \/ /\ ~BeginsIn(r, e) /\ EndsIn(r, e)
               /\ memmap' = [memmap EXCEPT ![i] = Span(Top(r), Top(e), e.type)]
  /\ Walk("clip", i, j + 1)

(* align_entry(): only whole pages count *)
AlignedBase(e) == AlignUp(e.base, PageSize)

AlignedLength(e) == AlignDown(e.length - (AlignedBase(e) - e.base), PageSize)

Alignable(e) ==
  /\ e.length >= PageSize
  /\ e.base + (PageSize - 1) < AddrTop
  /\ AlignedLength(e) # 0

(* Entry i has met every other one *)
ClipKeeps ==
  /\ Clipping /\ j > Len(memmap)
  /\ LET e == memmap[i]
     IN  /\ e.length # 0
         /\ align => Alignable(e)
         /\ memmap' = IF align
                      THEN [memmap EXCEPT ![i] = Entry(AlignedBase(e), AlignedLength(e), e.type)]
                      ELSE memmap
  /\ Walk("clip", i + 1, 1)

ClipDrops ==
  /\ Clipping /\ j > Len(memmap)
  /\ memmap[i].length = 0 \/ (align /\ ~Alignable(memmap[i]))
  /\ memmap' = SwapOut(memmap, i)
  /\ Walk("clip", 1, 1)

ClipEnd ==
  /\ phase = "clip" /\ i > Len(memmap)
  /\ Walk("trim", 1, 1)
  /\ UNCHANGED memmap
-----------------------------------------------------------------------------
(* pmm_sanitise_entries(), second loop: the first page and empty entries.  *)

Trimming == phase = "trim" /\ i <= Len(memmap)

InFirstPage(e) == e.type = "usable" /\ ~KeepFirstPage /\ e.base < PageSize

TrimDrops ==
  /\ Trimming
  /\ LET e == memmap[i]
     IN  e.length = 0 \/ (InFirstPage(e) /\ (Wraps(e) \/ Top(e) <= PageSize))
  /\ memmap' = SwapOut(memmap, i)
  /\ Walk("trim", i, j)

TrimKeeps ==
  /\ Trimming
  /\ LET e == memmap[i]
     IN  /\ e.length # 0
         /\ InFirstPage(e) => ~Wraps(e) /\ Top(e) > PageSize
         /\ memmap' = IF InFirstPage(e)
                      THEN [memmap EXCEPT ![i] = Span(PageSize, Top(e), e.type)]
                      ELSE memmap
  /\ Walk("trim", i + 1, j)

TrimEnd ==
  /\ phase = "trim" /\ i > Len(memmap)
  /\ Walk("sort", 1, 1)
  /\ UNCHANGED memmap
-----------------------------------------------------------------------------
(* Third loop: a selection sort by base.  Fourth loop: merge neighbours.   *)

(* Mutant: the search for the least base stops before the last entry *)
BugMinSkipsLast(m, p, k) ==
  /\ k \in p..(Len(m) - 1)
  /\ \A n \in p..(Len(m) - 1) : m[k].base <= m[n].base
  /\ \A n \in p..(k - 1) : m[n].base > m[k].base

(* The first of the entries from p on with the least base *)
IsMinIndex(m, p, k) ==
  /\ k \in p..Len(m)
  /\ \A n \in p..Len(m) : m[k].base <= m[n].base
  /\ \A n \in p..(k - 1) : m[n].base > m[k].base

Sort ==
  /\ phase = "sort" /\ i < Len(memmap)
  /\ \E k \in i..Len(memmap) :
       /\ IsMinIndex(memmap, i, k)
       /\ memmap' = [memmap EXCEPT ![i] = memmap[k], ![k] = memmap[i]]
  /\ Walk("sort", i + 1, j)

SortEnd ==
  /\ phase = "sort" /\ i >= Len(memmap)
  /\ Walk("merge", 1, 1)
  /\ UNCHANGED memmap

Merges(m, k) ==
  /\ m[k].type \in Mergeable
  /\ ~Wraps(m[k])
  /\ m[k + 1].type = m[k].type /\ m[k + 1].base = Top(m[k])
  /\ m[k].length + m[k + 1].length < AddrTop

Joined(m, k) == Entry(m[k].base, m[k].length + m[k + 1].length, m[k].type)

Merged(m, k) ==
  LET grown == [m EXCEPT ![k] = Joined(m, k)]
  IN  SubSeq(grown, 1, k) \o SubSeq(grown, k + 2, Len(m))

Merge ==
  /\ phase = "merge" /\ i < Len(memmap)
  /\ \/ Merges(memmap, i) /\ memmap' = Merged(memmap, i) /\ Walk("merge", i, j)
     \/ ~Merges(memmap, i) /\ UNCHANGED memmap /\ Walk("merge", i + 1, j)

(* The pass is over; a caller that sanitises again does so now *)
MergeEnd ==
  /\ phase = "merge" /\ i >= Len(memmap)
  /\ phase' = IF passes = 0 THEN "idle" ELSE "clip"
  /\ passes' = IF passes = 0 THEN 0 ELSE passes - 1
  /\ i' = 1 /\ j' = 1
  /\ UNCHANGED <<memmap, ins, align>>

MapStep ==
  \/ InsertSkip \/ InsertCovers \/ InsertShaves \/ InsertSplits \/ InsertExhausted \/ InsertEnd
  \/ ClipSkip \/ ClipRemoves \/ ClipPasses \/ ClipSplits \/ ClipExhausted \/ ClipCuts
  \/ ClipKeeps \/ ClipDrops \/ ClipEnd
  \/ TrimDrops \/ TrimKeeps \/ TrimEnd
  \/ Sort \/ SortEnd \/ Merge \/ MergeEnd

(* How the two functions are entered *)
StartSanitise(alignEntries, more) ==
  /\ phase' = "clip" /\ i' = 1 /\ j' = 1
  /\ align' = alignEntries /\ passes' = more
  /\ UNCHANGED <<memmap, ins>>

StartInsert(base, length, type, more) ==
  /\ phase' = "insert" /\ i' = 1 /\ j' = 1
  /\ ins' = Entry(base, length, type)
  /\ align' = FALSE /\ passes' = more
  /\ UNCHANGED memmap
-----------------------------------------------------------------------------
(* What the map says of an address.                                        *)

Covers(e, a) == e.base <= a /\ a < Top(e)

(* The types that entries give the address. Entries that run past the top  *)
(* of the address space count for nothing.                                 *)
Claims(m, a) == {m[k].type : k \in {n \in 1..Len(m) : Covers(m[n], a) /\ ~Wraps(m[n])}}

(* While an entry is being put in, its addresses are already its own       *)
Owners(a) ==
  IF phase \in {"insert", "insert_panic"} /\ Covers(ins, a) THEN {ins.type} ELSE Claims(memmap, a)

(* What the address is good for: any other claim to it beats "usable"      *)
Settled(a) == IF Owners(a) = {"usable"} THEN {"usable"} ELSE Owners(a) \ {"usable"}

(* Two entries without a common address *)
Apart(e, f) == Top(e) <= f.base \/ Top(f) <= e.base

Sorted(m) == \A k, n \in 1..Len(m) : k < n => m[k].base <= m[n].base

(* The memory types only pmm_new_entry() makes never wrap *)
IsMap(m) ==
  /\ m \in Seq({m[k] : k \in 1..Len(m)})
  /\ Len(m) <= MaxEntries
  /\ \A k \in 1..Len(m) : IsEntry(m[k]) /\ (Wraps(m[k]) => m[k].type \notin Mergeable \ {"usable"})
=============================================================================
