----------------------------- MODULE Elsewhere -----------------------------
(***************************************************************************)
(* Physical memory as the multiboot loaders see it, and lib/elsewhere.c:   *)
(* where in it a blob that was loaded "elsewhere" may finally go.          *)
(*                                                                         *)
(* mem[a] is the memory map type of address a.  pmm_sanitise_entries()     *)
(* merges contiguous entries of the types below, so the entries of the map *)
(* are the maximal runs of one type (module Pmm has the map itself).       *)
(***************************************************************************)
EXTENDS Integers, Sequences, FiniteSets, FiniteSetsExt

CONSTANTS
  Top,         \* one past the last address
  Page,        \* bytes in a page
  Limit,       \* 0x100000000: one past what the relocation stub can address
  LowMem,      \* 0x100000: where a search that wraps around starts again
  MaxParts,    \* 64: the usable parts elsewhere_reserve_target() takes note of
  MaxRetries   \* 0x10000: attempts of one elsewhere_append()

ASSUME ElsewhereConstants ==
  /\ {Top, Page, Limit, LowMem, MaxParts, MaxRetries} \subseteq Nat \ {0}
  /\ Limit <= Top /\ LowMem % Page = 0

Addr == 0..(Top - 1)

(* usable, bootloader reclaimable, executable and modules, anything else *)
Types == {"usable", "loader", "kernel", "reserved"}

AlignDown(x) == x - (x % Page)
AlignUp(x) == AlignDown(x + Page - 1)

Span(base, length) == base..(base + length - 1)

Entries(mem) ==
  {[base |-> b, top |-> Min({t \in (b + 1)..Top : t = Top \/ mem[t] # mem[b]})] :
     b \in {a \in Addr : a = 0 \/ mem[a - 1] # mem[a]}}

(* ext_mem_alloc(): the top of the highest usable entry that has room; all *)
(* of the entry above the allocation goes with it.                         *)
Pages(count) == AlignUp(IF count = 0 THEN 1 ELSE count)

EntryTop(e) == IF e.top > Limit THEN Limit ELSE e.top

Rooms(mem, count) ==
  {e \in Entries(mem) : /\ mem[e.base] = "usable"
                        /\ e.base < EntryTop(e) /\ EntryTop(e) - e.base >= Pages(count)
                        /\ AlignDown(EntryTop(e) - Pages(count)) >= e.base}

ext_mem_alloc(mem, count) ==
  LET top == Max({EntryTop(e) : e \in Rooms(mem, count)})
  IN  [base |-> AlignDown(top - Pages(count)), top |-> top]

Retyped(mem, S, type) == [a \in Addr |-> IF a \in S THEN type ELSE mem[a]]

(* check_usable_memory(): the bytes of the range that real RAM backs add up *)
check_usable_memory(mem, base, top) ==
  top <= Top /\ \A a \in base..(top - 1) : mem[a] # "reserved"

elsewhere_overlap_check(base1, top1, base2, top2) == base1 < top2 /\ base2 < top1

(* Mutant: only the first byte of the target has to be in the entry        *)
BugFirstByteExists(mem, target, length) ==
  length = 0 \/ mem[target] \in {"usable", "loader"}

(* memmap_alloc_range() as a simulation: one entry of a type it may overlay *)
(* contains the range                                                      *)
MemoryExists(mem, target, length) ==
  \/ length = 0
  \/ \E e \in Entries(mem) :
       /\ mem[e.base] \in {"usable", "loader"}
       /\ e.base <= target /\ target < e.top /\ target + length <= e.top

(* elsewhere_next_memmap_candidate(): the base of an entry further up that *)
(* is large enough, or the top of the one the target is in                 *)
Candidates(mem, target, length) ==
  LET ram == {e \in Entries(mem) : /\ mem[e.base] \in {"usable", "loader"}
                                  /\ e.base < Limit /\ EntryTop(e) > target}
  IN  {e.base : e \in {f \in ram : target < f.base /\ EntryTop(f) - f.base >= length}}
        \cup {EntryTop(e) : e \in {f \in ram : f.base <= target}}

(* Mutant: the search goes on above the next entry instead of in it        *)
BugSkipsEntry(mem, target, length) ==
  LET tops == {EntryTop(e) : e \in {f \in Entries(mem) : /\ mem[f.base] \in {"usable", "loader"}
                                                        /\ EntryTop(f) > target}}
  IN  IF tops = {} THEN -1 ELSE AlignUp(Min(tops))

elsewhere_next_memmap_candidate(mem, target, length) ==
  IF Candidates(mem, target, length) = {} THEN -1
  ELSE AlignUp(Min(Candidates(mem, target, length)))

elsewhere_range(elsewhere, target, length) ==
  [elsewhere |-> elsewhere, target |-> target, length |-> length]

(* elsewhere_append(): the targets and sources of the ranges so far, in    *)
(* the order they are compared with a new target                           *)
Obstacle(ranges, k) ==
  LET r == ranges[(k + 1) \div 2]
      base == IF k % 2 = 1 THEN r.target ELSE r.elsewhere
  IN  [base |-> base, top |-> base + r.length]

Hits(ranges, target, length) ==
  {k \in 1..(2 * Len(ranges)) :
     elsewhere_overlap_check(Obstacle(ranges, k).base, Obstacle(ranges, k).top,
                             target, target + length)}

(* One attempt: the target is good, the search goes on from another one,   *)
(* or there is no room further up.  Whether the memory exists is asked     *)
(* after the first range was passed and before the others are.             *)
Good == [verdict |-> "good", target |-> 0]
MoveTo(target) == [verdict |-> "move", target |-> target]
NoRoom == [verdict |-> "no room", target |-> 0]

Attempt(mem, ranges, target, length) ==
  LET hits == Hits(ranges, target, length)
      next == elsewhere_next_memmap_candidate(mem, target, length)
  IN  IF ranges = << >> THEN Good
      ELSE IF target + length > Limit THEN NoRoom
      ELSE IF hits \cap {1, 2} = {} /\ ~MemoryExists(mem, target, length)
           THEN IF next = -1 THEN NoRoom ELSE MoveTo(next)
      ELSE IF hits # {} THEN MoveTo(AlignUp(Obstacle(ranges, Min(hits)).top))
      ELSE Good

(* "allocate after the top of all ranges" *)
AboveAll(ranges) == AlignUp(Max({0} \cup {ranges[i].target + ranges[i].length : i \in DOMAIN ranges}))

(* elsewhere_reserve_target(): the usable parts of a target, up to MaxParts *)
elsewhere_reserve_target(mem, base, length) ==
  LET parts == {e \in Entries(mem) : /\ mem[e.base] = "usable"
                                    /\ Span(base, length) \cap (e.base..(e.top - 1)) # {}}
      noted == {e \in parts : Cardinality({f \in parts : f.base < e.base}) < MaxParts}
  IN  Retyped(mem, Span(base, length) \cap UNION {e.base..(e.top - 1) : e \in noted}, "loader")
=============================================================================
