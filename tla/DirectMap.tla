----------------------------- MODULE DirectMap -----------------------------
(***************************************************************************)
(* The address space a Limine protocol executable is started in            *)
(* (common/protos/limine.c): the paging mode is chosen so that the higher  *)
(* half direct map fits, framebuffers are put into the memory map and      *)
(* everything else is kept off their pages, and build_pagemap() maps the   *)
(* executable, the direct map and, where the base revision or the switch   *)
(* to long mode want it, low memory to itself.                             *)
(*                                                                         *)
(* Addresses are bytes.  Virtual addresses are 64 bits wide in the code;   *)
(* here they end at VirtTop, twice the half space of the deepest mode.     *)
(* A step of map_pages() is one call of map_page().                        *)
(***************************************************************************)
EXTENDS Vmm, FiniteSets, FiniteSetsExt

CONSTANTS
  Boots,        \* machines, memory maps, configurations and executables
  FourGiB       \* 0x100000000

GiB == Size(2)

MaxLevels == Cardinality(Levels)

VirtTop == 2 * HalfSpace(MaxLevels)

VARIABLES
  boot,      \* the boot, an element of Boots
  pc,        \* where limine_load() is; "panic" after panic()
  memmap,    \* the memory map
  i,         \* the index of the loop at pc
  mode,      \* paging_mode, as the number of levels; 0 when not chosen
  offset,    \* direct_map_offset
  pending,   \* build_pagemap()'s pending_base and pending_top
  calls,     \* map_pages() calls under way, [virt, phys, flags, count, at]
  pagemap    \* the page tables

vars == <<boot, pc, memmap, i, mode, offset, pending, calls, pagemap>>

MapEntry(base, top, type) == [base |-> base, top |-> top, type |-> type]

(* The paging modes of each architecture, as numbers of levels             *)
Modes(arch) ==
  CASE arch = "riscv" -> {3, 4, 5}
    [] arch = "loongarch" -> {4}
    [] OTHER -> {4, 5}

Half(virt) == virt \div HalfSpace(MaxLevels)

Init ==
  /\ boot \in Boots
  /\ pc = "mode" /\ i = 1
  /\ memmap = boot.map
  /\ mode = 0 /\ offset = 0
  /\ pending = [base |-> 0, top |-> 0]
  /\ calls = << >> /\ pagemap = << >>

Panics == pc' = "panic" /\ UNCHANGED <<boot, memmap, i, mode, offset, pending, calls, pagemap>>
-----------------------------------------------------------------------------
(* Which entries are part of the direct map, by base revision              *)
Ram == {"usable", "bootloader", "kernel", "framebuffer", "efi_reclaimable"}

Mapped(e) ==
  CASE boot.rev = 0 -> TRUE
    [] boot.rev = 3 -> e.type \in Ram
    [] OTHER -> e.type \notin {"reserved", "bad"}

(* Where it begins: the first 4 GiB are mapped as one before revision 3    *)
MappedBase(e) == IF boot.rev < 3 /\ e.base < FourGiB THEN FourGiB ELSE e.base

(* Mutant: the span ends with the base of the highest entry *)
BugSpanOfBases ==
  Max({IF boot.rev >= 3 THEN 0 ELSE FourGiB} \cup
      {AlignUp(e.base, GiB) :
         e \in {d \in ToSet(boot.map) : Mapped(d) /\ MappedBase(d) < d.top}})

(* Where it ends, before framebuffers are known                            *)
get_hhdm_span_top ==
  Max({IF boot.rev >= 3 THEN 0 ELSE FourGiB} \cup
      {AlignUp(e.top, GiB) :
         e \in {d \in ToSet(boot.map) : Mapped(d) /\ MappedBase(d) < d.top}})

(* The direct map takes less than half of the higher half                  *)
Fits(n) == get_hhdm_span_top < HalfSpace(n) \div 2

(* The modes allowed by the processor and the size of the direct map,      *)
(* before and after the configuration has its say                          *)
Supported == {n \in Modes(boot.arch) : n <= boot.cpuMax /\ Fits(n)}

ConfigPanics ==
  \/ Supported = {}
  \/ boot.userMax < boot.userMin
  \/ boot.userMax < Min(Supported)
  \/ boot.userMin > Min({boot.userMax, boot.cpuMax})

MinMode == Max({boot.userMin, Min(Supported)})

MaxMode == Min({boot.userMax, boot.cpuMax})

DefaultMode == IF boot.arch = "riscv" /\ MaxMode < 4 THEN 3 ELSE 4

(* Mutant: the executable's own limits are not looked at *)
BugIgnoresExecutable == Max({MinMode, Min({MaxMode, boot.request.mode})})

(* The mode for an executable that asks for one                            *)
RequestedMode ==
  LET wanted == Max({MinMode, Min({MaxMode, boot.request.mode})})
      capped == Min({wanted, boot.request.max})
  IN  Max({capped, boot.request.min})

RequestPanics ==
  LET wanted == Max({MinMode, Min({MaxMode, boot.request.mode})})
      capped == Min({wanted, boot.request.max})
  IN  \/ boot.request.max < boot.request.min
      \/ wanted > boot.request.max /\ boot.request.max < MinMode
      \/ capped < boot.request.min /\ boot.request.min > MaxMode

(* set_paging_mode(): up to a quarter of the higher half, in whole GiB     *)
Slides(n) == {s \in 0..(HalfSpace(n) \div 4 - 1) : s % GiB = 0}

(* Only x86 processors are asked how much memory they can address          *)
Addressable == boot.arch = "x86" => get_hhdm_span_top <= boot.physTop

ModePossible ==
  /\ Addressable
  /\ ~ConfigPanics
  /\ IF boot.request.asked THEN ~RequestPanics ELSE Min({DefaultMode, MaxMode}) >= MinMode

ChooseMode ==
  /\ pc = "mode" /\ ModePossible
  /\ mode' = IF boot.request.asked THEN RequestedMode ELSE Min({DefaultMode, MaxMode})
  /\ \E s \in (IF boot.kaslr THEN Slides(mode') ELSE {0}) :
       offset' = VirtTop - HalfSpace(mode') + s
  /\ pagemap' = [h \in 0..1 |-> EmptyTable(mode' - 1)]
  /\ pc' = "fb"
  /\ UNCHANGED <<boot, memmap, i, pending, calls>>

NoMode == pc = "mode" /\ ~ModePossible /\ Panics
-----------------------------------------------------------------------------
(* pmm_new_entry() for a framebuffer, and the sort that follows: the other *)
(* entries give up what they share with it                                 *)
Rest(e, base, top) ==
  SelectSeq(<<MapEntry(e.base, Min({e.top, base}), e.type),
              MapEntry(Max({e.base, top}), e.top, e.type)>>,
            LAMBDA p : p.base < p.top)

WithEntry(m, base, top, type) ==
  SortSeq(Append(FlattenSeq([k \in 1..Len(m) |-> Rest(m[k], base, top)]),
                 MapEntry(base, top, type)),
          LAMBDA a, b : a.base < b.base)

RegisterFramebuffer ==
  /\ pc = "fb"
  /\ IF i <= Len(boot.fbs)
     THEN /\ memmap' = WithEntry(memmap, boot.fbs[i].base, boot.fbs[i].top, "framebuffer")
          /\ i' = i + 1 /\ pc' = pc
     ELSE i' = 1 /\ pc' = "trim" /\ UNCHANGED memmap
  /\ UNCHANGED <<boot, mode, offset, pending, calls, pagemap>>

Trimmable == {"usable", "reserved", "efi_reclaimable"}

(* A neighbour on the pages from base to top of a framebuffer              *)
OnPages(e, base, top) ==
  e.base < e.top /\ e.type # "framebuffer" /\ e.top > base /\ e.base < top

Trim(e, base, top) ==
  CASE ~OnPages(e, base, top) -> e
    [] OnPages(e, base, top) /\ e.base < base -> MapEntry(e.base, base, e.type)
    [] OnPages(e, base, top) /\ e.base >= base /\ e.top > top -> MapEntry(top, e.top, e.type)
    [] OTHER -> MapEntry(e.base, e.base, e.type)

(* The whole pages that a framebuffer is on                                *)
FbBase(e) == AlignDown(e.base, Page)

FbTop(e) == AlignUp(e.top, Page)

(* One turn of the loop that keeps other memory off a framebuffer's pages  *)
TrimOverlap ==
  /\ pc = "trim"
  /\ IF i > Len(memmap) THEN i' = 1 /\ pc' = "sanitise" /\ UNCHANGED memmap
     ELSE LET fb == memmap[i]
          IN  /\ fb.type = "framebuffer" =>
                   \A k \in 1..Len(memmap) :
                     OnPages(memmap[k], FbBase(fb), FbTop(fb)) => memmap[k].type \in Trimmable
              /\ memmap' = IF fb.type = "framebuffer"
                           THEN [k \in 1..Len(memmap) |-> Trim(memmap[k], FbBase(fb), FbTop(fb))]
                           ELSE memmap
              /\ i' = i + 1 /\ pc' = pc
  /\ UNCHANGED <<boot, mode, offset, pending, calls, pagemap>>

Untrimmable ==
  /\ pc = "trim" /\ i <= Len(memmap) /\ memmap[i].type = "framebuffer"
  /\ \E k \in 1..Len(memmap) :
       /\ OnPages(memmap[k], FbBase(memmap[i]), FbTop(memmap[i]))
       /\ memmap[k].type \notin Trimmable
  /\ Panics

(* pmm_sanitise_entries(), here on entries that do not overlap: whole      *)
(* pages of usable memory, and no empty entries                            *)
Cut(e) ==
  IF e.type # "usable" THEN e
  ELSE LET base == AlignUp(e.base, Page)
       IN  MapEntry(base, Max({base, AlignDown(e.top, Page)}), e.type)

SanitiseMap ==
  /\ pc = "sanitise"
  /\ memmap' = IF boot.rev = 3 THEN memmap
               ELSE SelectSeq([k \in 1..Len(memmap) |-> Cut(memmap[k])], LAMBDA e : e.base < e.top)
  /\ pc' = "ranges"
  /\ UNCHANGED <<boot, i, mode, offset, pending, calls, pagemap>>
-----------------------------------------------------------------------------
(* build_pagemap(): each stage makes calls of map_pages(), which run       *)
(* before the next one begins                                              *)
Call(virt, phys, flags, count) ==
  [virt |-> virt, phys |-> phys, flags |-> flags, count |-> count, at |-> 0]

Building(stage) == pc = stage /\ calls = << >>

Goto(stage, index) == pc' = stage /\ i' = index /\ UNCHANGED <<boot, memmap, mode, offset, pagemap>>

RangeFlags(r) ==
  (IF "x" \in r.perms \/ ~boot.nx THEN {} ELSE {"noexec"})
    \cup (IF "w" \in r.perms THEN {"write"} ELSE {})

RangePhys(r) == boot.physBase + (r.base - boot.virtBase)

MapRange ==
  /\ Building("ranges")
  /\ IF i <= Len(boot.ranges)
     THEN LET r == boot.ranges[i]
          IN  /\ calls' = <<Call(r.base, RangePhys(r), RangeFlags(r), r.length)>>
              /\ Goto("ranges", i + 1)
     ELSE calls' = << >> /\ Goto("low", 1)
  /\ UNCHANGED pending

MapLow ==
  /\ Building("low")
  /\ calls' = (IF boot.rev = 0 THEN <<Call(Page, Page, {"write"}, FourGiB - Page)>> ELSE << >>)
                \o (IF boot.rev < 3 THEN <<Call(offset, 0, {"write"}, FourGiB)>> ELSE << >>)
  /\ Goto("memory", 1)
  /\ UNCHANGED pending

(* Memory goes to the direct map, and under revision 0 also to itself      *)
BothMaps(base, top, flags) ==
  (IF boot.rev = 0 THEN <<Call(base, base, flags, top - base)>> ELSE << >>)
    \o <<Call(offset + base, base, flags, top - base)>>

Flushed == IF pending.top > pending.base THEN BothMaps(pending.base, pending.top, {"write"}) ELSE << >>

(* Mutant: an entry is mapped from its first byte on, not from its page *)
BugUnaligned(e) ==
  IF Mapped(e) /\ MappedBase(e) < e.top
  THEN [base |-> MappedBase(e), top |-> AlignUp(e.top, Page)]
  ELSE [base |-> 0, top |-> 0]

(* The pages an entry adds to the direct map                               *)
EntryPages(e) ==
  IF Mapped(e) /\ MappedBase(e) < e.top
  THEN [base |-> AlignDown(MappedBase(e), Page), top |-> AlignUp(e.top, Page)]
  ELSE [base |-> 0, top |-> 0]

(* Contiguous entries are mapped with one call                             *)
Coalesce ==
  /\ Building("memory") /\ i <= Len(memmap)
  /\ LET pages == EntryPages(memmap[i])
     IN  IF pages.top # 0 /\ pages.base = pending.top /\ pending.top # 0
         THEN pending' = [pending EXCEPT !.top = pages.top] /\ calls' = << >>
         ELSE pending' = pages /\ calls' = Flushed
  /\ Goto("memory", i + 1)

FlushLast ==
  /\ Building("memory") /\ i > Len(memmap)
  /\ calls' = Flushed
  /\ Goto("framebuffers", 1)
  /\ UNCHANGED pending

MapFramebuffer ==
  /\ Building("framebuffers")
  /\ IF i > Len(memmap) THEN calls' = << >> /\ Goto("switch", 1)
     ELSE /\ calls' = IF memmap[i].type = "framebuffer"
                      THEN BothMaps(FbBase(memmap[i]), FbTop(memmap[i]), {"write", "fb"})
                      ELSE << >>
          /\ Goto("framebuffers", i + 1)
  /\ UNCHANGED pending

(* Low memory, for the switch to long mode                                 *)
MapSwitch ==
  /\ Building("switch")
  /\ calls' = IF boot.arch = "x86" /\ boot.rev >= 1 THEN <<Call(0, 0, {"write"}, FourGiB)>> ELSE << >>
  /\ Goto("done", 1)
  /\ UNCHANGED pending
-----------------------------------------------------------------------------
(* map_pages(), one page at a time                                         *)
NextPage ==
  LET c == Head(calls)
  IN  NextSize(c.virt + c.at, c.phys + c.at, c.count - c.at, boot.arch)

(* Write-combining is there or is left out                                 *)
PageFlags(flags) == IF boot.wc THEN flags ELSE flags \ {"fb"}

PagePanics ==
  LET c == Head(calls)
      offs == ToSet(Pieces(NextPage, boot.largest))
  IN  \E off \in offs :
        SplitPanics(pagemap, mode, Half(c.virt), c.virt + c.at + off,
                    UsedSize(NextPage, boot.largest), boot.arch)

MapPages ==
  /\ pc # "panic" /\ calls # << >>
  /\ LET c == Head(calls)
         next == c.at + Size(NextPage)
     IN  /\ c.virt % Page = 0 /\ c.phys % Page = 0 /\ c.count % Page = 0
         /\ ~PagePanics
         /\ pagemap' = map_page(pagemap, mode, Half(c.virt), c.virt + c.at, c.phys + c.at,
                                PageFlags(c.flags), NextPage, boot.largest)
         /\ calls' = IF next >= c.count THEN Tail(calls)
                     ELSE <<[c EXCEPT !.at = next]>> \o Tail(calls)
  /\ UNCHANGED <<boot, pc, memmap, i, mode, offset, pending>>

MapPagesPanics ==
  /\ pc # "panic" /\ calls # << >>
  /\ LET c == Head(calls)
     IN  c.virt % Page = 0 /\ c.phys % Page = 0 /\ c.count % Page = 0 => PagePanics
  /\ Panics

(* The executable runs, or the machine has stopped                         *)
Over == pc = "panic" \/ (pc = "done" /\ calls = << >>)

Next ==
  \/ ChooseMode \/ NoMode
  \/ RegisterFramebuffer \/ TrimOverlap \/ Untrimmable \/ SanitiseMap
  \/ MapRange \/ MapLow \/ Coalesce \/ FlushLast \/ MapFramebuffer \/ MapSwitch
  \/ MapPages \/ MapPagesPanics
  \/ Over /\ UNCHANGED vars

Spec == Init /\ [][Next]_vars
-----------------------------------------------------------------------------
(* The pages whose addresses are canonical                                 *)
Pages ==
  {p \in 0..(VirtTop \div Page - 1) :
     p * Page < HalfSpace(mode) \/ p * Page >= VirtTop - HalfSpace(mode)}

Distance(a, b) == IF a < b THEN b - a ELSE a - b

(* The modes that the processor has, the direct map fits, and both the     *)
(* configuration and the executable allow. Without a request the default   *)
(* is the most that an executable is taken to support.                     *)
Allowed ==
  {n \in Modes(boot.arch) :
     /\ n <= boot.cpuMax /\ get_hhdm_span_top < HalfSpace(n) \div 2
     /\ boot.userMin <= n /\ n <= boot.userMax
     /\ IF boot.request.asked THEN boot.request.min <= n /\ n <= boot.request.max ELSE n <= 4}

WantedMode == IF boot.request.asked THEN boot.request.mode ELSE 4

(* The clamps and checks of limine_load() come to this: of the modes that  *)
(* are allowed the nearest to the wanted one is used, and there is a panic *)
(* only if none is allowed or an x86 processor cannot address the memory.  *)
NearestMode ==
  /\ mode # 0 =>
       mode \in Allowed /\ \A n \in Allowed : Distance(mode, WantedMode) <= Distance(n, WantedMode)
  /\ pc = "panic" /\ mode = 0 => Allowed = {} \/ (boot.arch = "x86" /\ get_hhdm_span_top > boot.physTop)

Trimmed == pc \notin {"mode", "fb", "trim", "panic"}

At(virt) == Translate(pagemap, mode, Half(virt), virt)

(* Two framebuffers on one page                                            *)
SharedPage ==
  \E f, g \in ToSet(boot.fbs) :
    f.base < g.base /\ AlignUp(f.top, Page) > AlignDown(g.base, Page)

(* The entry of a large page that maps a framebuffer cannot be read back   *)
(* on x86, so splitting one is a panic. It happens only if two             *)
(* framebuffers share a page: nothing else is mapped on top of one.        *)
SplitsAreSound == pc = "panic" /\ calls # << >> => SharedPage

Built == pc = "done" /\ calls = << >>

OnFramebuffer(p) ==
  \E k \in 1..Len(memmap) :
    /\ memmap[k].type = "framebuffer"
    /\ FbBase(memmap[k]) <= p * Page /\ p * Page < FbTop(memmap[k])

(* Page p has memory of an entry that is part of the direct map            *)
InDirectMap(p) ==
  \/ boot.rev < 3 /\ p * Page < FourGiB
  \/ \E k \in 1..Len(memmap) :
       LET e == memmap[k]
       IN  /\ Mapped(e) /\ MappedBase(e) < e.top
           /\ MappedBase(e) < (p + 1) * Page /\ e.top > p * Page

Expected(p) ==
  CASE OnFramebuffer(p) -> [phys |-> p * Page, flags |-> PageFlags({"write", "fb"})]
    [] ~OnFramebuffer(p) /\ InDirectMap(p) -> [phys |-> p * Page, flags |-> {"write"}]
    [] OTHER -> Unmapped

InRange(v, r) == r.base <= v /\ v < r.base + r.length

(* The executable finds in the direct map just the memory its base         *)
(* revision promises, each framebuffer with its own caching, and in the    *)
(* lower half low memory or nothing; and no large page maps the first MiB, *)
(* where memory types change every few pages.                              *)
DirectMapExact ==
  Built =>
    \A p \in Pages :
      /\ LET w == Walk(pagemap[Half(p * Page)], mode - 1, p * Page)
         IN  boot.arch = "x86" /\ w.entry.kind = "page" /\ w.entry.phys = 0 => w.level = 0
      /\ LET v == p * Page
         IN  CASE Half(v) = 0 ->
                    At(v) = (CASE boot.rev = 0 -> IF p = 0 THEN Unmapped ELSE Expected(p)
                               [] boot.rev > 0 /\ boot.arch = "x86" /\ v < FourGiB ->
                                    [phys |-> v, flags |-> {"write"}]
                               [] OTHER -> Unmapped)
               [] Half(v) = 1 /\ \E r \in ToSet(boot.ranges) : InRange(v, r) -> TRUE
               [] OTHER -> At(v) = IF v < offset THEN Unmapped ELSE Expected((v - offset) \div Page)

(* Address v is where a framebuffer is mapped that does not fit into the   *)
(* direct map: framebuffers are not counted when the mode is chosen        *)
OfFramebufferBeyond(v) ==
  \E f \in ToSet(boot.fbs) :
    /\ FbTop(f) > HalfSpace(mode) \div 2
    /\ offset + FbBase(f) <= v /\ v < offset + FbTop(f)

(* The executable is mapped where it was linked or slid to, with the       *)
(* permissions of its segments: no later mapping lands on it, but for a    *)
(* framebuffer so high that the direct map has no room for it, and that    *)
(* one takes no other page from the executable than its own.               *)
ExecutableMapped ==
  Built =>
    \A r \in ToSet(boot.ranges) : \A p \in Pages :
      InRange(p * Page, r) =>
        \/ At(p * Page) = [phys |-> RangePhys(r) + (p * Page - r.base), flags |-> RangeFlags(r)]
        \/ OfFramebufferBeyond(p * Page)
=============================================================================
