----------------------------- MODULE Multiboot -----------------------------
(***************************************************************************)
(* protos/multiboot1.c and protos/multiboot2.c: the executable, the info   *)
(* structure, ELF sections and modules are loaded wherever there is room   *)
(* ("elsewhere"), a target is chosen for each, and at the end a stub with  *)
(* nothing of the boot loader left to lean on copies one after the other   *)
(* to its target (protos/multiboot_reloc.asm_x86).                         *)
(*                                                                         *)
(* A byte of memory holds <<blob, number, offset>>: which byte of what.    *)
(***************************************************************************)
EXTENDS Elsewhere

CONSTANTS
  Boots,      \* what may be booted: a set of records, see IsBoot
  InfoAt,     \* 0x10000: where the info structure should go
  InfoSize,   \* its size
  FileSize,   \* the size of the executable's file
  StubSize,   \* the size of the relocation stub
  MaxRelocTries \* 0x100000: windows tried for a relocatable executable

VARIABLES
  boot,     \* what is booted: configuration, executable and firmware map
  mem,      \* memory map type of each address
  data,     \* contents of each address
  pc,       \* the step that is next
  ranges,   \* the elsewhere ranges: [elsewhere, target, length]
  want,     \* want[i]: what ranges[i] is to bring to its target
  kernel,   \* address of the executable's file in memory
  table,    \* address of the array that holds ranges
  stub,     \* address of the relocation stub
  entry,    \* entry point
  handle,   \* page of the open module's handle and path
  search,   \* elsewhere_append() at work
  copy,     \* the relocation stub at work: range and bytes copied of it
  clean,    \* no target was put on memory in use, sources of ranges apart
  late      \* addresses of sources taken after the target they are in

vars == <<boot, mem, data, pc, ranges, want, kernel, table, stub, entry, handle, search,
          copy, clean, late>>

Nothing == <<"nothing", 0, 0>>
Bytes(blob, n, length) == [k \in 0..(length - 1) |-> <<blob, n, k>>]

(* The addresses of data from base on become bytes *)
Stored(d, base, bytes) ==
  [a \in Addr |-> IF a - base \in DOMAIN bytes THEN bytes[a - base] ELSE d[a]]

IsBoot(b) ==
  /\ b.proto \in {1, 2} /\ b.mem \in [Addr -> Types] /\ b.term \subseteq Addr
  /\ {b.image, b.entry, b.target} \subseteq Nat
  /\ Len(b.reloc) <= 1 /\ (b.reloc # << >> => b.proto = 2)

ASSUME MultibootConstants ==
  /\ {InfoAt, InfoSize, FileSize, StubSize, MaxRelocTries} \subseteq Nat
  /\ \A b \in Boots : IsBoot(b)

(* Search of elsewhere_append() for the blob `what`; back: the step after it *)
Search(source, target, length, what, back) ==
  [source |-> source, from |-> target, target |-> target, length |-> length,
   wrapped |-> FALSE, tries |-> 0, what |-> what, back |-> back]

Idle == Search(0, 0, 0, << >>, "")

Init ==
  /\ boot \in Boots
  /\ mem = boot.mem
  /\ data = [a \in Addr |-> Nothing]
  /\ pc = "open"
  /\ ranges = << >> /\ want = << >>
  /\ kernel = 0 /\ table = 0 /\ stub = 0 /\ handle = 0
  /\ entry = boot.entry
  /\ search = Idle
  /\ copy = [i |-> 1, k |-> 0]
  /\ clean = TRUE /\ late = {}

TargetCells(rs) == UNION {Span(rs[i].target, rs[i].length) : i \in DOMAIN rs}

(* panic(): back to the menu at best *)
Panic ==
  /\ pc' = "panic"
  /\ UNCHANGED <<boot, mem, data, ranges, want, kernel, table, stub, entry, handle, search,
                 copy, clean, late>>

Fits(count) == Rooms(mem, count) # {}

(* uri_open() of the executable, which stays in memory *)
OpenKernel ==
  /\ pc = "open" /\ Fits(FileSize)
  /\ LET f == ext_mem_alloc(mem, FileSize)
     IN  /\ kernel' = f.base
         /\ mem' = Retyped(mem, f.base..(f.top - 1), "kernel")
         /\ data' = Stored(data, f.base, Bytes("file", 0, FileSize))
  /\ pc' = "stage"
  /\ UNCHANGED <<boot, ranges, want, table, stub, entry, handle, search, copy, clean, late>>

(* The image is put together elsewhere, and is the first range *)
StageImage ==
  /\ pc = "stage" /\ Fits(boot.image)
  /\ LET i == ext_mem_alloc(mem, boot.image)
         mem1 == Retyped(mem, i.base..(i.top - 1), "loader")
         t == ext_mem_alloc(mem1, 1)
     IN  /\ Rooms(mem1, 1) # {}
         /\ mem' = Retyped(mem1, t.base..(t.top - 1), "loader")
         /\ data' = Stored(data, i.base, Bytes("image", 0, boot.image))
         /\ ranges' = <<elsewhere_range(i.base, boot.target, boot.image)>>
         /\ want' = <<Bytes("image", 0, boot.image)>>
         /\ table' = t.base
  /\ pc' = "place"
  /\ UNCHANGED <<boot, kernel, stub, entry, handle, search, copy, clean, late>>

(* overlaps_loader_memory() *)
overlaps_loader_memory(base, top) ==
  \E a \in base..(top - 1) : a \in Addr /\ mem[a] \in {"loader", "kernel"}

(* The places a relocatable executable may take, walked from the preferred *)
(* end in steps of align *)
RelocBases(tag) ==
  LET align == IF tag.align = 0 THEN 1 ELSE tag.align
      min == IF tag.min < Page THEN Page ELSE tag.min
      lowest == min + ((align - (min % align)) % align)
      highest == (tag.max - boot.image) - ((tag.max - boot.image) % align)
  IN  IF tag.highest
      THEN {b \in min..highest : /\ boot.image <= tag.max /\ (highest - b) % align = 0
                                  /\ (highest - b) \div align <= MaxRelocTries}
      ELSE {b \in lowest..(tag.max - boot.image) : /\ (b - lowest) % align = 0
                                                    /\ (b - lowest) \div align <= MaxRelocTries}

Viable(tag) ==
  {b \in RelocBases(tag) : /\ check_usable_memory(mem, b, b + boot.image)
                          /\ ~overlaps_loader_memory(b, b + boot.image)}

Preferred(tag) == IF tag.highest THEN Max(Viable(tag)) ELSE Min(Viable(tag))

(* A target is committed: what of it is in use is noted, unless it is the  *)
(* source of a range.  The rest of a source's last page is its own.        *)
Commit(m, r) ==
  clean' = (clean /\ \A a \in Span(r.target, r.length) :
                       \/ m[a] = "usable"
                       \/ a \in r.elsewhere..(AlignUp(r.elsewhere + r.length) - 1)
                       \/ \E i \in DOMAIN ranges : a \in Span(ranges[i].elsewhere, ranges[i].length))

Placed(target) ==
  LET r == elsewhere_range(ranges[1].elsewhere, target, boot.image)
      slid == entry + (target - ranges[1].target)
  IN  /\ target + boot.image <= Limit
      /\ check_usable_memory(mem, target, target + boot.image)
      /\ slid \in Span(target, boot.image)
      /\ ranges' = <<r>>
      /\ entry' = slid
      /\ \/ /\ boot.proto = 2
            /\ mem' = elsewhere_reserve_target(mem, target, boot.image)
            /\ Commit(mem, r)
         \/ boot.proto = 1 /\ UNCHANGED <<mem, clean>>

(* The executable goes where it was linked, or a relocatable one where     *)
(* there is room; multiboot2_load() reserves the target at once.           *)
Place ==
  /\ pc = "place"
  /\ \/ boot.reloc = << >> /\ Placed(boot.target)
     \/ \E tag \in {boot.reloc[i] : i \in DOMAIN boot.reloc} :
          Viable(tag) # {} /\ Placed(Preferred(tag))
  /\ pc' = "table"
  /\ UNCHANGED <<boot, data, want, kernel, table, stub, handle, search, copy, late>>

(* An array large enough for all ranges takes over, the first one is freed; *)
(* multiboot1_load() reserves the executable's target only now.            *)
NewTable ==
  /\ pc = "table" /\ Fits(1)
  /\ LET t == ext_mem_alloc(mem, 1)
         mem1 == Retyped(mem, t.base..(t.top - 1), "loader")
         mem2 == Retyped(mem1, Span(table, Page), "usable")
     IN  /\ table' = t.base
         /\ data' = Stored(data, t.base, Bytes("table", 0, Page))
         /\ \/ /\ boot.proto = 1
               /\ mem' = elsewhere_reserve_target(mem2, ranges[1].target, ranges[1].length)
               /\ Commit(mem2, ranges[1])
            \/ boot.proto = 2 /\ mem' = mem2 /\ UNCHANGED clean
  /\ pc' = "info"
  /\ UNCHANGED <<boot, ranges, want, kernel, stub, entry, handle, search, copy, late>>

(* A source was taken at s: what of it lies in a target noted before *)
Late(s) == late' = late \cup ((s.base..(s.top - 1)) \cap TargetCells(ranges))

AllocInfo ==
  /\ pc = "info" /\ Fits(InfoSize)
  /\ LET s == ext_mem_alloc(mem, InfoSize)
     IN  /\ mem' = Retyped(mem, s.base..(s.top - 1), "loader")
         /\ data' = Stored(data, s.base, Bytes("info", 0, InfoSize))
         /\ search' = Search(s.base, InfoAt, InfoSize, Bytes("info", 0, InfoSize), "sections")
         /\ Late(s)
  /\ pc' = "search"
  /\ UNCHANGED <<boot, ranges, want, kernel, table, stub, entry, handle, copy, clean>>

(* Ranges the array has room for, and which of them comes next *)
RangesMax == 2 + Len(boot.sections) + Len(boot.modules)

(* A section that the executable does not load is passed on from its file *)
AppendSection ==
  /\ pc = "sections"
  /\ LET n == Len(ranges) - 1
     IN  \/ /\ n <= Len(boot.sections)
            /\ LET s == boot.sections[n]
               IN  search' = Search(kernel + s.offset, AboveAll(ranges), s.size,
                                    [k \in 0..(s.size - 1) |-> <<"file", 0, s.offset + k>>],
                                    "sections")
            /\ pc' = "search"
         \/ /\ n > Len(boot.sections)
            /\ pc' = "modules"
            /\ UNCHANGED search
  /\ UNCHANGED <<boot, mem, data, ranges, want, kernel, table, stub, entry, handle, copy,
                 clean, late>>

(* uri_open() of the next module: its contents, a handle and a path *)
OpenModule ==
  /\ pc = "modules"
  /\ LET n == Len(ranges) - 1 - Len(boot.sections)
     IN  /\ n <= Len(boot.modules)
         /\ Fits(boot.modules[n])
         /\ LET s == ext_mem_alloc(mem, boot.modules[n])
                mem1 == Retyped(mem, s.base..(s.top - 1), "loader")
                h == ext_mem_alloc(mem1, 1)
            IN  /\ Rooms(mem1, 1) # {}
                /\ mem' = Retyped(mem1, h.base..(h.top - 1), "loader")
                /\ data' = Stored(data, s.base, Bytes("module", n, boot.modules[n]))
                /\ handle' = h.base
                /\ search' = Search(s.base, AboveAll(ranges), boot.modules[n],
                                    Bytes("module", n, boot.modules[n]), "close")
                /\ Late(s)
  /\ pc' = "search"
  /\ UNCHANGED <<boot, ranges, want, kernel, table, stub, entry, copy, clean>>

(* fclose(): the contents stay *)
CloseModule ==
  /\ pc = "close"
  /\ mem' = Retyped(mem, Span(handle, Page), "usable")
  /\ pc' = "modules"
  /\ UNCHANGED <<boot, data, ranges, want, kernel, table, stub, entry, handle, search, copy,
                 clean, late>>

(* elsewhere_append(): one attempt *)
AppendMoves(target, wrapped) ==
  /\ search' = [search EXCEPT !.target = target, !.wrapped = wrapped, !.tries = @ + 1]
  /\ UNCHANGED <<mem, ranges, want, pc, clean>>

AppendDone ==
  LET r == elsewhere_range(search.source, search.target, search.length)
  IN  /\ Len(ranges) < RangesMax
      /\ mem' = elsewhere_reserve_target(mem, search.target, search.length)
      /\ Commit(mem, r)
      /\ ranges' = Append(ranges, r)
      /\ want' = Append(want, search.what)
      /\ pc' = search.back
      /\ UNCHANGED search

elsewhere_append ==
  /\ pc = "search" /\ search.tries < MaxRetries
  /\ LET a == Attempt(mem, ranges, search.target, search.length)
     IN  \/ a.verdict = "good" /\ AppendDone
         \/ a.verdict = "move" /\ AppendMoves(a.target, search.wrapped)
         \/ /\ a.verdict = "no room" /\ boot.reloc # << >> /\ ~search.wrapped
            /\ AppendMoves(LowMem, TRUE)
  /\ UNCHANGED <<boot, data, kernel, table, stub, entry, handle, copy, late>>

(* term_notready() frees the terminal's buffers, and the stub is put       *)
(* "where it won't get overwritten (hopefully)"                            *)
LoadStub ==
  /\ pc = "modules" /\ Len(ranges) - 1 - Len(boot.sections) > Len(boot.modules)
  /\ LET mem1 == Retyped(mem, boot.term, "usable")
         s == ext_mem_alloc(mem1, StubSize)
     IN  /\ Rooms(mem1, StubSize) # {}
         /\ mem' = Retyped(mem1, s.base..(s.top - 1), "loader")
         /\ data' = Stored(data, s.base, Bytes("stub", 0, StubSize))
         /\ stub' = s.base
  /\ pc' = "copy"
  /\ UNCHANGED <<boot, ranges, want, kernel, table, entry, handle, search, copy, clean, late>>

(* Mutant: every range is copied forwards *)
BugForwardsOnly(r, k) == k

(* A range whose target is above its source is copied backwards *)
BytePos(r, k) == IF r.target > r.elsewhere THEN r.length - 1 - k ELSE k

(* multiboot_reloc_stub: one byte, or on to the next range *)
CopyByte ==
  /\ pc = "copy" /\ copy.i <= Len(ranges)
  /\ LET r == ranges[copy.i]
         pos == BytePos(r, copy.k)
     IN  \/ /\ copy.k < r.length
            /\ data' = [data EXCEPT ![r.target + pos] = data[r.elsewhere + pos]]
            /\ copy' = [copy EXCEPT !.k = @ + 1]
         \/ /\ copy.k = r.length
            /\ copy' = [i |-> copy.i + 1, k |-> 0]
            /\ UNCHANGED data
  /\ UNCHANGED <<boot, mem, pc, ranges, want, kernel, table, stub, entry, handle, search,
                 clean, late>>

JumpToKernel ==
  /\ pc = "copy" /\ copy.i > Len(ranges)
  /\ pc' = "done"
  /\ UNCHANGED <<boot, mem, data, ranges, want, kernel, table, stub, entry, handle, search,
                 copy, clean, late>>

Steps ==
  \/ OpenKernel \/ StageImage \/ Place \/ NewTable \/ AllocInfo \/ AppendSection \/ OpenModule
  \/ CloseModule \/ elsewhere_append \/ LoadStub \/ CopyByte \/ JumpToKernel

(* panic(): out of memory *)
FitsWithPage(count) ==
  /\ Fits(count)
  /\ LET s == ext_mem_alloc(mem, count)
     IN  Rooms(Retyped(mem, s.base..(s.top - 1), "loader"), 1) # {}

ModuleNumber == Len(ranges) - 1 - Len(boot.sections)

OutOfMemory ==
  \/ pc = "open" /\ ~Fits(FileSize)
  \/ pc = "stage" /\ ~FitsWithPage(boot.image)
  \/ pc = "table" /\ ~Fits(1)
  \/ pc = "info" /\ ~Fits(InfoSize)
  \/ /\ pc = "modules" /\ ModuleNumber <= Len(boot.modules)
     /\ ~FitsWithPage(boot.modules[ModuleNumber])
  \/ /\ pc = "modules" /\ ModuleNumber > Len(boot.modules)
     /\ Rooms(Retyped(mem, boot.term, "usable"), StubSize) = {}

(* panic(): the executable can be placed nowhere, or is entered elsewhere *)
Unplaceable ==
  /\ pc = "place"
  /\ IF boot.reloc # << >> /\ Viable(boot.reloc[1]) = {} THEN TRUE
     ELSE LET target == IF boot.reloc = << >> THEN boot.target ELSE Preferred(boot.reloc[1])
          IN  \/ target + boot.image > Limit
              \/ ~check_usable_memory(mem, target, target + boot.image)
              \/ entry + (target - ranges[1].target) \notin Span(target, boot.image)

(* elsewhere_append() returns false *)
AppendFails ==
  /\ pc = "search" /\ search.tries < MaxRetries
  /\ Attempt(mem, ranges, search.target, search.length).verdict = "no room"
  /\ boot.reloc = << >> \/ search.wrapped

(* It gives up searching, or the array of ranges is full *)
AppendBreaks ==
  /\ pc = "search"
  /\ \/ search.tries >= MaxRetries
     \/ /\ Attempt(mem, ranges, search.target, search.length).verdict = "good"
        /\ Len(ranges) >= RangesMax

GiveUp == (OutOfMemory \/ Unplaceable \/ AppendFails \/ AppendBreaks) /\ Panic

Next == Steps \/ GiveUp

Spec == Init /\ [][Next]_vars

(***************************************************************************)
(* Properties                                                              *)
(***************************************************************************)

(* Once the executable is placed, no two targets share a byte, every byte  *)
(* of a target is RAM below 4 GiB, and the executable's entry point is in  *)
(* its own.                                                                *)
TargetsApart ==
  pc \notin {"open", "stage", "place", "panic"} =>
    /\ \A i, j \in DOMAIN ranges : i # j =>
         Span(ranges[i].target, ranges[i].length) \cap Span(ranges[j].target, ranges[j].length) = {}
    /\ \A a \in TargetCells(ranges) : a < Limit /\ boot.mem[a] # "reserved"
    /\ entry \in Span(ranges[1].target, ranges[1].length)

(* Where a range could go: a page boundary from the first target that was  *)
(* tried on (or, if the search may wrap around, from LowMem on), in memory *)
(* that exists, clear of every range so far                                *)
Placeable ==
  {t \in Addr : /\ t % Page = 0 /\ t + search.length <= Limit
                /\ t >= search.from \/ (boot.reloc # << >> /\ t >= LowMem)
                /\ Hits(ranges, t, search.length) = {}
                /\ MemoryExists(mem, t, search.length)}

(* elsewhere_append() fails only when there is no such place: no jump of   *)
(* its search passes over one, and neither the limit on attempts nor the   *)
(* size of the array of ranges is what stops it.                           *)
FailureIsHonest ==
  /\ ~AppendBreaks
  /\ AppendFails => Placeable = {}

(* The stub reaches its end unharmed, with the array of ranges it reads    *)
(* unharmed, and at the end every target has what was meant for it,        *)
(* whatever targets and sources overlap: what is allocated after a target  *)
(* was chosen stays off it, and what is on a source was copied before.     *)
(* This takes memory enough that no target had to go where the file, the   *)
(* array or other data of the boot loader already was.                     *)
HandoffIntact ==
  clean =>
    /\ pc = "copy" => /\ \A k \in 0..(StubSize - 1) : data[stub + k] = <<"stub", 0, k>>
                      /\ \A k \in 0..(Page - 1) : data[table + k] = <<"table", 0, k>>
    /\ pc = "done" => \A i \in DOMAIN ranges : \A k \in DOMAIN want[i] :
                        data[ranges[i].target + k] = want[i][k]

(* "Reserve the kernel's target so later module/info sources can't be      *)
(* allocated on top of it."                                                *)
NoLateSource == late = {}
=============================================================================
