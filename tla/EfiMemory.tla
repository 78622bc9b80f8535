----------------------------- MODULE EfiMemory -----------------------------
(***************************************************************************)
(* Memory shared with UEFI firmware (the UEFI half of common/mm/pmm.s2.c   *)
(* and efi_exit_boot_services() in common/lib/misc.c).  The loader reads   *)
(* the firmware's memory map, claims what it describes as free, and works  *)
(* out of that until it either leaves boot services and publishes a map,   *)
(* or gives the memory back and starts another EFI image.  Until then the  *)
(* firmware runs beside it: its events allocate and free pages between     *)
(* any two calls.                                                          *)
(*                                                                         *)
(* A memory map is a function from pages to types: the entry lists behind  *)
(* it are the subject of Memmap and Sanitise.  One step is the loader's    *)
(* work up to and including one call of the firmware.  Panics of the       *)
(* loader end the behaviour.                                               *)
(***************************************************************************)
EXTENDS Integers, FiniteSets, FiniteSetsExt

CONSTANTS
  NPages,            \* pages 0 .. NPages - 1
  Low,               \* allocations stay below page Low (4 GiB)
  ImagePages,        \* EfiLoadSlide, EfiImageSize: the loader's own image
  StackPages,        \* what pmm_spare_firmware_stack() computes from sp
  BufferPage,        \* the pool page of the first efi_mmap
  Reserve,           \* pages left to the firmware (64 MiB)
  MaxChunk,          \* UEFI_ALLOC_MAX_PAGES
  MinChunk,          \* UEFI_ALLOC_MIN_PAGES
  FallbackChunk,     \* UEFI_ALLOC_FALLBACK_PAGES
  Slack,             \* descriptors in the 4096 bytes added to map sizes
  MaxRetries,        \* 128
  Stubborn,          \* free pages the firmware does not grant
  FirmwareMaps,      \* memory maps the firmware may start with
  Cuts,              \* where the firmware starts a descriptor regardless
  FirmwareMoves,     \* bound on what firmware events change
  Loans              \* bound on the loader's allocations

Pages == 0 .. NPages - 1

EfiTypes == {"conventional", "loader", "boot", "runtime", "acpi", "none"}

(* The loader runs from an image and out of a buffer that the firmware     *)
(* allocated for it; its stack, and page 0, are elsewhere                  *)
ASSUME EfiMemoryConstants ==
  /\ NPages \in Nat \ {0} /\ Low \in Nat /\ Reserve \in Nat
  /\ MaxChunk \in Nat \ {0} /\ MinChunk \in Nat \ {0} /\ FallbackChunk \in Nat \ {0}
  /\ Slack \in Nat /\ MaxRetries \in Nat /\ FirmwareMoves \in Nat /\ Loans \in Nat
  /\ ImagePages \subseteq Pages /\ StackPages \subseteq Pages /\ BufferPage \in Pages
  /\ ImagePages \cap (StackPages \cup {0, BufferPage}) = {}
  /\ FirmwareMaps \subseteq [Pages -> EfiTypes]
  /\ \A m \in FirmwareMaps, p \in ImagePages \cup {BufferPage} : m[p] = "loader"

Types == {"usable", "reserved", "acpi", "efi_reclaimable", "bootloader", "none"}

Map == [Pages -> Types]

VARIABLES
  pc,          \* where the loader is
  fw,          \* the firmware's map: the type of every page
  granted,     \* pages the firmware granted through AllocatePages()
  pool,        \* pages that hold memory map buffers and device paths
  moves,       \* pages firmware events changed
  memmap,      \* memmap
  untouched,   \* untouched_memmap
  loans,       \* allocations made
  recl,        \* the page of recl[]
  image,       \* the chainloaded image
  regions,     \* the entries a loop has still to visit
  claim,       \* pmm_claim_uefi_pages(): [base, left]
  outer,       \* pmm_claim_uefi_pages_fallback(): [base, left, failed]
  inner,       \* its nested call
  chunk,       \* uefi_alloc_chunk_pages
  exit         \* efi_exit_boot_services(), see NoExit

loader == <<memmap, untouched, loans, recl, image>>
claiming == <<regions, claim, outer, inner, chunk>>
vars == <<pc, fw, granted, pool, moves, loader, claiming, exit>>

Span(base, n) == base .. base + n - 1

Mark(m, S, type) == [p \in Pages |-> IF p \in S THEN type ELSE m[p]]

(* The entries of one type: maximal runs of its pages                      *)
RunTop(m, p) == Min({q \in p + 1 .. NPages : q = NPages \/ m[q] # m[p]})

Regions(m, type) ==
  {[base |-> b, top |-> RunTop(m, b)] :
     b \in {p \in Pages : m[p] = type /\ (p = 0 \/ m[p - 1] # type)}}

(* Where ext_mem_alloc_impl() can put n pages: the top of a usable entry,  *)
(* cut at the limit.  It walks the sorted entries from the last            *)
AllocBases(m, n) ==
  {Min({r.top, Low}) - n :
     r \in {e \in Regions(m, "usable") : e.base <= Min({e.top, Low}) - n}}

AllocSpan(m, n) == Span(Max(AllocBases(m, n)), n)
-----------------------------------------------------------------------------
(* init_memmap(): what the firmware's types become                         *)
our_type(type) ==
  CASE type = "conventional" -> "usable"
    [] type \in {"loader", "boot"} -> "efi_reclaimable"
    [] type = "acpi" -> "acpi"
    [] type = "none" -> "none"
    [] OTHER -> "reserved"

pmm_spare_firmware_stack(m) ==
  Mark(m, {p \in StackPages : m[p] = "usable"}, "efi_reclaimable")

(* Page 0 and the firmware's stack are kept out of the allocator's reach   *)
Imported ==
  LET typed == [p \in Pages |-> our_type(fw[p])]
      null == IF typed[0] = "usable" THEN Mark(typed, {0}, "efi_reclaimable")
              ELSE typed
  IN  pmm_spare_firmware_stack(null)

(* The map after n of the pages left to the firmware were set aside, or    *)
(* the empty function when there is no room for them                       *)
LeftToFirmware ==
  LET Left[n \in 0 .. Reserve] ==
        IF n = 0 THEN Imported
        ELSE LET m == Left[n - 1]
             IN  IF m = << >> \/ AllocBases(m, 1) = {} THEN << >>
                 ELSE Mark(m, AllocSpan(m, 1), "efi_reclaimable")
  IN  Left[Reserve]

NoFrame == [base |-> 0, left |-> 0, failed |-> 0]

NoExit == [retries |-> 0, fresh |-> FALSE, want |-> 0, mmap_alloc |-> 0,
           copy_alloc |-> 0, mmap |-> << >>, cur |-> 0, copy |-> {}]

Init ==
  /\ pc = "init"
  /\ fw \in FirmwareMaps
  /\ granted = {} /\ pool = {BufferPage} /\ moves = 0
  /\ memmap = [p \in Pages |-> "none"] /\ untouched = memmap
  /\ loans = 0 /\ recl = {} /\ image = {}
  /\ regions = {} /\ claim = NoFrame /\ outer = NoFrame /\ inner = NoFrame
  /\ chunk = MaxChunk
  /\ exit = NoExit

(* The entries init_memmap() claims, of the first copy it makes           *)
UsableEntries(m) == Regions(m, "usable")

(* init_memmap() up to the loop that claims the usable entries             *)
ReadMap ==
  /\ pc = "init"
  /\ IF LeftToFirmware = << >>
     THEN pc' = "panic" /\ UNCHANGED <<memmap, untouched, regions>>
     ELSE /\ memmap' = LeftToFirmware
          /\ untouched' = memmap'
          /\ regions' = UsableEntries(memmap')
          /\ pc' = "claim"
  /\ UNCHANGED <<fw, granted, pool, moves, loans, recl, image,
                 claim, outer, inner, chunk, exit>>
-----------------------------------------------------------------------------
(* The firmware.  AllocatePages(EfiAllocateAddress) succeeds only when all *)
(* pages are free; it may refuse any request of several pages, and does    *)
(* refuse some pages.  AllocatePool() takes a free page and fails when     *)
(* there is none                                                           *)
Grantable(S) == \A p \in S : fw[p] = "conventional" /\ p \notin Stubborn

AllocatePages(S) ==
  /\ Grantable(S)
  /\ fw' = Mark(fw, S, "loader")
  /\ granted' = granted \cup S

Refuse(S) ==
  /\ Cardinality(S) = 1 => ~Grantable(S)
  /\ UNCHANGED <<fw, granted>>

FreePages(S) ==
  /\ fw' = Mark(fw, S, "conventional")
  /\ granted' = granted \ S

Free(m) == {p \in Pages : m[p] = "conventional"}

(* Firmware events between two calls: a page is allocated or freed, and    *)
(* the key of any map read before is stale                                 *)
Firmware ==
  /\ pc \notin {"rebuild", "exited", "mapped", "raw", "exhausted"}
  /\ moves < FirmwareMoves
  /\ moves' = moves + 1
  /\ \/ \E p \in Free(fw), type \in {"boot", "runtime"} : fw' = Mark(fw, {p}, type)
     \/ \E p \in Pages : fw[p] = "boot" /\ fw' = Mark(fw, {p}, "conventional")
  /\ exit' = [exit EXCEPT !.fresh = FALSE]
  /\ UNCHANGED <<pc, granted, pool, loader, claiming>>
-----------------------------------------------------------------------------
(* pmm_claim_uefi_pages(): the next entry, and a chunk of it               *)
NextRegion ==
  /\ pc = "claim" /\ claim.left = 0 /\ regions # {}
  /\ LET r == CHOOSE r \in regions : \A o \in regions : r.base <= o.base
     IN  /\ regions' = regions \ {r}
         /\ claim' = [base |-> r.base, left |-> r.top - r.base, failed |-> 0]
  /\ UNCHANGED <<pc, fw, granted, pool, moves, loader, outer, inner, chunk, exit>>

ClaimChunk == Min({claim.left, chunk})

Halved == Min({chunk, Max({ClaimChunk \div 2, MinChunk})})

Advance(frame, n) == [frame EXCEPT !.base = @ + n, !.left = @ - n]

ClaimPages ==
  /\ pc = "claim" /\ claim.left > 0
  /\ \/ /\ AllocatePages(Span(claim.base, ClaimChunk))
        /\ claim' = Advance(claim, ClaimChunk)
        /\ UNCHANGED <<pc, outer, chunk>>
     \/ /\ Refuse(Span(claim.base, ClaimChunk)) /\ ClaimChunk > MinChunk
        /\ chunk' = Halved
        /\ UNCHANGED <<pc, claim, outer>>
     \/ /\ Refuse(Span(claim.base, ClaimChunk)) /\ ClaimChunk <= MinChunk
        /\ outer' = [base |-> claim.base, left |-> ClaimChunk, failed |-> 0]
        /\ pc' = "outer"
        /\ UNCHANGED <<claim, chunk>>
  /\ UNCHANGED <<pool, moves, loader, regions, inner, exit>>

(* pmm_claim_uefi_pages_fallback(): refused pages pile up until a grant or *)
(* the end of the call hands them back to the firmware                     *)
Failed(frame) == Span(frame.base - frame.failed, frame.failed)

pmm_mark_uefi_pages_unclaimed(frame) ==
  memmap' = Mark(memmap, Failed(frame), "efi_reclaimable")

AfterGrant(frame, n) == [Advance(frame, n) EXCEPT !.failed = 0]

AfterRefusal(frame) == [Advance(frame, 1) EXCEPT !.failed = @ + 1]

OuterChunk == Min({outer.left, FallbackChunk})

Fallback ==
  /\ pc = "outer" /\ outer.left > 0
  /\ \/ /\ AllocatePages(Span(outer.base, OuterChunk))
        /\ pmm_mark_uefi_pages_unclaimed(outer)
        /\ outer' = AfterGrant(outer, OuterChunk)
        /\ UNCHANGED <<pc, inner>>
     \/ /\ Refuse(Span(outer.base, OuterChunk)) /\ OuterChunk > 1
        /\ inner' = [base |-> outer.base, left |-> OuterChunk, failed |-> 0]
        /\ pc' = "inner"
        /\ UNCHANGED <<memmap, outer>>
     \/ /\ Refuse(Span(outer.base, OuterChunk)) /\ OuterChunk = 1
        /\ outer' = AfterRefusal(outer)
        /\ UNCHANGED <<pc, memmap, inner>>
  /\ UNCHANGED <<pool, moves, untouched, loans, recl, image, regions, claim,
                 chunk, exit>>

FallbackByPage ==
  /\ pc = "inner" /\ inner.left > 0
  /\ \/ /\ AllocatePages({inner.base})
        /\ pmm_mark_uefi_pages_unclaimed(inner)
        /\ inner' = AfterGrant(inner, 1)
     \/ /\ Refuse({inner.base})
        /\ inner' = AfterRefusal(inner)
        /\ UNCHANGED memmap
  /\ UNCHANGED <<pc, pool, moves, untouched, loans, recl, image, regions, claim,
                 outer, chunk, exit>>

(* A bug: pages refused at the end of a chunk are not marked               *)
BugLastRefusedLost(frame) == UNCHANGED memmap

LastRefused(frame) == pmm_mark_uefi_pages_unclaimed(frame)

FallbackByPageReturns ==
  /\ pc = "inner" /\ inner.left = 0
  /\ LastRefused(inner)
  /\ inner' = NoFrame
  /\ outer' = Advance(outer, OuterChunk)
  /\ pc' = "outer"
  /\ UNCHANGED <<fw, granted, pool, moves, untouched, loans, recl, image,
                 regions, claim, chunk, exit>>

FallbackReturns ==
  /\ pc = "outer" /\ outer.left = 0
  /\ LastRefused(outer)
  /\ outer' = NoFrame
  /\ claim' = Advance(claim, ClaimChunk)
  /\ pc' = "claim"
  /\ UNCHANGED <<fw, granted, pool, moves, untouched, loans, recl, image,
                 regions, inner, chunk, exit>>

(* init_memmap() after the loop: the second copy, the loader's image, and  *)
(* the buffer pmm_reclaim_uefi_mem() will need                             *)
OwnImage ==
  /\ pc = "claim" /\ claim.left = 0 /\ regions = {}
  /\ untouched' = memmap
  /\ LET own == Mark(memmap, ImagePages, "bootloader")
     IN  IF AllocBases(own, 1) = {}
         THEN pc' = "panic" /\ memmap' = own /\ UNCHANGED recl
         ELSE /\ recl' = AllocSpan(own, 1)
              /\ memmap' = Mark(own, recl', "bootloader")
              /\ pc' = "run"
  /\ claim' = NoFrame
  /\ UNCHANGED <<fw, granted, pool, moves, loans, image, regions, outer, inner,
                 chunk, exit>>
-----------------------------------------------------------------------------
(* Allocations for the bootloader, or for what outlives it                 *)
Alloc(n, type) ==
  /\ pc \in {"run", "exited"} /\ loans < Loans
  /\ AllocBases(memmap, n) # {}
  /\ memmap' = Mark(memmap, AllocSpan(memmap, n), type)
  /\ loans' = loans + 1
  /\ UNCHANGED <<pc, fw, granted, pool, moves, untouched, recl, image, claiming, exit>>

(* pmm_free() of an earlier allocation                                     *)
pmm_free(p) ==
  /\ pc \in {"run", "exited"}
  /\ memmap[p] = "bootloader" /\ p \notin ImagePages \cup recl
  /\ memmap' = Mark(memmap, {p}, "usable")
  /\ UNCHANGED <<pc, fw, granted, pool, moves, untouched, loans, recl, image,
                 claiming, exit>>

(* A bug: the image's memory is released with the rest                     *)
BugImageReleased(m, S) == m

(* chainload(): the image is taken out of the memory that will be released *)
KeepImage(m, S) == Mark(m, S, "reserved")

ChainloadRead(n) ==
  /\ pc = "run"
  /\ AllocBases(memmap, n) # {}
  /\ image' = AllocSpan(memmap, n)
  /\ memmap' = Mark(memmap, image', "reserved")
  /\ IF \E r \in Regions(untouched, "usable") : image' \subseteq r.base .. r.top - 1
     THEN untouched' = KeepImage(untouched, image') /\ pc' = "path"
     ELSE pc' = "panic" /\ UNCHANGED untouched
  /\ UNCHANGED <<fw, granted, pool, moves, loans, recl, claiming, exit>>

(* The pool a call of AllocatePool() takes a page of, or the panic         *)
AllocatePool(next, nomem) ==
  \/ /\ \E p \in Free(fw) : fw' = Mark(fw, {p}, "loader") /\ pool' = pool \cup {p}
     /\ pc' = next
  \/ /\ Free(fw) = {}
     /\ pc' = nomem
     /\ UNCHANGED <<fw, pool>>

(* The device path of the image, which has to survive the release          *)
ChainloadPath ==
  /\ pc = "path"
  /\ AllocatePool("release", "panic")
  /\ regions' = Regions(untouched, "usable")
  /\ UNCHANGED <<granted, moves, loader, claim, outer, inner, chunk, exit>>

(* pmm_release_uefi_mem(), then LoadImage() and StartImage()               *)
Release ==
  /\ pc = "release"
  /\ \/ /\ regions = {}
        /\ pc' = "started"
        /\ UNCHANGED <<fw, granted, regions>>
     \/ \E r \in regions :
          /\ \A o \in regions : r.base <= o.base
          /\ regions' = regions \ {r}
          /\ IF r.base .. r.top - 1 \subseteq granted
             THEN FreePages(r.base .. r.top - 1) /\ UNCHANGED pc
             ELSE pc' = "freefail" /\ UNCHANGED <<fw, granted>>
  /\ UNCHANGED <<pool, moves, loader, claim, outer, inner, chunk, exit>>
-----------------------------------------------------------------------------
(* The descriptors of a firmware map, by their first page and by their end *)
Starts(m) ==
  {p \in Pages : /\ m[p] # "none"
                 /\ \/ p \in Cuts \cup {0}
                    \/ m[p - 1] # m[p]}

DescriptorTop(m, p) ==
  Min({q \in p + 1 .. NPages : q = NPages \/ q \in Cuts \/ m[q] # m[p]})

(* How many entries a memory map has at least: one for every run of pages  *)
Entries(m) ==
  Cardinality({p \in Pages : m[p] # "none" /\ (p = 0 \/ m[p - 1] # m[p])})

efi_rebuilt_mmap_max_size(mmap_size) ==
  2 * (mmap_size + Slack) + 2 * Entries(untouched)

FreePool == fw' = Mark(fw, pool, "conventional") /\ pool' = {}

(* efi_exit_boot_services() up to the loop                                 *)
ExitBegins ==
  /\ pc = "run"
  /\ FreePool
  /\ exit' = NoExit
  /\ pc' = "getmap"
  /\ UNCHANGED <<granted, moves, loader, claiming>>

(* A bug: there is no end to retries                                       *)
BugRetriesForever == FALSE

RetriesOver == exit.retries = MaxRetries

(* GetMemoryMap() into the buffer there is                                 *)
GetMemoryMap ==
  /\ pc = "getmap"
  /\ \/ /\ RetriesOver
        /\ pc' = "fail"
        /\ UNCHANGED <<fw, pool, exit>>
     \/ /\ ~RetriesOver
        /\ Cardinality(Starts(fw)) <= exit.mmap_alloc
        /\ exit' = [exit EXCEPT !.mmap = fw, !.fresh = TRUE]
        /\ pc' = "leave"
        /\ UNCHANGED <<fw, pool>>
     \/ /\ ~RetriesOver
        /\ Cardinality(Starts(fw)) > exit.mmap_alloc
        /\ exit' = [exit EXCEPT !.want = Cardinality(Starts(fw)), !.fresh = FALSE]
        /\ FreePool
        /\ pc' = "grow"
  /\ UNCHANGED <<granted, moves, loader, claiming>>

Retries(e) == [e EXCEPT !.retries = Min({@ + 1, MaxRetries})]

(* The map did not fit: buffers for a map somewhat larger, and for the     *)
(* map rebuilt from it                                                     *)
GrowMap ==
  /\ pc = "grow"
  /\ AllocatePool("growcopy", "fail")
  /\ exit' = [exit EXCEPT !.mmap_alloc = exit.want + Slack, !.fresh = FALSE]
  /\ UNCHANGED <<granted, moves, loader, claiming>>

GrowCopy ==
  /\ pc = "growcopy"
  /\ AllocatePool("getmap", "fail")
  /\ exit' = Retries([exit EXCEPT !.copy_alloc = efi_rebuilt_mmap_max_size(exit.want)])
  /\ UNCHANGED <<granted, moves, loader, claiming>>

(* ExitBootServices() fails when the map changed since it was read, and    *)
(* may fail anyway                                                         *)
ExitBootServices ==
  /\ pc = "leave"
  /\ \/ exit.fresh /\ pc' = "rebuild" /\ UNCHANGED exit
     \/ exit' = Retries(exit) /\ pc' = "getmap"
  /\ UNCHANGED <<fw, granted, pool, moves, loader, claiming>>

Owned(p) == untouched[p] = "usable"

(* Where the run that starts at cur ends, in a descriptor that ends at top *)
run_top(cur, top) ==
  Min({top} \cup {q \in cur + 1 .. NPages - 1 : Owned(q) # Owned(cur)})

(* What of the firmware's map the rebuilt one does not cover yet           *)
Undescribed == {p \in exit.cur .. NPages - 1 : exit.mmap[p] # "none"}

(* One run of the rebuilt map                                              *)
Rebuild ==
  /\ pc = "rebuild" /\ Undescribed # {}
  /\ LET cur == Min(Undescribed)
         to == run_top(cur, DescriptorTop(exit.mmap, cur))
         type == IF Owned(cur) THEN "conventional" ELSE exit.mmap[cur]
     IN  exit' = [exit EXCEPT !.cur = to,
                    !.copy = @ \cup {[base |-> cur, top |-> to, type |-> type]}]
  /\ pc' = IF Cardinality(exit'.copy) = exit.copy_alloc THEN "exhausted" ELSE pc
  /\ UNCHANGED <<fw, granted, pool, moves, loader, claiming>>

Rebuilt ==
  /\ pc = "rebuild" /\ Undescribed = {}
  /\ pc' = "exited"
  /\ exit' = [NoExit EXCEPT !.copy = exit.copy]
  /\ UNCHANGED <<fw, granted, pool, moves, loader, claiming>>
-----------------------------------------------------------------------------
(* What the rebuilt map says of a page, and what a page left to the        *)
(* firmware becomes                                                        *)
EfiType(p) ==
  LET at == {d \in exit.copy : d.base <= p /\ p < d.top}
  IN  IF at = {} THEN "none" ELSE (CHOOSE d \in at : TRUE).type

(* A bug: memory the firmware still had in use is usable in either map     *)
BugRawTypes(raw, type) ==
  CASE type \in {"loader", "boot", "conventional"} -> "usable"
    [] type = "acpi" -> "acpi"
    [] OTHER -> "reserved"

ReclaimedType(raw, type) ==
  CASE type \in {"loader", "boot"} -> IF raw THEN "usable" ELSE "bootloader"
    [] type = "conventional" -> "usable"
    [] type = "acpi" -> "acpi"
    [] OTHER -> "reserved"

pmm_reclaim_uefi_mem(m, raw) ==
  [p \in Pages |-> IF m[p] = "efi_reclaimable" /\ EfiType(p) # "none"
                   THEN ReclaimedType(raw, EfiType(p)) ELSE m[p]]

(* The sanitiser drops page 0 when a base revision asks for it             *)
DropFirst(m, keep) ==
  IF ~keep /\ m[0] = "usable" THEN Mark(m, {0}, "none") ELSE m

get_memmap(keep) ==
  /\ pc = "exited"
  /\ memmap' = DropFirst(pmm_reclaim_uefi_mem(memmap, FALSE), keep)
  /\ pc' = "mapped"
  /\ UNCHANGED <<fw, granted, pool, moves, untouched, loans, recl, image, claiming, exit>>

get_raw_memmap ==
  /\ pc = "exited"
  /\ untouched' = pmm_reclaim_uefi_mem(untouched, TRUE)
  /\ pc' = "raw"
  /\ UNCHANGED <<fw, granted, pool, moves, memmap, loans, recl, image, claiming, exit>>

Ends == {"mapped", "raw", "started", "panic", "fail", "exhausted", "freefail"}

Over == pc \in Ends /\ UNCHANGED vars

Exiting == ExitBegins \/ GetMemoryMap \/ GrowMap \/ GrowCopy \/ ExitBootServices
           \/ Rebuild \/ Rebuilt

Claiming == ReadMap \/ NextRegion \/ ClaimPages \/ Fallback \/ FallbackByPage
            \/ FallbackByPageReturns \/ FallbackReturns \/ OwnImage

Running ==
  \/ \E n \in {1, 2}, type \in {"bootloader", "reserved"} : Alloc(n, type)
  \/ \E p \in Pages : pmm_free(p)
  \/ \E n \in {1, 2} : ChainloadRead(n)
  \/ ChainloadPath
  \/ Release
  \/ \E keep \in BOOLEAN : get_memmap(keep)
  \/ get_raw_memmap

Next == Claiming \/ Running \/ Exiting \/ Firmware \/ Over

(* The loader's own steps are taken: nothing but itself runs it            *)
Spec == Init /\ [][Next]_vars /\ WF_vars(Exiting)
-----------------------------------------------------------------------------

Owning == {"run", "path", "getmap", "grow", "growcopy", "leave", "rebuild", "exited"}

(* init_memmap() claims with calls any of which the firmware may refuse,   *)
(* in whole or in part, because its events took pages since the map was    *)
(* read.  Once it is done, the memory the loader allocates from and has    *)
(* allocated is exactly what the firmware granted, with the loader's own   *)
(* image: a refused page is never used, a granted one never forgotten, and *)
(* the null page and the stack it runs on are never claimed.               *)
UsesOnlyGrants ==
  pc \in Owning =>
    /\ granted = {p \in Pages : untouched[p] = "usable"} \cup image
    /\ \A p \in Pages : memmap[p] \in {"usable", "bootloader"} =>
                          p \in granted \cup ImagePages
    /\ \A p \in granted : fw[p] = "loader"
    /\ \A p \in StackPages \cup {0} :
         p \notin granted /\ memmap[p] \notin {"usable", "bootloader"}

(* chainload() gives all memory back to the firmware and then starts the   *)
(* image: no FreePages() is of memory the firmware did not grant, and the  *)
(* image and its device path stay allocated however the firmware then      *)
(* reuses what was released                                                *)
ReleaseKeepsImage ==
  /\ pc # "freefail"
  /\ pc \in {"path", "release", "started"} => image \subseteq granted
  /\ pc = "started" => granted = image /\ \A p \in pool \cup image : fw[p] = "loader"

(* Every map that is published is exact.  The rebuilt one describes each   *)
(* page of the map the firmware was left with once, what it granted as     *)
(* conventional, all else as the firmware has it at ExitBootServices().    *)
(* The map a kernel gets calls usable only what the firmware left free or  *)
(* granted and nobody allocated, reclaimable what boot services and the    *)
(* loader used, and neither what the firmware took for its runtime while   *)
(* the loader ran.  In the raw map all that is not the firmware's for good *)
(* is usable, wherever the loader put its data.                            *)
PublishedMapsExact ==
  \A p \in Pages :
    /\ pc \in {"exited", "mapped", "raw"} =>
         LET at == {d \in exit.copy : d.base <= p /\ p < d.top}
         IN  IF fw[p] = "none" THEN at = {}
             ELSE /\ \E d \in at : at = {d}
                  /\ EfiType(p) = IF p \in granted THEN "conventional" ELSE fw[p]
    /\ pc = "mapped" =>
         /\ memmap[p] # "efi_reclaimable"
         /\ p \notin granted \cup ImagePages =>
              memmap[p] \in CASE fw[p] = "conventional" /\ p # 0 -> {"usable"}
                              [] fw[p] = "conventional" /\ p = 0 -> {"usable", "none"}
                              [] fw[p] \in {"loader", "boot"} -> {"bootloader"}
                              [] OTHER -> {our_type(fw[p])}
         /\ p \in ImagePages \cup recl => memmap[p] = "bootloader"
    /\ pc = "raw" =>
         untouched[p] = IF fw[p] \in {"conventional", "loader", "boot"} THEN "usable"
                        ELSE our_type(fw[p])

(* Leaving boot services ends: in a rebuilt map or in the panic after too  *)
(* many retries, though firmware may change its map between any two calls  *)
(* and refuse to be left                                                   *)
ExitEnds == (pc = "getmap") ~> (pc \in {"exited", "fail"})
=============================================================================
