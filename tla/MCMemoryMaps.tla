---------------------------- MODULE MCMemoryMaps ----------------------------
(***************************************************************************)
(* The maps of memory, each on its own inputs: the repair of the firmware's*)
(* map, what is claimed from UEFI and given back to it, and the page tables*)
(* made from the final map.  A behaviour is one of the part that component *)
(* names; the variables of the others stay as they are.                    *)
(***************************************************************************)
EXTENDS EfiMemory, Sequences

CONSTANTS
  PageSize, AddrTop, MaxEntries, KeepFirstPage, Page, FourGiB

VARIABLES
  component,
  entries, i, at,
  phase, j, ins, align, passes, once,
  boot, mode, offset, pending, calls, pagemap

(* Every map of up to three of these entries, within four pages of two     *)
(* addresses: empty, overlapping, adjacent, nested, equal and wrapping     *)
Entry(b, n, type) == [base |-> b, length |-> n, type |-> type]

AnyEntry ==
  {Entry(b, n, "usable") : b \in {0, 1, 3}, n \in {0, 2, 4}}
    \cup {Entry(b, n, "bootloader") : b \in {1, 2}, n \in {0, 1, 3}}
    \cup {Entry(4, 4, "usable"), Entry(3, 1, "reserved"), Entry(3, 5, "reserved")}

Maps == UNION {[1..n -> AnyEntry] : n \in 1..3}
Inserts == {Entry(1, 3, "bootloader")}

(* Page 1 is the pool and page 2 the image of the loader, 3 to 5 its       *)
(* stack.  One map has a run of free pages longer than MaxChunk and        *)
(* describes the stack as free; one has page 0 and memory above Low; one   *)
(* has little memory; one has no more than the page that is left to the    *)
(* firmware                                                                *)
UefiMaps ==
  LET c == "conventional"
      FromSeq(s) == [p \in Pages |-> IF p < Len(s) THEN s[p + 1] ELSE "none"]
  IN  {FromSeq(<<"boot", "loader", "loader", c, "runtime", c, c, c, c, c, c>>),
       FromSeq(<<c, "loader", "loader", "none", "none", "none", "acpi", c, "none", c, "none", c>>),
       FromSeq(<<"boot", "loader", "loader", "acpi", "none", "runtime", c, c, "none", c>>),
       FromSeq(<<"boot", "loader", "loader", "none", "none", "none", c>>)}

(* For the page tables: a 4 KiB page has two bytes, a 2 MiB page two pages *)
(* and a 1 GiB page four; 4 GiB is four pages too.  Three, four and five   *)
(* levels span 16, 32 and 64 pages of either half, so direct maps of up to *)
(* 4, 12 and 28 pages fit.  The executable is in the last four pages.      *)
Fanout == [l \in 0..4 |-> IF l = 2 THEN 4 ELSE 2]

MapEntry(b, t, type) == [base |-> b, top |-> t, type |-> type]

Usable(b, t) == MapEntry(b, t, "usable")

(* Memory with a hole and half pages; with many types; in one piece        *)
Holes == <<Usable(2, 13), MapEntry(13, 16, "reserved"), Usable(16, 22)>>

ManyTypes ==
  <<Usable(2, 8), MapEntry(8, 12, "kernel"), Usable(12, 15), MapEntry(15, 17, "efi_reclaimable"),
    MapEntry(17, 18, "bad"), MapEntry(20, 23, "acpi_nvs")>>

Plain == <<Usable(0, 24)>>

(* Too little for more than three levels; what needs five; too much        *)
Small == <<Usable(2, 8)>>

Large == <<Usable(0, 8), Usable(16, 56)>>

Huge == <<Usable(0, 8), Usable(56, 64)>>

Fb(b, t) == [base |-> b, top |-> t]

Framebuffers ==
  {<< >>, <<Fb(9, 11)>>, <<Fb(16, 20)>>, <<Fb(18, 21), Fb(24, 29)>>, <<Fb(16, 19), Fb(19, 24)>>,
   <<Fb(16, 20), Fb(20, 22)>>,
   <<Fb(50, 54)>>}

Segment(b, n, perms) == [base |-> b, length |-> n, perms |-> perms]

Ranges == <<Segment(248, 2, {"x"}), Segment(250, 4, {"w"}), Segment(254, 2, {})>>

NoRequest == [asked |-> FALSE, mode |-> 0, min |-> 0, max |-> 0]

Request(wanted, min, max) == [asked |-> TRUE, mode |-> wanted, min |-> min, max |-> max]

Machine(arch, largest, wc, kaslr, nx) ==
  [arch |-> arch, largest |-> largest, wc |-> wc, kaslr |-> kaslr, nx |-> nx]

Boot(machine, cpuMax, physTop, rev, map, fbs, userMin, userMax, request) ==
  [arch |-> machine.arch, largest |-> machine.largest, wc |-> machine.wc,
   kaslr |-> machine.kaslr, nx |-> machine.nx, cpuMax |-> cpuMax, physTop |-> physTop,
   rev |-> rev, map |-> map, fbs |-> fbs, ranges |-> Ranges, physBase |-> 8, virtBase |-> 248,
   userMin |-> userMin, userMax |-> userMax, request |-> request]

Machines ==
  {Machine("x86", 2, TRUE, TRUE, TRUE), Machine("x86", 1, FALSE, FALSE, FALSE),
   Machine("aarch64", 2, TRUE, FALSE, TRUE), Machine("riscv", 2, FALSE, TRUE, TRUE),
   Machine("loongarch", 0, TRUE, FALSE, TRUE)}

MapBoots ==
  {Boot(m, 4, 64, rev, map, fbs, 3, 5, NoRequest) :
     m \in Machines, rev \in {0, 1, 3, 4}, map \in {Holes, ManyTypes, Plain}, fbs \in Framebuffers}

Requests ==
  {NoRequest} \cup
  {Request(wanted, min, max) : wanted \in 4..5, min \in 3..5, max \in 4..5}

Depths(m) == IF m.arch = "riscv" THEN 3..5 ELSE 4..5

ModeBoots ==
  UNION {{Boot(m, cpuMax, physTop, 3, map, << >>, userMin, userMax, request) :
            cpuMax \in {n \in Depths(m) : n >= 4 \/ map = Small}, physTop \in IF map = Large THEN {32, 64} ELSE {64},
            userMin \in Depths(m), userMax \in Depths(m), request \in Requests} :
         m \in {Machine("x86", 2, TRUE, TRUE, TRUE), Machine("riscv", 2, TRUE, TRUE, TRUE)},
         map \in {Small, Plain, Large, Huge}}

Boots == MapBoots \cup ModeBoots

S == INSTANCE Sanitise WITH memmap <- entries
D == INSTANCE DirectMap WITH memmap <- entries, pc <- at
-----------------------------------------------------------------------------
sanitiseOnly == <<phase, j, ins, align, passes, once>>
directOnly == <<at, boot, mode, offset, pending, calls, pagemap>>
maps == <<component, entries, i, sanitiseOnly, directOnly, vars>>

NoSanitise ==
  phase = "none" /\ j = 0 /\ ins = 0 /\ align = 0 /\ passes = 0 /\ once = 0
NoEfi ==
  /\ pc = "none" /\ fw = 0 /\ granted = 0 /\ pool = 0 /\ moves = 0 /\ memmap = 0 /\ untouched = 0
  /\ loans = 0 /\ recl = 0 /\ image = 0 /\ regions = 0 /\ claim = 0 /\ outer = 0 /\ inner = 0
  /\ chunk = 0 /\ exit = 0
NoDirect ==
  at = "none" /\ boot = 0 /\ mode = 0 /\ offset = 0 /\ pending = 0 /\ calls = 0 /\ pagemap = 0

MapsInit ==
  \/ component = "sanitise" /\ S!Init /\ NoEfi /\ NoDirect
  \/ component = "efi" /\ Init /\ NoSanitise /\ NoDirect /\ entries = << >> /\ i = 0
  \/ component = "direct" /\ D!Init /\ NoSanitise /\ NoEfi

SanitiseStep == component = "sanitise" /\ S!Next /\ UNCHANGED <<component, vars, directOnly>>
EfiStep == component = "efi" /\ Next /\ UNCHANGED <<component, entries, i, sanitiseOnly, directOnly>>
DirectStep == component = "direct" /\ D!Next /\ UNCHANGED <<component, vars, sanitiseOnly>>

MapsNext == SanitiseStep \/ EfiStep \/ DirectStep

(* The loops of the map run by themselves, and so does the loader once it  *)
(* leaves boot services                                                    *)
SanitiseRuns == component = "sanitise" /\ S!Run /\ UNCHANGED <<component, vars, directOnly>>
EfiExits ==
  component = "efi" /\ Exiting /\ UNCHANGED <<component, entries, i, sanitiseOnly, directOnly>>

MapsSpec == MapsInit /\ [][MapsNext]_maps /\ WF_maps(SanitiseRuns) /\ WF_maps(EfiExits)
-----------------------------------------------------------------------------
(* What pmm_sanitise_entries() leaves is sorted, disjoint, merged, aligned *)
SanitisedMap == component = "sanitise" => S!SanitisedMap

(* pmm_sanitise_entries() comes to an end                                  *)
Settles == <>(component # "sanitise" \/ S!Over)

(* The paging mode is the allowed one nearest to the one asked for         *)
NearestMode == component = "direct" => D!NearestMode

(* Mapping panics only where large pages of both kinds really meet         *)
SplitsAreSound == component = "direct" => D!SplitsAreSound

(* The direct map translates each address just as promised                 *)
DirectMapExact == component = "direct" => D!DirectMapExact

(* The executable's segments are mapped with their own permissions         *)
ExecutableMapped == component = "direct" => D!ExecutableMapped
=============================================================================
