----------------------------- MODULE MCLoading ------------------------------
(***************************************************************************)
(* What brings a kernel into memory, each part on its own inputs: the URIs *)
(* of files, ELF images, and Linux kernels on x86 and on the other machines.*)
(* A behaviour is one of the part that component names; the variables of   *)
(* the others stay empty.                                                  *)
(***************************************************************************)
EXTENDS Integers, Sequences

CONSTANTS
  MaxRequests, Addresses, LongUri, LongName, MaxPartition, Pages, HighLine, FirstCap, DoubleUpTo,
  Stride, MaxPacket, MaxTries, Limit, Mib, Line, Beyond, DefaultTop, MinFile, HeaderRoom, ZeroPage,
  Mib2, Gib, Window, Line48, HeaderSize, OldOffset, Headroom, Privileged

VARIABLES
  component,
  world, connected, ack, request, parsed, raw, used, comp, buf, pos, vouched, owned, results,
  exe, task, size, slide, tries, relocs, k, entry, ranges, filled, found,
  addr, placed, use64, params,
  region, limit, initrd, tree, tables, todo, mmap, answer,
  pc, mem, base, machine, kernel, modules, types, opened

(* The inputs, from modules whose own constants do not matter for them     *)
UI == INSTANCE MCUri WITH
  Worlds <- {}, Requests <- {}, NumberOf <- << >>, DigestOf <- << >>, MixedGuid <- << >>, BeGuid <- << >>
EI == INSTANCE MCElf WITH Executables <- {}

(* A machine of a few dozen pages, the last below 4 GiB being the reset    *)
(* vector's and never memory, and kernels of every protocol                *)
E820(type, n) == [type |-> type, base |-> n]
FewEntries == <<E820(1, 0), E820(4097, 1), E820(2, 2)>>
ManyEntries == <<E820(1, 0), E820(2, 1), E820(1, 2), E820(4096, 3), E820(3, 4), E820(1, 5)>>

BiosPc == [free |-> (2 .. 22) \cup (24 .. 27), uefi |-> FALSE, uefi64 |-> FALSE, textmode |-> FALSE, fb |-> TRUE, max_entries |-> 2,
         raws |-> {FewEntries, ManyEntries}, iommu |-> TRUE, x2apic |-> "on", log |-> "none"]
UefiPc == [BiosPc EXCEPT !.free = (2 .. 22) \cup (24 .. 31), !.uefi = TRUE, !.uefi64 = TRUE, !.max_entries = 5, !.x2apic = "locked", !.log = "sound"]

Pcs ==
  {BiosPc, [BiosPc EXCEPT !.textmode = TRUE, !.free = (2 .. 5) \cup (8 .. 20), !.max_entries = 5],
   [BiosPc EXCEPT !.uefi = TRUE, !.fb = FALSE, !.free = {2, 4, 6} \cup (8 .. 11) \cup {13, 14, 15, 16, 17}], UefiPc,
   [UefiPc EXCEPT !.log = "empty", !.free = (2 .. 7) \cup (10 .. 13) \cup (24 .. 31)],
   [UefiPc EXCEPT !.free = {3, 4, 6, 7, 9} \cup {20, 21, 22} \cup (24 .. 31)],
   [BiosPc EXCEPT !.free = {4, 5}], [BiosPc EXCEPT !.free = {4, 5, 6}, !.max_entries = 5]}

BzImage == [size |-> 20, signed |-> TRUE, setup |-> 6, header_end |-> 6, version |-> 212, loaded_high |-> TRUE, relocatable |-> TRUE,
         alignment |-> 16, init_size |-> 30, pref |-> 32, xlf |-> TRUE, initrd_max |-> 150, data |-> <<"own">>, code32 |-> 16,
         linux |-> 601]

BzImages ==
  {BzImage, [BzImage EXCEPT !.xlf = FALSE, !.initrd_max = 95], [BzImage EXCEPT !.alignment = 32, !.pref = 40], [BzImage EXCEPT !.alignment = 24],
   [BzImage EXCEPT !.alignment = 32, !.xlf = FALSE], [BzImage EXCEPT !.alignment = 32, !.xlf = FALSE, !.pref = 161],
   [BzImage EXCEPT !.version = 210, !.init_size = 10, !.linux = 402], [BzImage EXCEPT !.version = 209, !.linux = 0, !.data = << >>],
   [BzImage EXCEPT !.relocatable = FALSE, !.pref = 48, !.linux = 413], [BzImage EXCEPT !.version = 202, !.initrd_max = 20],
   [BzImage EXCEPT !.version = 203, !.initrd_max = 0], [BzImage EXCEPT !.version = 203, !.initrd_max = 20],
   [BzImage EXCEPT !.pref = 200], [BzImage EXCEPT !.pref = 176], [BzImage EXCEPT !.init_size = 260],
   [BzImage EXCEPT !.init_size = 260, !.xlf = FALSE], [BzImage EXCEPT !.init_size = 60, !.pref = 100, !.xlf = FALSE],
   [BzImage EXCEPT !.size = 5], [BzImage EXCEPT !.signed = FALSE], [BzImage EXCEPT !.setup = 21], [BzImage EXCEPT !.header_end = 21],
   [BzImage EXCEPT !.header_end = 9], [BzImage EXCEPT !.version = 201], [BzImage EXCEPT !.loaded_high = FALSE], [BzImage EXCEPT !.size = 6, !.init_size = 0]}

PcModules == {<< >>, <<5>>, <<3, 9>>, <<4, 0, 13>>, <<40>>, <<40, 40>>, <<0>>}

(* Machines of 48 pages whose largest windows are half of that             *)
Descriptor(physical, runtime) == [physical |-> physical, runtime |-> runtime, virtual |-> 0]
Map2 == <<Descriptor(0, FALSE), Descriptor(3, TRUE)>>
Map3 == <<Descriptor(0, TRUE), Descriptor(2, FALSE), Descriptor(3, TRUE)>>
Map4 == Map3 \o <<Descriptor(5, FALSE)>>

Board == [arch |-> "aarch64", free |-> 2 .. 47, dtb |-> "efi", memory_nodes |-> 2, secure |-> TRUE, fb |-> TRUE,
         capacity |-> 3, maps |-> {Map3, Map4}, log |-> "sound"]
BoardWith(arch, free, dtb) == [Board EXCEPT !.arch = arch, !.free = free, !.dtb = dtb, !.fb = dtb # "new", !.secure = dtb = "path",
                                         !.log = IF dtb = "path" THEN "large" ELSE "none", !.maps = {Map2, Map4}]

Boards ==
  {Board, BoardWith("aarch64", (1 .. 5) \cup {7} \cup (10 .. 19) \cup (30 .. 47), "new"),
   BoardWith("aarch64", {1, 2, 3} \cup (36 .. 47), "path"), BoardWith("aarch64", {2} \cup (28 .. 47), "bad"),
   BoardWith("aarch64", (4 .. 19) \cup {46, 47}, "new"), BoardWith("aarch64", (1 .. 3) \cup (5 .. 12) \cup (30 .. 45), "efi"),
   BoardWith("riscv64", (2 .. 11) \cup (20 .. 41), "efi"), BoardWith("riscv64", 30 .. 39, "new"),
   BoardWith("loongarch64", 2 .. 47, "path"), BoardWith("loongarch64", {4} \cup (20 .. 46), "new")}

Image == [magic |-> "aarch64", version |-> 2, size |-> 18, image_size |-> 26, text_offset |-> 0, anywhere |-> FALSE,
           load_offset |-> 16, entry |-> 20]
Images ==
  {Image, [Image EXCEPT !.anywhere = TRUE], [Image EXCEPT !.text_offset = 8], [Image EXCEPT !.image_size = 0],
   [Image EXCEPT !.size = 3], [Image EXCEPT !.anywhere = TRUE, !.image_size = 70, !.text_offset = 4]}
  \cup {[image EXCEPT !.magic = "riscv64"] : image \in {Image, [Image EXCEPT !.version = 1], [Image EXCEPT !.text_offset = 16]}}
  \cup {[image EXCEPT !.magic = "loongarch64"] : image \in {Image, [Image EXCEPT !.entry = 40], [Image EXCEPT !.entry = 12],
                                                   [Image EXCEPT !.load_offset = 80, !.entry = 80]}}

BoardModules == {<< >>, <<5>>, <<3, 9>>, <<0>>, <<30, 2>>}

Worlds == UI!MCWorlds
Asked == UI!MCRequests
Executables == EI!MCExecutables

U == INSTANCE Uri WITH
  Requests <- Asked, NumberOf <- UI!MCNumbers, DigestOf <- UI!MCDigests, MixedGuid <- UI!MCMixed,
  BeGuid <- UI!MCBe
E == INSTANCE Elf
X == INSTANCE LinuxX86 WITH
  Machines <- Pcs, Kernels <- BzImages, ModuleSets <- PcModules, Page <- 8,
  Top <- 256
R == INSTANCE LinuxRisc WITH
  Machines <- Boards, Kernels <- Images, ModuleSets <- BoardModules, Page <- 4,
  Top <- 192
-----------------------------------------------------------------------------
uriOnly ==
  <<world, connected, ack, request, parsed, raw, used, comp, buf, pos, vouched, owned, results>>
elfOnly ==
  <<exe, task, size, slide, tries, relocs, k, entry, ranges, filled, found>>
x86Only ==
  <<addr, placed, use64, params>>
riscOnly ==
  <<region, limit, initrd, tree, tables, todo, mmap, answer>>
vars == <<component, pc, mem, base, machine, kernel, modules, types, opened, uriOnly, elfOnly, x86Only, riscOnly>>

NoUri ==
  /\ world = 0 /\ connected = 0 /\ ack = 0 /\ request = 0 /\ parsed = 0 /\ raw = 0
  /\ used = 0 /\ comp = 0 /\ buf = 0 /\ pos = 0 /\ vouched = 0 /\ owned = 0
  /\ results = 0
NoElf ==
  /\ exe = 0 /\ task = 0 /\ size = 0 /\ slide = 0 /\ tries = 0 /\ relocs = 0
  /\ k = 0 /\ entry = 0 /\ ranges = 0 /\ filled = 0 /\ found = 0
NoX86 ==
  /\ addr = 0 /\ placed = 0 /\ use64 = 0 /\ params = 0
NoRisc ==
  /\ region = 0 /\ limit = 0 /\ initrd = 0 /\ tree = 0 /\ tables = 0 /\ todo = 0
  /\ mmap = 0 /\ answer = 0

Init ==
  \/ component = "uri" /\ U!Init /\ NoElf /\ NoX86 /\ NoRisc /\ base = 0 /\ machine = 0 /\ kernel = 0 /\ modules = 0 /\ types = 0 /\ opened = 0
  \/ component = "elf" /\ E!Init /\ NoUri /\ NoX86 /\ NoRisc /\ machine = 0 /\ kernel = 0 /\ modules = 0 /\ types = 0 /\ opened = 0
  \/ component = "x86" /\ X!Init /\ NoUri /\ NoElf /\ NoRisc /\ mem = 0
  \/ component = "risc" /\ R!Init /\ NoUri /\ NoElf /\ NoX86 /\ mem = 0 /\ base = 0

UriStep == component = "uri" /\ U!Next /\ UNCHANGED <<component, base, machine, kernel, modules, types, opened, elfOnly, x86Only, riscOnly>>
ElfStep == component = "elf" /\ E!Next /\ UNCHANGED <<component, machine, kernel, modules, types, opened, uriOnly, x86Only, riscOnly>>
X86Step == component = "x86" /\ X!Next /\ UNCHANGED <<component, mem, uriOnly, elfOnly, riscOnly>>
RiscStep == component = "risc" /\ R!Next /\ UNCHANGED <<component, mem, base, uriOnly, elfOnly, x86Only>>

Next == UriStep \/ ElfStep \/ X86Step \/ RiscStep

Spec == Init /\ [][Next]_vars
-----------------------------------------------------------------------------
(* A URI that is opened gives the very bytes it names, or fails cleanly    *)
ResourceExact == component = "uri" => U!ResourceExact

(* The image in memory is what the executable describes                    *)
ImageExact == component = "elf" => E!ImageExact

(* A Linux kernel is entered on x86 with all it was told of in place       *)
KernelCanRun == component = "x86" => X!KernelCanRun

(* A Linux kernel is entered on the other machines with all it was told of *)
(* in place                                                                *)
RiscKernelCanRun == component = "risc" => R!RiscKernelCanRun
=============================================================================
