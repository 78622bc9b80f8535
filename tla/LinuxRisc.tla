------------------------------ MODULE LinuxRisc -----------------------------
(***************************************************************************)
(* The Linux boot protocol of aarch64, riscv64 and loongarch64 under UEFI  *)
(* (common/protos/linux_risc.c): where the image and its initramfs are     *)
(* put, the device tree, the configuration tables and the two copies of    *)
(* the memory map.  Any call of the firmware and of libfdt may fail.       *)
(***************************************************************************)
EXTENDS Linux

CONSTANTS
  Machines, Kernels, ModuleSets,    \* see MCLoading
  Top,                \* the end of memory
  Mib2, Gib, Window,  \* 2 MiB, 1 GiB, 32 GiB
  Line48,             \* 2^48
  HeaderSize,
  OldOffset,          \* 0x80000
  Headroom,           \* 64 MiB
  Privileged          \* 0x8 << 60

VARIABLES
  machine, kernel, modules,
  pc,
  types,
  region,             \* kernel_base before text_offset is added
  limit,              \* module_limit, 0 if there is none
  opened,
  initrd,             \* where each module went
  tree,               \* the device tree blob
  tables,             \* the configuration tables installed
  todo,               \* the tables still to be installed
  mmap,               \* efi_mmap
  answer              \* what SetVirtualAddressMap() answered: kept for the properties

vars == <<machine, kernel, modules, pc, types, region, limit, opened, initrd, tree, tables, todo, mmap, answer>>

Aarch64 == machine.arch = "aarch64"
Loongarch == machine.arch = "loongarch64"
Riscv == machine.arch = "riscv64"

Init ==
  /\ machine \in Machines /\ kernel \in Kernels /\ modules \in ModuleSets
  /\ pc = "kernel"
  /\ types = [p \in 0 .. (Top \div Page) - 1 |-> IF p \in machine.free THEN "usable" ELSE "reserved"]
  /\ region = -1 /\ limit = 0 /\ opened = 0 /\ initrd = << >>
  /\ tree = None /\ tables = << >> /\ todo = << >> /\ mmap = << >> /\ answer = "none"

Same == UNCHANGED <<machine, kernel, modules, answer>>
Panic == pc' = "panic" /\ UNCHANGED <<types, region, limit, opened, initrd, tree, tables, todo, mmap>>
-----------------------------------------------------------------------------
verify_kernel == kernel.magic = machine.arch /\ (Riscv => kernel.version >= 2)

OldImage == Aarch64 /\ kernel.image_size = 0
KernelAllocSize == IF OldImage THEN kernel.size + Headroom ELSE Max({kernel.size, kernel.image_size})
TextOffset == IF OldImage THEN OldOffset ELSE IF Loongarch THEN 0 ELSE kernel.text_offset
RegionSize == AlignUp(TextOffset + KernelAllocSize, Page)

(* Where the region goes, given that the file is in memory                 *)
Placed(t) ==
  IF Aarch64 /\ kernel.anywhere THEN ext_mem_alloc_below(t, RegionSize, Mib2, Line48, FALSE, "kernel")
  ELSE IF Aarch64 THEN ext_mem_alloc_below(t, RegionSize, Mib2, Top, TRUE, "kernel")
  ELSE IF Loongarch /\ Usable(t, kernel.load_offset, RegionSize)
  THEN [at |-> kernel.load_offset, types |-> Claimed(t, kernel.load_offset, RegionSize, "kernel")]
  ELSE ext_mem_alloc(t, RegionSize, Mib2, <<Top>>, "kernel")

LoadKernel ==
  /\ pc = "kernel"
  /\ LET file == ext_mem_alloc(types, kernel.size, Page, <<Top>>, "file")
         placed == Placed(file.types)
     IN  IF file.at = -1 \/ kernel.size < HeaderSize \/ ~verify_kernel \/ placed.at = -1 THEN Panic
         ELSE /\ types' = placed.types /\ region' = placed.at
              /\ limit' = IF Aarch64 /\ ~kernel.anywhere THEN AlignDown(placed.at, Gib) + Window ELSE 0
              /\ pc' = IF modules = << >> THEN "tree" ELSE "open"
              /\ UNCHANGED <<opened, initrd, tree, tables, todo, mmap>>
  /\ Same

KernelBase == region + TextOffset
-----------------------------------------------------------------------------
(* load_module()                                                           *)
Total == TotalOf(modules)

OpenModule ==
  /\ pc = "open" /\ opened < Len(modules)
  /\ LET file == ext_mem_alloc(types, modules[opened + 1], Page, <<Top>>, "file")
     IN  IF file.at = -1 THEN Panic
         ELSE /\ types' = file.types /\ opened' = opened + 1
              /\ UNCHANGED <<pc, region, limit, initrd, tree, tables, todo, mmap>>
  /\ Same

(* The window the initramfs must share with the image on arm64             *)
OutOfWindow(at) ==
  LET low == AlignDown(Min({KernelBase, at}), Gib)
      high == Max({KernelBase + KernelAllocSize, at + Total})
  IN  Aarch64 /\ high - low > Window

(* The modules one after the other                                         *)
PlaceModules ==
  /\ pc = "open" /\ opened = Len(modules)
  /\ LET size == AlignUp(Total, Page)
         room == IF limit # 0 THEN ext_mem_alloc_below(types, size, Page, limit, FALSE, "modules")
                 ELSE ext_mem_alloc(types, size, Page, <<Top>>, "modules")
     IN  IF room.at = -1 \/ OutOfWindow(room.at) THEN Panic
         ELSE /\ types' = room.types
              /\ initrd' = [i \in DOMAIN modules |-> room.at + TotalOf(SubSeq(modules, 1, i - 1))]
              /\ pc' = "tree"
              /\ UNCHANGED <<region, limit, opened, tree, tables, todo, mmap>>
  /\ Same

Initrd == IF modules = << >> THEN None ELSE <<initrd[1], initrd[1] + Total>>
-----------------------------------------------------------------------------
(* The tree of the entry or of the configuration, of the firmware, or a    *)
(* new one, with room to grow.  A file may be bad, and libfdt may fail to  *)
(* open the firmware's tree, to enlarge any, or to make a new one          *)
get_device_tree_blob ==
  /\ pc = "tree"
  /\ LET room == ext_mem_alloc(types, Page, Page, <<Top>>, "tree")
     IN  \/ Panic
         \/ /\ machine.dtb # "bad" /\ room.at # -1
            /\ tree' = [from |-> machine.dtb, memory |-> IF machine.dtb = "new" THEN 0 ELSE machine.memory_nodes,
                        initrd |-> None, args |-> FALSE, systab |-> FALSE, secure |-> 0, mmap |-> 0]
            /\ types' = room.types
            /\ pc' = "memory"
            /\ UNCHANGED <<region, limit, opened, initrd, tables, todo, mmap>>
  /\ Same

(* prepare_device_tree_blob(): memory nodes one by one, then /chosen       *)
DeleteMemory ==
  /\ pc = "memory" /\ tree.memory > 0
  /\ \/ Panic
     \/ /\ tree' = [tree EXCEPT !.memory = @ - 1]
        /\ UNCHANGED <<pc, types, region, limit, opened, initrd, tables, todo, mmap>>
  /\ Same

SetChosen ==
  /\ pc = "memory" /\ tree.memory = 0
  /\ \/ Panic
     \/ /\ tree' = [tree EXCEPT !.initrd = Initrd, !.args = TRUE, !.systab = TRUE, !.secure = IF machine.secure THEN 3 ELSE 2]
        /\ todo' = SelectSeq(<<"screen", "memreserve", "initrd", "memmap", "dtb">>,
                             LAMBDA t : /\ t = "screen" => machine.fb
                                        /\ t = "initrd" => modules # << >>
                                        /\ t = "dtb" => Loongarch /\ machine.dtb = "path")
        /\ pc' = "tables"
        /\ UNCHANGED <<types, region, limit, opened, initrd, tables, mmap>>
  /\ Same
-----------------------------------------------------------------------------
(* prepare_efi_tables(): each table is allocated from the pool, filled and *)
(* installed                                                               *)
Filled(t) ==
  CASE t = "initrd" -> [name |-> t, initrd |-> Initrd, descs |-> << >>, tree |-> None]
    [] t = "dtb" -> [name |-> t, initrd |-> None, descs |-> << >>, tree |-> tree]
    [] OTHER -> [name |-> t, initrd |-> None, descs |-> << >>, tree |-> None]

InstallTable ==
  /\ pc = "tables" /\ todo # << >>
  /\ \/ Panic
     \/ /\ tables' = Append(tables, Filled(Head(todo)))
        /\ todo' = Tail(todo)
        /\ UNCHANGED <<pc, types, region, limit, opened, initrd, tree, mmap>>
  /\ Same

(* The last read of the map, which the loader's own tables have changed    *)
ExitBootServices ==
  /\ pc = "tables" /\ todo = << >>
  /\ \E allocates, installs \in BOOLEAN, m \in machine.maps :
       /\ tables' = IF linux_install_efi_tpm_event_log(machine.log, allocates, installs).table
                    THEN Append(tables, Filled("tpm")) ELSE tables
       /\ mmap' = m
  /\ pc' = "mmap"
  /\ UNCHANGED <<types, region, limit, opened, initrd, tree, todo>> /\ Same
-----------------------------------------------------------------------------
(* prepare_mmap()                                                          *)
WithDescs(ts, descs) == [i \in DOMAIN ts |-> IF ts[i].name = "memmap" THEN [ts[i] EXCEPT !.descs = descs] ELSE ts[i]]

Mapped(m) == [i \in DOMAIN m |-> IF m[i].runtime THEN [m[i] EXCEPT !.virtual = (IF Loongarch THEN Privileged ELSE 0) + m[i].physical]
                                 ELSE m[i]]

PublishMap ==
  /\ pc = "mmap"
  /\ \/ ~Loongarch /\ Panic
     \/ /\ Len(mmap) > machine.capacity /\ Panic
     \/ /\ Len(mmap) <= machine.capacity
        /\ tree' = IF Loongarch THEN tree ELSE [tree EXCEPT !.mmap = Len(mmap)]
        /\ mmap' = Mapped(mmap)
        /\ tables' = WithDescs(tables, Mapped(mmap))
        /\ pc' = "virtual"
        /\ UNCHANGED <<types, region, limit, opened, initrd, todo>>
  /\ Same

mark_runtime_unmapped(m) == [i \in DOMAIN m |-> IF m[i].runtime THEN [m[i] EXCEPT !.virtual = -1] ELSE m[i]]

(* The table has descriptors of its own                                    *)
Unmapped(ts) == [i \in DOMAIN ts |-> IF ts[i].name = "memmap" THEN [ts[i] EXCEPT !.descs = mark_runtime_unmapped(@)] ELSE ts[i]]

(* A bug: the firmware's refusal is taken no notice of                     *)
BugIgnoresRefusal == pc' = "jump" /\ UNCHANGED <<mmap, tables>>

OnRefusal ==
  IF Loongarch THEN pc' = "panic" /\ UNCHANGED <<mmap, tables>>
  ELSE mmap' = mark_runtime_unmapped(mmap) /\ tables' = Unmapped(tables) /\ pc' = "jump"

SetVirtualAddressMap ==
  /\ pc = "virtual"
  /\ \/ answer' = "accepted" /\ pc' = "jump" /\ UNCHANGED <<mmap, tables>>
     \/ answer' = "refused" /\ OnRefusal
  /\ UNCHANGED <<machine, kernel, modules, types, region, limit, opened, initrd, tree, todo>>

EntryOffset == kernel.entry - kernel.load_offset

jump_to_kernel ==
  /\ pc = "jump"
  /\ pc' = IF Loongarch /\ (EntryOffset < 0 \/ EntryOffset >= kernel.size) THEN "panic" ELSE "running"
  /\ UNCHANGED <<types, region, limit, opened, initrd, tree, tables, todo, mmap>> /\ Same

Next ==
  \/ LoadKernel \/ OpenModule \/ PlaceModules \/ get_device_tree_blob \/ DeleteMemory \/ SetChosen
  \/ InstallTable \/ ExitBootServices \/ PublishMap \/ SetVirtualAddressMap \/ jump_to_kernel

Spec == Init /\ [][Next]_vars
-----------------------------------------------------------------------------
Table(name) == {tables[i] : i \in {j \in DOMAIN tables : tables[j].name = name}}

(* The firmware's map, as its answer to the mapping leaves it              *)
MapAsAnswered(m) ==
  [i \in DOMAIN m |->
     IF ~m[i].runtime THEN m[i]
     ELSE [m[i] EXCEPT !.virtual = IF answer = "refused" THEN -1 ELSE IF Loongarch THEN Privileged + m[i].physical ELSE m[i].physical]]

(* A kernel that runs has all of the memory it says it needs, of its own,  *)
(* at the alignment and within the bounds its architecture sets; on arm64  *)
(* an image that cannot reach below itself is as low as it can be, and     *)
(* shares its window with the whole initramfs.  The tree and the tables    *)
(* give the same initramfs, with each module at a multiple of four.  The   *)
(* firmware's map in the configuration table is the one the tree names.    *)
(* In both, the runtime regions have the addresses given to the firmware   *)
(* if it accepted them, and none at all if it refused, when a kernel that  *)
(* cannot do without the mapping is not run.                               *)
RiscKernelCanRun ==
  pc = "running" =>
    /\ PagesOf(KernelBase, KernelAllocSize) \subseteq Held(types, "kernel")
    /\ (Loongarch /\ region = kernel.load_offset) \/ region % Mib2 = 0
    /\ Aarch64 /\ kernel.anywhere => KernelBase + KernelAllocSize <= Line48
    /\ Aarch64 /\ ~kernel.anywhere =>
         \A a \in 0 .. region - 1 : a % Mib2 # 0 \/ \E p \in PagesOf(a, RegionSize) : p \notin machine.free \/ types[p] = "file"
    /\ modules # << >> =>
         /\ PagesOf(initrd[1], Total) \subseteq Held(types, "modules")
         /\ \A i \in DOMAIN modules : initrd[i] % 4 = 0 /\ (i > 1 => initrd[i] >= initrd[i - 1] + modules[i - 1])
         /\ Table("initrd") # {} /\ \A t \in Table("initrd") : t.initrd = tree.initrd
         /\ tree.initrd = <<initrd[1], initrd[Len(modules)] + Padded(modules[Len(modules)])>>
         /\ Aarch64 => \E w \in {k * Gib : k \in 0 .. (Top \div Gib)} :
                         /\ w <= KernelBase /\ KernelBase + KernelAllocSize <= w + Window
                         /\ w <= initrd[1] /\ initrd[1] + Total <= w + Window
    /\ tree.memory = 0
    /\ {t.descs : t \in Table("memmap")} = {mmap} /\ (~Loongarch => tree.mmap = Len(mmap))
    /\ mmap \in {MapAsAnswered(m) : m \in machine.maps}
    /\ answer = "accepted" \/ (answer = "refused" /\ ~Loongarch)
    /\ Table("dtb") # {} <=> Loongarch /\ machine.dtb = "path"
    /\ \A t \in Table("dtb") : t.tree = tree
=============================================================================
