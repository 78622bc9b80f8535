------------------------------ MODULE LinuxX86 ------------------------------
(***************************************************************************)
(* The Linux boot protocol of x86 (common/protos/linux_x86.c): where the   *)
(* kernel and its initramfs are put, the zero page, and the entry that is  *)
(* used.  Addresses and sizes are in bytes of a small machine: a page has  *)
(* Page of them, what the code calls 1 MiB has Mib, and 4 GiB is at Line.  *)
(* A protocol version 2.10 is written 210.                                 *)
(***************************************************************************)
EXTENDS Linux

CONSTANTS
  Machines,       \* records of a machine, see MCLoading
  Kernels,        \* records of a kernel image and its setup header
  ModuleSets,     \* sequences of sizes
  Mib, Line, Top, Beyond,
  DefaultTop,     \* 0x38000000
  MinFile,        \* 0x206
  HeaderRoom,     \* up to edd_mbr_sig_buffer in the zero page
  ZeroPage        \* E820_MAX_ENTRIES_ZEROPAGE

VARIABLES
  machine, kernel, modules,
  pc,
  types,          \* what a page is used for
  addr,           \* kernel_load_addr
  base,           \* modules_mem_base
  opened,         \* how many modules have been opened
  placed,         \* where the modules copied so far are
  use64,          \* use_64_bit_proto
  params          \* the zero page

vars == <<machine, kernel, modules, pc, types, addr, base, opened, placed, use64, params>>

Init ==
  /\ machine \in Machines /\ kernel \in Kernels /\ modules \in ModuleSets
  /\ pc = "kernel"
  /\ types = [p \in 0 .. (Top \div Page) - 1 |-> IF p \in machine.free THEN "usable" ELSE "reserved"]
  /\ addr = 0 /\ base = 0 /\ opened = 0 /\ placed = << >> /\ use64 = FALSE /\ params = None
-----------------------------------------------------------------------------
(* Memory above 4 GiB is for the 64-bit loader, and there the last resort  *)
Limits(high) == IF high /\ machine.uefi64 THEN <<Line, Top>> ELSE <<Line>>

Version == kernel.version
RealModeSize == kernel.setup

HeaderSound ==
  /\ kernel.size >= MinFile /\ kernel.signed /\ RealModeSize <= kernel.size
  /\ kernel.header_end <= kernel.size /\ kernel.header_end <= HeaderRoom
  /\ Version >= 202 /\ kernel.loaded_high

KernelAllocSize == IF Version >= 210 THEN Max({kernel.size - RealModeSize, kernel.init_size}) ELSE kernel.size - RealModeSize
Relocatable == Version >= 205 /\ kernel.relocatable
KernelAlign == IF Relocatable THEN Max({Mib, kernel.alignment}) ELSE Mib
IsPowerOfTwo(n) == \E k \in 0 .. 10 : n = 2 ^ k
Xlf64 == machine.uefi64 /\ Version >= 212 /\ kernel.xlf

(* kernel_addr_limit, and the last address the image may begin at          *)
AddrLimit == IF Xlf64 THEN Beyond ELSE Line - 1
AddrMax == IF KernelAllocSize <= AddrLimit THEN AddrLimit - KernelAllocSize ELSE 0

(* A bug: a kernel that prefers an address may begin below it              *)
BugBelowPreferred == Mib

SearchStart ==
  IF Version >= 210 /\ kernel.pref >= Mib /\ KernelAllocSize <= AddrLimit /\ kernel.pref <= AddrLimit - KernelAllocSize
  THEN kernel.pref ELSE Mib

Panic == pc' = "panic" /\ UNCHANGED <<types, addr, base, opened, placed, use64, params>>
Same == UNCHANGED <<machine, kernel, modules>>

(* The file, the zero page and the setup header in it, and the address the *)
(* walk starts from.  One that overflows the machine's word when it is     *)
(* aligned is past AddrMax too                                             *)
LoadHeader ==
  /\ pc = "kernel"
  /\ LET file == ext_mem_alloc(types, kernel.size, Page, Limits(TRUE), "file")
         page == ext_mem_alloc(file.types, Page, Page, Limits(FALSE), "params")
     IN  IF file.at = -1 \/ ~HeaderSound \/ page.at = -1 \/ ~IsPowerOfTwo(KernelAlign) THEN Panic
         ELSE /\ types' = page.types
              /\ addr' = AlignUp(SearchStart, KernelAlign)
              /\ params' = [code32 |-> kernel.code32, ramdisk |-> 0, size |-> 0, data |-> kernel.data, e820 |-> << >>,
                            ext |-> << >>, ext_max |-> 0, fb |-> "none", efi |-> "none", tpm |-> None]
              /\ pc' = IF addr' > AddrMax THEN "panic" ELSE "place"
              /\ UNCHANGED <<base, opened, placed, use64>>
  /\ Same

(* One step of the walk for an address                                     *)
PlaceKernel ==
  /\ pc = "place"
  /\ IF Usable(types, addr, AlignUp(KernelAllocSize, Page))
     THEN /\ types' = Claimed(types, addr, AlignUp(KernelAllocSize, Page), "kernel")
          /\ use64' = (use64 \/ (machine.uefi64 /\ addr >= Line))
          /\ params' = [params EXCEPT !.code32 = IF addr < Line THEN addr ELSE @]
          /\ pc' = IF modules = << >> THEN "video" ELSE "open"
          /\ UNCHANGED <<addr, base, opened, placed>>
     ELSE IF ~Relocatable \/ addr >= Line - Mib \/ addr + KernelAlign > AddrMax THEN Panic
     ELSE addr' = addr + KernelAlign /\ UNCHANGED <<pc, types, base, opened, placed, use64, params>>
  /\ Same
-----------------------------------------------------------------------------
(* Modules                                                                 *)
Total == TotalOf(modules)

InitrdTop == IF Version <= 202 \/ kernel.initrd_max = 0 THEN DefaultTop ELSE kernel.initrd_max + 1

OpenModule ==
  /\ pc = "open"
  /\ IF opened < Len(modules)
     THEN LET file == ext_mem_alloc(types, modules[opened + 1], Page, Limits(TRUE), "file")
          IN  IF file.at = -1 THEN Panic
              ELSE /\ types' = file.types
                   /\ opened' = opened + 1
                   /\ UNCHANGED <<pc, addr, base, placed, use64, params>>
     ELSE IF Total > InitrdTop THEN Panic
     ELSE /\ base' = AlignDown(InitrdTop - Total, Mib)
          /\ pc' = "modules"
          /\ UNCHANGED <<types, addr, opened, placed, use64, params>>
  /\ Same

PlaceModules ==
  /\ pc = "modules"
  /\ IF base < Mib
     THEN LET room == ext_mem_alloc(types, Total, 2 * Mib, Limits(TRUE), "modules")
          IN  IF ~Xlf64 \/ room.at = -1 THEN Panic
              ELSE /\ base' = room.at /\ types' = room.types /\ use64' = TRUE
                   /\ pc' = "copy" /\ UNCHANGED <<addr, opened, placed, params>>
     ELSE IF Usable(types, base, AlignUp(Total, Mib))
     THEN /\ types' = Claimed(types, base, AlignUp(Total, Mib), "modules")
          /\ pc' = "copy" /\ UNCHANGED <<addr, base, opened, placed, use64, params>>
     ELSE base' = base - Mib /\ UNCHANGED <<pc, types, addr, opened, placed, use64, params>>
  /\ Same

CopyModule ==
  /\ pc = "copy"
  /\ IF Len(placed) < Len(modules)
     THEN LET n == Len(placed)
              at == IF n = 0 THEN base ELSE placed[n] + Padded(modules[n])
          IN  placed' = Append(placed, at) /\ UNCHANGED <<pc, params>>
     ELSE /\ params' = [params EXCEPT !.ramdisk = base, !.size = Total]
          /\ pc' = "video" /\ UNCHANGED placed
  /\ UNCHANGED <<types, addr, base, opened, use64>> /\ Same
-----------------------------------------------------------------------------
(* fb_init(), or text mode on BIOS                                         *)
Video ==
  /\ pc = "video"
  /\ params' = [params EXCEPT !.fb = IF machine.fb /\ (machine.uefi \/ ~machine.textmode) THEN "lfb" ELSE IF machine.uefi THEN "none" ELSE "text"]
  /\ pc' = "reserve"
  /\ UNCHANGED <<types, addr, base, opened, placed, use64>> /\ Same

(* Room for memory map entries the zero page does not hold                 *)
ReserveE820 ==
  /\ pc = "reserve"
  /\ LET more == Version >= 209 /\ machine.max_entries > ZeroPage
         room == ext_mem_alloc(types, Page, Page, Limits(FALSE), "ext")
     IN  IF more /\ room.at = -1 THEN Panic
         ELSE /\ types' = IF more THEN room.types ELSE types
              /\ params' = [params EXCEPT !.ext_max = IF more THEN machine.max_entries - ZeroPage ELSE 0]
              /\ pc' = IF machine.uefi THEN "efi" ELSE "publish"
              /\ UNCHANGED <<addr, base, opened, placed, use64>>
  /\ Same

(* The firmware's tables, and the end of its boot services                 *)
ExitBootServices ==
  /\ pc = "efi"
  /\ \E allocates, installs \in BOOLEAN :
       params' = [params EXCEPT !.tpm = linux_install_efi_tpm_event_log(machine.log, allocates, installs),
                                !.efi = IF machine.uefi64 THEN "EL64" ELSE "EL32"]
  /\ pc' = "publish"
  /\ UNCHANGED <<types, addr, base, opened, placed, use64>> /\ Same

(* get_raw_memmap(): entries for the bootloader's own use are left out     *)
Publish ==
  /\ pc = "publish"
  /\ \E raw \in machine.raws :
       LET told == SelectSeq(raw, LAMBDA e : e.type < 4096)
           ext == SubSeq(told, ZeroPage + 1, Len(told))
       IN  IF Len(ext) > params.ext_max THEN pc' = "dead" /\ UNCHANGED params
           ELSE /\ params' = [params EXCEPT !.e820 = SubSeq(told, 1, Min({ZeroPage, Len(told)})), !.ext = ext,
                                            !.data = IF ext = << >> THEN @ ELSE <<"ext">> \o @]
                /\ pc' = "quirks"
  /\ UNCHANGED <<types, addr, base, opened, placed, use64>> /\ Same

(* The version the image gives, 0 if it gives none that can be read        *)
linux_version_of == kernel.linux

(* An IOMMU left on is for kernels that know to take it over               *)
Handed == [vtd |-> machine.iommu /\ linux_version_of >= 402, amdvi |-> machine.iommu /\ linux_version_of >= 414,
           x2apic |-> machine.x2apic = "locked", entry64 |-> use64 /\ Xlf64]

Spinup ==
  /\ pc = "quirks"
  /\ params' = [x \in (DOMAIN params) \cup (DOMAIN Handed) |-> IF x \in DOMAIN params THEN params[x] ELSE Handed[x]]
  /\ pc' = "running"
  /\ UNCHANGED <<types, addr, base, opened, placed, use64>> /\ Same

Next ==
  \/ LoadHeader \/ PlaceKernel \/ OpenModule \/ PlaceModules \/ CopyModule
  \/ Video \/ ReserveE820 \/ ExitBootServices \/ Publish \/ Spinup

Spec == Init /\ [][Next]_vars
-----------------------------------------------------------------------------
(* A kernel that runs lies in memory reserved for the whole of what it     *)
(* unpacks into, where its header lets it be, and neither the files nor    *)
(* the zero page nor the initramfs share it; the initramfs holds every     *)
(* module at a multiple of four, one after the other, as high as the       *)
(* header allows or, with the 64-bit entry alone, above; what lies above   *)
(* 4 GiB is entered with 64 bits; the memory map is complete, in order,    *)
(* and the kernel's own setup_data still follows it.                       *)
KernelCanRun ==
  pc = "running" =>
    /\ PagesOf(addr, KernelAllocSize) = Held(types, "kernel") /\ addr >= Mib /\ addr % KernelAlign = 0
    /\ Relocatable => (Version >= 210 /\ kernel.pref >= Mib /\ kernel.pref + KernelAllocSize <= AddrLimit => addr >= kernel.pref)
    /\ ~Relocatable => addr = AlignUp(SearchStart, Mib)
    /\ ~params.entry64 => addr + KernelAllocSize <= Line /\ params.ramdisk + params.size <= Line /\ params.code32 = addr
    /\ modules # << >> =>
         /\ PagesOf(params.ramdisk, params.size) \subseteq Held(types, "modules")
         /\ placed[1] = params.ramdisk /\ placed[Len(placed)] + Padded(modules[Len(modules)]) = params.ramdisk + params.size
         /\ \A i \in DOMAIN modules : placed[i] % 4 = 0 /\ (i > 1 => placed[i] >= placed[i - 1] + modules[i - 1])
         /\ ~params.entry64 => params.ramdisk + params.size <= InitrdTop
    /\ params.e820 \o params.ext \in {SelectSeq(r, LAMBDA e : e.type < 4096) : r \in machine.raws}
    /\ params.data = IF params.ext = << >> THEN kernel.data ELSE <<"ext">> \o kernel.data
=============================================================================
