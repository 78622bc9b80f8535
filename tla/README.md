# Limine in TLA+

A verification development for the Limine boot loader: TLA+ modules translated from
the sources under `src/`, TLC models that check them on small instances, and TLAPS
proofs that carry the most important results over to all instances. `PROJECT.json`
maps every definition to the lines it models, and lists the parts of the system, the
runs, a mutant for each property, the findings, the hazards and the theorems.

## The system and its parts

Limine boots BIOS and UEFI machines. A host tool (`host/limine.c`) puts the BIOS
stages on a disk. On the machine the loader

1. repairs the firmware's memory map and allocates from it (`common/mm/pmm.s2.c`); on
   UEFI it first claims the free pages from the firmware and later leaves boot
   services (`common/lib/misc.c`) or gives the pages back to chainload another image
   (`common/protos/chainload.c`);
2. finds disks, partitions and volumes (`common/drivers/disk.s2.c`,
   `common/lib/part.s2.c`) and reads files from FAT and ISO 9660 (`common/fs/`), by
   TFTP or as named by URIs (`common/lib/uri.c`);
3. reads its configuration (`common/lib/config.c`) and shows the menu with its editor
   (`common/menu.c`);
4. loads an executable by one of several protocols (`common/protos/`): Limine, Linux,
   Multiboot 1 and 2; it loads ELF images (`common/lib/elf.c`), makes page tables
   (`common/mm/vmm.c`) and starts the other processors (`common/sys/smp.c`).

The parts run one after another on one processor. What is concurrent is the firmware
(UEFI events between any two calls), the other processors while they are started, and
the disk and network devices, which fail at any transfer. Part after part works on
the state that the parts before it left: that is where most of the properties are.

## Modules

| Module | Code | State and steps |
| --- | --- | --- |
| `HostInstaller` | `host/limine.c`, `bios_install()`, `uninstall()`, the device layer | device, one-block cache, journal `uninstall_data`, file of uninstall data; a step is one chunk of a transfer, any of which fails |
| `Memmap` | `pmm_new_entry()`, `pmm_sanitise_entries()` | the array `memmap` and the loop indices; a step is one turn of one loop |
| `Sanitise` | the same on maps of any shape | `Memmap` started on every small map |
| `AddressSpace` | what the allocator promises | owner of each address, ranges handed out |
| `Pmm` | the BIOS allocator on top of `Memmap` | the stage of start-up, `conv_mem_alloc()`'s base, ranges handed out; each entry point starts the loops of `Memmap` |
| `EfiMemory` | UEFI half of `pmm.s2.c`, `efi_exit_boot_services()`, `chainload()` | the firmware's map and grants, the loader's maps, the frames of the two fallbacks; a step is the work up to one firmware call |
| `Vmm` | `map_page()`, `get_next_level()` | page tables as nested functions, an operator |
| `DirectMap` | paging mode, framebuffers, `build_pagemap()` in `protos/limine.c` | memory map, mode, `map_pages()` calls under way, page tables |
| `Smp` | `smp.c`, `lapic.c`, four trampolines, the MP response | `passed_info`, the table, where each processor is in its trampoline |
| `Elsewhere` | `lib/elsewhere.c` | the search for targets, an operator |
| `Multiboot` | `multiboot1.c`, `multiboot2.c`, the relocation stub | memory byte by byte, ranges to move; the stub moves one byte per step |
| `VolumeRead` | `volume_read()`, `cache_block()`, `disk_read_sectors()` | the cached block and the read under way; a step is one chunk |
| `Partitions` | GPT, MBR, EBR chains in `part.s2.c` | the memos carried from one `part_get()` to the next |
| `Volumes` | `disk.s2.c` | volumes indexed so far, handles seen, late controllers |
| `Fat`, `Iso` | `fat32.s2.c`, `iso9660.s2.c`, `file.s2.c` | the directory walk, the open file |
| `Config` | `config.c` | the text while it is split, macros, the tree of entries |
| `Menu`, `Editor` | `menu.c`, `bli.c`, `panic.s2.c` | tree, selection, timeout, variables kept between boots; buffer, cursor and window |
| `Uri` | `uri.c`, `tftp.s2.c`, `gzip` and hash calls | the resource being fetched, checked and unpacked, with its memory |
| `Elf` | `elf.c` | headers, slide, relocations, segments, ranges |
| `Linux`, `LinuxX86`, `LinuxRisc` | `linux_x86.c`, `linux_risc.c` | kernel, initramfs, parameters or device tree, and the memory they take |

`MC*` modules hold TLC's inputs. Four of them combine components that are checked by
one run: `MCMemoryMaps`, `MCStorage`, `MCConsole` and `MCLoading` have a variable
`component` that says which component a behaviour is of, and the variables of the
others stay at a constant. A component's properties are stated in its module; those of
the same name in an `MC` module only restrict them to its behaviours.
`*Proofs` modules hold theorems.

Data is abstracted to what the properties tell apart: bytes of a disk or a file are
told by their place, names are short sequences of pieces, a checksum is right or
wrong, a page or a block has two or three units. Arithmetic that may overflow keeps a
top (`AddrTop`, `Limit`, `Top`), which stands for 2^64 or 2^32. Control is kept: early
returns, error paths, panics, retries and their order are those of the code.

## What TLC checks

Each run is `tlc -config <cfg> <module>`. Eight runs pass:

| Run | Configuration | Distinct states | Properties |
| --- | --- | --- | --- |
| `host_installer` | `HostInstaller.cfg` | 25 801 | `WriteAhead`, `UndoRestores`, `SuccessMeansInstalled`, `RunsEnd` |
| `memory_maps` | `MemoryMaps.cfg` | 189 996 | `SanitisedMap`, `Settles`; `UsesOnlyGrants`, `ReleaseKeepsImage`, `PublishedMapsExact`, `ExitEnds`; `NearestMode`, `SplitsAreSound`, `DirectMapExact`, `ExecutableMapped` |
| `pmm` | `Pmm.cfg` | 112 223 | `LoansAreExclusive`, `QueriesAgree`, `KeepsPromise` |
| `smp` | `Smp.cfg` | 52 061 | `TableSound`, `OwnEntry`, `NeverReset`, `Arrivals` |
| `multiboot` | `Multiboot.cfg` | 51 608 | `TargetsApart`, `FailureIsHonest`, `HandoffIntact` |
| `storage` | `Storage.cfg` | 146 922 | `ReadExact`, `EnumerationExact`, `IterationMeetsAll`, `HandleNamesVolume`, `FileExact`, `DiscExact` |
| `console` | `Console.cfg` | 273 777 | `ConfigExact`; `BootsHighlighted`, `ChosenEntryReturns`, `HiddenMenuResolves`; `CursorOnScreen` |
| `loading` | `Loading.cfg` | 403 663 | `ResourceExact`, `ImageExact`, `KernelCanRun`, `RiscKernelCanRun` |

What they show, in a sentence each (the comment before a property says it in full):

- **Installer.** Nothing on the device changes before its old contents are saved; an
  undo that reports success has restored everything but the cells of a write that
  failed half way; an install that reports success is on the device and not in the
  cache; every run ends.
- **Memory maps.** The sanitiser ends with a sorted, disjoint and merged map that a
  second pass leaves alone. Under UEFI the loader uses what it was granted and nothing
  else, releases no page of the image it starts, and publishes maps that agree with the
  firmware's last one. The paging mode is the allowed one nearest to the wanted one, and
  the page tables map what the base revision promises. Nothing is mapped over the
  executable except by a framebuffer above the direct map, which the code does not count
  when it chooses the mode, and then only on that framebuffer's own pages.
- **Allocator.** No memory is handed out twice, queries answer as a look at each
  address would, and the allocator implements `AddressSpace`.
- **Processors.** The table has room, lists nobody twice and nobody who is not up, each
  processor waits on its own entry with its own settings, is never reset while it waits,
  and arrives in the kernel once it is sent for.
- **Multiboot.** Targets are apart and in RAM, the search for them fails only when there
  is none, and the stub delivers everything whatever overlaps what, as long as no target
  has to go onto the array of ranges or other data of the boot loader: the search takes
  reclaimable memory for free, and when memory is scarce it does choose such a place.
- **Storage.** Reads are exact through failing and shortened transfers; partitions,
  volumes and handles are told apart; FAT and ISO files are opened by their names and
  read as stored, and damaged ones are not opened. A FAT chain is walked when it is
  opened and again when it is read, and the second walk may fail where the
  first did not.
- **Console.** The configuration that is read is the one beside the executable, however
  the firmware splits the executable's path into nodes, or else the one the search order
  names; it is read line by line as written, and macros whose names or values are too
  long end in a panic; the entry that boots
  is the highlighted one; what was remembered is found again; a hidden menu does not
  hang; the editor's cursor is where the character is.
- **Loading.** A resource is what its URI names, checked before it is unpacked, with no
  page left behind; a medium that answers differently when it is read again does not get
  past the check. Images are as linked, relocations compared with what their types mean.
  Linux kernels get the memory they ask for, and when the firmware refuses
  `SetVirtualAddressMap()` both copies of the map of a RISC-V or arm64 kernel say so, and a
  LoongArch kernel is not run.

Four runs end in a violation, each of a statement of the repository's own comments or
documentation:

- `host_installer_torn` (`UndoRestoresAll`): `--uninstall` is to "Reverse the entire
  install procedure", but a write over several blocks that fails after one of them was
  flushed is forgotten, and its first block stays changed. `UndoRestores` is the
  property with that one exception, the cells in `torn`.
- `multiboot_late_source` (`NoLateSource`): the array of ranges is freed after the
  executable's target was reserved, so the info structure may be staged in the target,
  which the comment there excludes. (`HandoffIntact` has this as its premise.)
- `volumes_clone` (`HandleNamesVolume` with cloned disks behind a late controller):
  handles that appear late are compared with the volumes known before alone.
- `config_blank` (`ConfigExact` with an empty first line): a macro definition that
  follows an empty first line loses its name.

### Bounds

A bound is chosen so that every branch is taken and limits are met.

- Installer: five blocks of three cells, so that writes cover parts of blocks, whole
  blocks and several; the scripts of four kinds of installs, of six to fourteen steps;
  `MaxEntries` is the code's own 256 and is not met.
- `Sanitise`: every map of one to three entries out of eighteen, on four pages of two
  addresses, in an array of four entries: empty, nested, equal, overlapping and wrapping
  ones, and too little room.
- `EfiMemory`: twelve pages, four maps of the firmware, a free page it does not grant
  (`Stubborn`), one change of its own in a behaviour (`FirmwareMoves`) and one allocation
  (`Loans`); chunks of 4, 3 and 2 pages in place of the code's sizes, so that both
  fallbacks are entered, halve and end in the middle of a chunk; three retries in place
  of 128. The proofs below hold for all values of these constants.
- `DirectMap`: tables of two entries, four on one level, so that three page sizes,
  half-filled large pages and every paging mode occur; memory with holes, half pages,
  many types, too little and too much for a mode; framebuffers inside, across and beyond
  it; every combination of a user's and an executable's paging request.
- `Pmm`: nine pages, four E820 maps, an array of seven entries that is exhausted; sizes
  that are no whole number of pages.
- `Smp`: a boot processor and three others on four architectures, with dead and late
  ones, duplicates, broadcast and absent IDs, and one or two lists; on loongarch64 one
  whose number is above `MaxCore`, which cannot be kicked.
- `Multiboot`: fifteen pages of two bytes, images of two or three bytes linked at
  seventeen addresses or relocatable, four maps, with and without a section, up to three
  modules.
- `Storage`: ten volumes, some of which cannot be served, and thirty-five reads; pairs of
  disks whose MBR chains or GPT headers are broken in each way the code tells apart; BIOS
  machines with three drives and UEFI machines with up to nine handles, some behind late
  controllers, with block sizes the code takes and refuses; a FAT volume of each type and an ISO disc, each with one tree, sound and
  with damage to each structure that is read.
- `Console`: files of one to four lines of a few kinds, shorter ones of more, with macro
  names and values of up to three symbols where two fit (`MaxName`, `MaxValue`), and
  executables whose path has up to five nodes and does or does not fit (`MaxPath`); menus
  of up to six entries through two boots and any keys; buffers of up to six characters in
  a window of two lines of three.
- `Loading`: two requests in a row for URIs of every resource; images of one to three
  segments; PCs of 32 pages and other machines of 48.

Left out of the inputs:

- a configuration whose first line is empty and whose second defines a macro (the run
  `config_blank` has them);
- a disk that appears late, has no device path and is a copy of another (the run
  `volumes_clone` has them);
- menu entries whose identifiers in the boot loader interface clash;
- in `LinuxX86` memory in the last page below 4 GiB, which is the reset vector's;
- ELF images that end at the very end of the address space, except among those with
  something wrong, and relocations that overlap.

Firmware that `Smp` is not checked on, because the code starts whom it lists without
looking them up first: outside x86, one that lists the boot processor twice, or any
processor twice when some answer late (`WellListed`). A processor that answers late may
take the entry of the one that is being started then; `OwnEntry`, and that whoever is
listed is up, are about machines whose processors answer in time or never.

Deadlock is not checked where a component simply ends (`CHECK_DEADLOCK FALSE`): its last
states are returns, panics and jumps into the kernel. In `memory_maps` it is.

### Fairness

Liveness is stated under weak fairness of what runs by itself, and of nothing else:

- `HostInstaller`, `WF(Work)`: the tool's process goes on; each of its calls returns.
- `Sanitise`, `WF(Run)`, and `Pmm`, `WF(LoopStep)`: loops on one processor. Nobody has to
  call the allocator.
- `EfiMemory`, `WF(Exiting)`: `efi_exit_boot_services()` is not interrupted for ever; the
  firmware may still change its map before each of its calls.
- `Menu`, `WF(Alone)`: what the menu does without a key; keys may never come.
- `Smp`, `WF(BspStep)` and `WF(ApStep(c))`: a processor that executes keeps executing. A
  dead one has no step, and the wait for it ends by the clock.

## What is proved

`tlapm <module>` checks the proofs of a module. They hold for every value of the
constants that satisfies the named assumption of the component's module, which TLC
evaluates on the values of its runs.

| Module | Theorem | States | Property of a run |
| --- | --- | --- | --- |
| `HostInstallerProofs` | `TypeCorrect` | the shape of the installer's state and the coherence of cache and device | |
| `HostInstallerUndoProofs` | `UndoInvariant` | what was changed and not yet undone can be undone from what was saved | |
| | `UndoIsSound` | an undo that reports success has restored all but torn writes | `UndoRestores` |
| | `WriteAheadHolds` | nothing changes before it is saved | `WriteAhead` |
| `AddressSpaceProofs` | `PromiseIsExclusive` | the abstract allocator hands out disjoint ranges of one owner | |
| `PmmProofs` | `PmmInvariant` | the map, its loops and the ranges handed out are consistent | |
| | `LoansStayExclusive` | memory handed out keeps its type and has one holder | `LoansAreExclusive` |
| | `PmmKeepsPromise` | the allocator refines `AddressSpace` | `KeepsPromise` |
| `VolumeReadProofs` | `ReadsAreExact` | `volume_read()` returns the volume's bytes or fails | `ReadExact` |
| `EfiMemoryProofs` | `EfiInvariant` | the loader's map, its grants and the firmware's map are consistent | |
| | `GrantsSuffice` | the loader uses exactly what it was granted | `UsesOnlyGrants` |
| | `ChainloadReleases` | releasing memory keeps the image that is started | `ReleaseKeepsImage` |
| | `PublishedMaps` | what is published agrees with the last map | `PublishedMapsExact` |
| `SmpProofs` | `SmpInvariant` | the walk, `passed_info` and the trampolines are consistent | |
| | `TableIsSound` | room, no duplicates, no broadcast ID, only processors that are up | `TableSound` |
| | `EntriesAreOwn` | each processor has its own entry and settings | `OwnEntry` |
| | `TableNeverReset` | nobody in the table is sent another INIT | `NeverReset` |

### The arguments

**Installer** (`InstallerConstants`: blocks are not empty, and a script puts back only
what it has read). `UndoRestores` says nothing about states before the undo ends, so it is
strengthened by `UndoInv`: every cell that may differ from the original is covered by the
journal, by the write in progress or by a torn one (`InstallInv`); of the entries that
cover a cell, the one that the undo restores last holds its original contents
(`UndoPhaseInv`, and `FileInv` for the file of uninstall data); and cells that no entry
still to be undone covers are back already, as the device shows them through its cache
(`UndoneSoFar`). A retried entry and a failed transfer keep all of this.

**Memory map and allocator** (`MemmapConstants`, `PmmConstants`: whole pages, and firmware
maps that fit the array). `MapInv` follows `pmm_new_entry()` and `pmm_sanitise_entries()`
turn by turn: the entries a loop has passed share no address with those it has compared
them with (`InsertInv`, `ClipInv`), and afterwards no address is usable and something
else (`UsableInv`). Each turn leaves the owners of addresses alone, or takes away claims
of usable entries only. `LoanInv` says that a range handed out lies in entries of its type
alone. `PmmKeepsPromise` maps the array to the function from addresses to owners that
`AddressSpace` has: a turn of a loop changes no owner except where the call that is under
way says so, and `PromiseIsExclusive` then holds of the allocator too.

**Reads** (`VolumeReadConstants`). The invariant says that the bytes copied so far are
the volume's, and that a cache block marked valid has the contents of its sectors, also
after a transfer that was shortened or failed.

**UEFI memory** (`EfiMemoryConstants`: the pages of the loader's image are not those of
its stack, nor page 0, nor the pool's, and the firmware's maps say that image and pool
are the loader's). `EfiInv` has eight parts: types; what was granted, holds pools or
holds the loader is apart and the firmware counts it as the loader's (`FirmwareInv`);
before and while pages are claimed, those marked usable are the granted ones and those
not yet decided on (`StartInv`, `ClaimInv`); then the grants are what the map to be given
back calls usable, and all other pages are as the firmware has them, or left to it
(`OwnInv`); and what holds while memory is released, the map rebuilt and both published
(`ReleaseInv`, `RebuildInv`, `PublishedInv`). The firmware's own moves are steps like any
other, so every part has to survive one between any two calls. The fallbacks walk a run
of pages in chunks; the invariant says which part of it is decided, for any chunk size.

**Processors** (`SmpConstants` with `WellListed`, see *Bounds*). `SmpInv` says which
entries of the lists have been judged and with which outcome, what `passed_info` holds
while a processor is on its way, and that a processor past the trampoline has the entry
it was given. That the table has room is not local: it is sized by one walk and filled by
another with other conditions. Each entry of the table comes from an entry of the list
that the first walk counted, and no two from the same one, so there are at most as many
(`FS_Injection` of the library's theorems on finite sets). That a processor is never
reset follows from the check for duplicates against the part of the table filled so far.

The proof modules of the two last try Zenon first and then SMT, with 20 seconds in place
of the default 5: the modules are long and most of their leaves need no arithmetic.

### What is only model-checked

- Liveness: `RunsEnd`, `Settles`, `ExitEnds`, `Arrivals`, `HiddenMenuResolves`. The
  prover has no rules for fairness and `ENABLED`.
- Properties of what folds and recursive definitions compute: `SuccessMeansInstalled` (the
  whole script's effect), `QueriesAgree`, `SanitisedMap` (a sort), and all properties
  of `Vmm`, `DirectMap`, `Elsewhere`, `Multiboot`, `Partitions`, `Volumes`, `Fat`, `Iso`,
  `Config`, `Menu`, `Editor`, `Uri`, `Elf`, `LinuxX86` and `LinuxRisc`. Induction over
  data is out of the provers' reach, and several of these modules declare `RECURSIVE`
  operators, with which the prover loses its SMT backend.

## What is not modelled

`PROJECT.json` says for each part of the system what is left out and why. In short:

- not at all: TPM measurements, the PE loader (the questions of ELF again), input,
  terminal and framebuffers, pictures and fonts, the lookup of ACPI and SMBIOS tables
  (the models take the tables as given), register and instruction sequences of the
  processors, MTRRs, random numbers (slides are nondeterministic), library code, stage 1,
  build tools and test payloads;
- of parts that are modelled: the parsing by which the installer chooses what to write;
  `pmm_randomise_memory()`; the I/O APIC; Multiboot headers, info contents and video
  modes; the bit layout of page-table entries, `build_identity_map()` and the probing of
  `satp` modes; most requests of the Limine protocol, which straight-line code answers;
  BIOS chainloading; ISO 9660 labels; drawing.
