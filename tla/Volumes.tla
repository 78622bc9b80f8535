------------------------------ MODULE Volumes ------------------------------
(***************************************************************************)
(* The index of volumes (common/drivers/disk.s2.c): which drives or Block  *)
(* I/O handles become volumes, under which numbers, and which firmware     *)
(* handle is taken for which volume.  The partitions of a disk are given;  *)
(* module Partitions models how they are found.                            *)
(*                                                                         *)
(* A handle of the firmware says what it is: a device path (a sequence of  *)
(* nodes, partition nodes being records), its disk and where on it it      *)
(* starts, its size and what its first 64 KiB hold.                        *)
(***************************************************************************)
EXTENDS Integers, SequencesExt, FiniteSetsExt

CONSTANTS
  Machines,   \* records, see MCVolumes
  PoolSize    \* UNIQUE_SECTOR_POOL_SIZE

VARIABLES
  machine,
  pc,         \* "connect", "index", "parts", "boot", "stage3", "ready" or "panic"
  i,          \* the drive or handle looked at
  visible,    \* handles LocateHandle() returns
  dead,       \* handles whose read test failed
  volumes,    \* volume_index
  next,       \* optical_indices, hdd_indices
  before,     \* indexed_before
  bda,        \* consumed_bda_disks
  calculated, \* unique_sectors_calculated
  connected,  \* disk_connect_all() has run
  boot,       \* boot_volume: a position in the index, or Pxe
  stage3      \* the volume stage 3 was loaded from

vars == <<machine, pc, i, visible, dead, volumes, next, before, bda, calculated, connected, boot,
          stage3>>

NoHash == "none"
None == 0
Pxe == -1

Init ==
  /\ machine \in Machines
  /\ pc = "connect" /\ i = 1
  /\ visible = {h \in DOMAIN machine.handles : machine.handles[h].under = None}
  /\ dead = {} /\ volumes = << >>
  /\ next = [optical |-> 1, hdd |-> 1]
  /\ before = 0 /\ bda = 0 /\ stage3 = None
  /\ calculated = FALSE /\ connected = FALSE
  /\ boot = None

H(h) == machine.handles[h]
-----------------------------------------------------------------------------
(* A disk and its partitions, appended to the index                        *)
WithDisk(h, optical, n) ==
  LET d == H(h)
      Volume(partition, first, size, content) ==
        [handle |-> h, index |-> n, optical |-> optical, partition |-> partition, first |-> first,
         size |-> size, content |-> content, valid |-> FALSE, hash |-> NoHash, part_handle |-> None,
         max_partition |-> IF partition = 0 THEN Len(d.parts) - 1 ELSE 0]
  IN  <<Volume(0, 0, d.size, d.content)>>
        \o [k \in DOMAIN d.parts |->
              Volume(d.parts[k].number, d.parts[k].first, d.parts[k].size, d.parts[k].content)]

(* A bug: optical and other disks are numbered together                    *)
BugOneCount(optical) == next.hdd

Number(optical) == IF optical THEN next.optical ELSE next.hdd

Enter(h, optical) ==
  /\ volumes' = volumes \o WithDisk(h, optical, Number(optical))
  /\ next' = IF optical THEN [next EXCEPT !.optical = @ + 1] ELSE [next EXCEPT !.hdd = @ + 1]
-----------------------------------------------------------------------------
(* The BIOS build asks for drives 80h to FFh, of those from F0h up only    *)
(* for the one that was booted from                                        *)
Asked(h) == H(h).high => h = machine.boot

Vmware(d) == d.at9f /\ d.cd_sectors

IsRemovable(d) == d.removable \/ Vmware(d)

IsOpticalDrive(d) == d.atapi \/ (d.cd_sectors /\ d.removable) \/ Vmware(d)

Fixed(d) == ~IsRemovable(d) /\ ~IsOpticalDrive(d)

(* Fixed disks beyond the BIOS data area's count are not real, except for  *)
(* the one that was booted from                                            *)
Phantom(h) == Fixed(H(h)) /\ bda >= machine.bda_disk_count /\ h # machine.boot

IndexDrive ==
  /\ machine.build = "bios" /\ pc = "index" /\ i \in DOMAIN machine.handles
  /\ i' = i + 1
  /\ IF ~Asked(i) \/ ~H(i).responds \/ Phantom(i) THEN UNCHANGED <<volumes, next, bda>>
     ELSE /\ Enter(i, IsOpticalDrive(H(i)))
          /\ bda' = IF Fixed(H(i)) THEN bda + 1 ELSE bda
  /\ UNCHANGED <<machine, pc, visible, dead, before, calculated, connected, boot, stage3>>

(* volume_get_by_bios_drive()                                              *)
BootDrive ==
  /\ machine.build = "bios" /\ pc = "index" /\ i > Len(machine.handles)
  /\ LET of == {k \in DOMAIN volumes : volumes[k].handle = machine.boot}
     IN  IF of = {} THEN pc' = "panic" /\ UNCHANGED boot ELSE boot' = Min(of) /\ pc' = "stage3"
  /\ UNCHANGED <<machine, i, visible, dead, volumes, next, before, bda, calculated, connected, stage3>>

(* volume_iterate_parts(): partition numbers from 0 up, until it has met   *)
(* one more volume than max_partition + 1.  What it has met by number n    *)
volume_get_by_coord(optical, index, partition) ==
  LET at == {k \in DOMAIN volumes : /\ volumes[k].index = index /\ volumes[k].optical = optical
                                    /\ volumes[k].partition = partition}
  IN  IF at = {} THEN None ELSE Min(at)

Met(v, n) == {volume_get_by_coord(v.optical, v.index, p) : p \in 0 .. n} \ {None}

LastNumber == Max({0} \cup {volumes[k].partition : k \in DOMAIN volumes})

Ends(v, n) == Cardinality(Met(v, n)) > v.max_partition + 1

(* stage3_init() on each of them, up to the first good limine-bios.sys     *)
Stage3 ==
  /\ pc = "stage3" /\ \E n \in 0 .. LastNumber : Ends(volumes[boot], n)
  /\ LET n == Min({m \in 0 .. LastNumber : Ends(volumes[boot], m)})
         good == {k \in Met(volumes[boot], n) : <<volumes[k].handle, volumes[k].partition>> \in machine.sys}
     IN  IF good = {} THEN pc' = "panic" /\ UNCHANGED stage3
         ELSE /\ pc' = "ready"
              /\ stage3' = CHOOSE k \in good : \A j \in good : volumes[k].partition <= volumes[j].partition
  /\ UNCHANGED <<machine, i, visible, dead, volumes, next, before, bda, calculated, connected, boot>>
-----------------------------------------------------------------------------
(* The UEFI build.  A controller is connected when it has storage behind   *)
(* it and, unless asked for, no driver yet; a disk, when no driver has it  *)
is_efi_handle_driver_managed(c) == machine.controllers[c].managed

should_connect_storage_controller(c, bound) ==
  IF machine.controllers[c].block_io THEN ~is_efi_handle_driver_managed(c)
  ELSE machine.controllers[c].storage /\ (bound \/ ~is_efi_handle_driver_managed(c))

Connected(bound) ==
  visible \cup {h \in DOMAIN machine.handles :
                  /\ H(h).under # None
                  /\ should_connect_storage_controller(H(h).under, bound)}

disk_create_index ==
  /\ pc = "connect"
  /\ IF machine.build = "bios" THEN pc' = "index" /\ UNCHANGED visible
     ELSE /\ visible' = Connected(FALSE)
          /\ pc' = IF \E h \in visible' : H(h).block_io THEN "index"
                   ELSE IF \E h \in visible' : H(h).pxe THEN "boot" ELSE "panic"
  /\ UNCHANGED <<machine, i, dead, volumes, next, before, bda, calculated, connected, boot, stage3>>

(* What the nodes of a handle's device path say                            *)
is_efi_handle_to_skip(h) == H(h).skip

is_efi_handle_optical(h) == H(h).optical

is_efi_handle_indexed(h) == \E k \in DOMAIN volumes : volumes[k].handle = h

Indexable(h) ==
  /\ h \in visible /\ H(h).block_io /\ ~is_efi_handle_to_skip(h) /\ ~is_efi_handle_indexed(h)
  /\ H(h).media /\ ~H(h).logical /\ H(h).block_size \in 1 .. PoolSize

IndexHandle ==
  /\ machine.build = "uefi" /\ pc = "index" /\ i \in DOMAIN machine.handles
  /\ i' = i + 1
  /\ IF ~Indexable(i) THEN UNCHANGED <<volumes, next, dead>>
     ELSE IF ~H(i).responds THEN dead' = dead \cup {i} /\ UNCHANGED <<volumes, next>>
     ELSE IF H(i).endless THEN UNCHANGED <<volumes, next, dead>>
     ELSE Enter(i, is_efi_handle_optical(i)) /\ UNCHANGED dead
  /\ UNCHANGED <<machine, pc, visible, before, bda, calculated, connected, boot, stage3>>

IndexEnd ==
  /\ machine.build = "uefi" /\ pc = "index" /\ i > Len(machine.handles)
  /\ pc' = "parts" /\ i' = 1
  /\ UNCHANGED <<machine, visible, dead, volumes, next, before, bda, calculated, connected, boot, stage3>>
-----------------------------------------------------------------------------
IsPartNode(n) == n.kind # "bus"

(* Device paths agree up to the first partition node of either, or to the  *)
(* end of the shorter one                                                  *)
device_paths_match_disk(p, q) ==
  /\ p # << >> /\ q # << >>
  /\ \A k \in 1 .. Min({Len(p), Len(q)}) :
       (\A j \in 1 .. k : ~IsPartNode(p[j]) /\ ~IsPartNode(q[j])) => p[k] = q[k]

PartNodes(p) == SelectSeq(p, IsPartNode)

Aligned(v) == v.first % H(v.handle).scale = 0

OnDisk(h, v) == Aligned(v) /\ device_paths_match_disk(H(h).path, H(v.handle).path)

(* The volume a device path names                                          *)
Named(h, v) ==
  /\ OnDisk(h, v)
  /\ LET n == PartNodes(H(h).path)
     IN  IF n = << >> THEN v.partition = 0 ELSE v.first = n[1].start * H(v.handle).scale

CdromMedium(h, v) ==
  /\ OnDisk(h, v) /\ v.partition = 0
  /\ LET n == PartNodes(H(h).path) IN n # << >> /\ n[1].kind = "cd"

volume_by_device_path(h, fallback) ==
  LET named == {k \in DOMAIN volumes : Named(h, volumes[k])}
      medium == {k \in DOMAIN volumes : CdromMedium(h, volumes[k])}
  IN  IF named # {} THEN Min(named)
      ELSE IF fallback /\ medium # {} THEN Min(medium) ELSE None

(* What find_unique_sectors() can read a hash of                           *)
Hashable(v) == Aligned(v) /\ v.size >= PoolSize /\ v.content # NoHash

(* A bug: a volume already told apart from none is not looked at           *)
BugOnlyValid(vs, hash) == {k \in DOMAIN vs : vs[k].valid /\ vs[k].hash = hash}

volume_by_sector_hash(vs, hash) == {k \in DOMAIN vs : vs[k].hash = hash}

(* Volumes are told apart by content: one whose content an earlier one has *)
(* is told apart from none, and neither is the earlier one                 *)
TellApart(vs, k) ==
  IF ~Hashable(vs[k]) THEN vs
  ELSE LET content == vs[k].content
           same == volume_by_sector_hash(vs, content)
       IN  IF same = {} THEN [vs EXCEPT ![k].hash = content, ![k].valid = TRUE]
           ELSE [vs EXCEPT ![k].hash = content, ![k].valid = FALSE, ![Min(same)].valid = FALSE]

find_unique_sectors(vs) == FoldLeft(TellApart, vs, [k \in DOMAIN vs |-> k])

Fallback(h) == H(h).size >= PoolSize

volume_by_unique_sector(vs, h) ==
  LET same == {k \in DOMAIN vs : vs[k].valid /\ vs[k].hash = H(h).content}
  IN  IF same = {} \/ H(h).content = NoHash THEN None
      ELSE LET v == vs[Min(same)]
           IN  IF /\ v.size = H(h).size
                  /\ H(h).logical = (v.partition # 0)
                  /\ H(v.handle).scale = H(h).scale
               THEN Min(same) ELSE None

(* volume_from_efi_handle(): the hashes it may have computed, and a volume *)
Computes(h, fallback) ==
  /\ ~is_efi_handle_to_skip(h) /\ H(h).block_io /\ volume_by_device_path(h, fallback) = None /\ Fallback(h)

Hashed(h, fallback) ==
  IF Computes(h, fallback) /\ ~calculated THEN find_unique_sectors(volumes) ELSE volumes

pxe_from_efi_handle(h) == IF H(h).pxe THEN Pxe ELSE None

VolumeOf(h, fallback) ==
  IF is_efi_handle_to_skip(h) THEN None
  ELSE IF ~H(h).block_io THEN pxe_from_efi_handle(h)
  ELSE LET path == volume_by_device_path(h, fallback)
           alike == IF path = None /\ Fallback(h)
                    THEN volume_by_unique_sector(Hashed(h, fallback), h) ELSE None
       IN  IF path # None THEN path
           ELSE IF alike # None THEN alike ELSE pxe_from_efi_handle(h)

(* find_part_handles(): one handle                                         *)
PartHandle ==
  /\ pc = "parts" /\ i \in DOMAIN machine.handles
  /\ i' = i + 1
  /\ IF i \notin visible \/ ~H(i).block_io \/ i \in dead THEN UNCHANGED <<volumes, calculated>>
     ELSE /\ calculated' = (calculated \/ Computes(i, FALSE))
          /\ LET v == VolumeOf(i, FALSE)
             IN  volumes' = IF v \in {None, Pxe} THEN Hashed(i, FALSE)
                            ELSE [Hashed(i, FALSE) EXCEPT ![v].part_handle = i]
  /\ UNCHANGED <<machine, pc, visible, dead, next, before, bda, connected, boot, stage3>>

DropHashes ==
  /\ volumes' = [k \in DOMAIN volumes |-> [volumes[k] EXCEPT !.valid = FALSE, !.hash = NoHash]]
  /\ calculated' = FALSE

(* The end of index_disks(), in disk_connect_all() with the hashes dropped *)
(* if there are new volumes                                                *)
PartsEnd ==
  /\ pc = "parts" /\ i > Len(machine.handles)
  /\ pc' = IF boot = None THEN "boot" ELSE "ready"
  /\ i' = 1
  /\ IF connected /\ Len(volumes) # before THEN DropHashes ELSE UNCHANGED <<volumes, calculated>>
  /\ UNCHANGED <<machine, visible, dead, next, before, bda, connected, boot, stage3>>

(* uefi_entry(): the device of the image, or of the one that loaded it ... *)
BootHandle ==
  /\ machine.build = "uefi" /\ pc = "boot" /\ i \in DOMAIN machine.chain
  /\ LET h == machine.chain[i]
     IN  /\ boot' = VolumeOf(h, TRUE)
         /\ volumes' = Hashed(h, TRUE)
         /\ calculated' = (calculated \/ Computes(h, TRUE))
  /\ pc' = IF boot' = None THEN "boot" ELSE "ready"
  /\ i' = i + 1
  /\ UNCHANGED <<machine, visible, dead, next, before, bda, connected, stage3>>

(* ... or the disk of the first volume with a configuration file           *)
BootAny ==
  /\ machine.build = "uefi" /\ pc = "boot" /\ i > Len(machine.chain)
  /\ LET with == {k \in DOMAIN volumes : <<volumes[k].handle, volumes[k].partition>> \in machine.sys}
         disk == {k \in DOMAIN volumes : /\ volumes[k].handle = volumes[Min(with)].handle
                                         /\ volumes[k].partition = 0}
     IN  IF with = {} THEN pc' = "panic" /\ UNCHANGED boot
         ELSE pc' = "ready" /\ boot' = Min(disk)
  /\ UNCHANGED <<machine, i, visible, dead, volumes, next, before, bda, calculated, connected, stage3>>

(* A URI names a volume that is not there: all controllers are connected   *)
disk_connect_all ==
  /\ machine.build = "uefi" /\ pc = "ready" /\ ~connected
  /\ connected' = TRUE
  /\ visible' = Connected(TRUE)
  /\ pc' = IF \E h \in visible' : H(h).block_io THEN "index" ELSE "ready"
  /\ i' = 1 /\ before' = Len(volumes)
  /\ UNCHANGED <<machine, dead, volumes, next, bda, calculated, boot, stage3>>

Next ==
  \/ disk_create_index \/ IndexDrive \/ BootDrive \/ Stage3
  \/ IndexHandle \/ IndexEnd \/ PartHandle \/ PartsEnd \/ BootHandle \/ BootAny
  \/ disk_connect_all

Spec == Init /\ [][Next]_vars
-----------------------------------------------------------------------------
(* volume_iterate_parts(), which asks for one partition number after       *)
(* another until it has met as many volumes as the disk has, ends for      *)
(* every disk, having met each of its volumes and no other's: no two       *)
(* volumes share their coordinates, though disks found later are numbered  *)
(* on, optical and other drives apart, and partition numbers have gaps.    *)
IterationMeetsAll ==
  \A k \in DOMAIN volumes :
    volumes[k].partition = 0 =>
      \E n \in 0 .. LastNumber :
        /\ Ends(volumes[k], n)
        /\ Met(volumes[k], n) = {j \in DOMAIN volumes : volumes[j].handle = volumes[k].handle}

SameVolume(h, v) == H(h).disk = H(v.handle).disk /\ H(h).first = v.first

(* The handle a volume is chainloaded from is one of the same medium and   *)
(* place, and the boot volume is on the medium the loader came from unless *)
(* none could be told, though handles are told apart by content where      *)
(* device paths do not help and volumes may hold the same; and a BIOS boot *)
(* drive that answers is indexed however the BIOS counts its disks.        *)
HandleNamesVolume ==
  /\ \A k \in DOMAIN volumes :
       volumes[k].part_handle # None => SameVolume(volumes[k].part_handle, volumes[k])
  /\ machine.build = "uefi" /\ boot \notin {None, Pxe} =>
       \/ \E c \in DOMAIN machine.chain : H(machine.chain[c]).disk = H(volumes[boot].handle).disk
       \/ connected \/ \A c \in DOMAIN machine.chain : VolumeOf(machine.chain[c], TRUE) = None
  /\ machine.build = "bios" /\ H(machine.boot).responds => ~(pc = "panic" /\ boot = None)
=============================================================================
