----------------------------- MODULE MCStorage ------------------------------
(***************************************************************************)
(* What is between a path and the sectors of a disk, each part on its own  *)
(* inputs: reading a volume, finding the partitions, indexing the volumes, *)
(* and the FAT and ISO 9660 drivers.  A behaviour is one of the part that  *)
(* component names; the variables of the others stay empty, those of the   *)
(* reads idle.                                                             *)
(***************************************************************************)
EXTENDS VolumeRead, Sequences, TLC

CONSTANTS
  MaxArray, MaxGpt, MaxLogical, MaxEbrs, PoolSize, Encodable, Wide, MaxLfn,
  MaxChain, Fat12Clusters, Fat16Clusters, MaxOpens, MaxDescriptors, MaxHops, MaxName, MaxExtents

VARIABLES
  component,
  disks, memo, memo_none, ebr, guid, index,
  machine, i, visible, dead, volumes, next, before, bda, calculated, connected, boot, stage3,
  vol,
  disc, readable, context, opens,
  at, part, pc, insensitive, request, dir, handle, got

Vol(first, count, size, xfer) ==
  [first_sect |-> first, sect_count |-> count, sector_size |-> size, fastest_xfer_size |-> xfer]

(* Whole disks of known and unknown size and partitions of them: with      *)
(* sectors of one, two and three units, starting off a sector, ending      *)
(* within one, longer than the disk, and ones volume_read() cannot serve   *)
ReadVolumes ==
  {Vol(0, 12, 2, 2), Vol(0, Limit - 1, 2, 4), Vol(3, 5, 2, 3), Vol(4, 5, 4, 2), Vol(2, 7, 4, 1),
   Vol(3, 4, 4, 1), Vol(6, 5, 6, 1), Vol(8, 9, 4, 2), Vol(2, 63, 2, 1), Vol(0, 6, 3, 1)}
Reads == {<<l, c>> : l \in {0, 1, 4, 7, 9, 13, 60}, c \in {0, 1, 3, 6, 8}}

(* Machines with two disks.  The MBR disks have one or two extended        *)
(* partitions whose chains branch off every way an entry can: entries in   *)
(* the third slot, entries out of bounds, links backwards, in a loop, to   *)
(* an unsigned or unreadable sector and past the end.  The GPT disks have  *)
(* a primary or backup header that fails one of the checks.                *)
Slot(type, first, count) == [type |-> type, first |-> first, count |-> count]
No == Slot("empty", 0, 0)
NoGpt == [s \in {} |-> 0]

MbrDisk(slots, ebrs, size, bad, mult) ==
  [sect_count |-> size, device |-> 40, bad |-> bad, mult |-> mult, mbr |-> [valid |-> TRUE, slots |-> slots],
   ebrs |-> ebrs, headers |-> NoGpt, arrays |-> NoGpt]

Ebr1 == {<<Slot("data", 1, 2), Slot("ext", 4, 4), No, No>>,
         <<Slot("ext", 0, 0), Slot("data", 1, 99), Slot("data", 1, 3), Slot("ext", 8, 3)>>,
         <<No, Slot("ext", 9, 9), Slot("data", 1, 50), No>>,
         <<No, No, No, No>>}
Ebr2 == {<<Slot("data", 1, 1), Slot("ext", 0, 5), No, No>>,
         <<Slot("data", 1, 30), Slot("ext", 8, 2), Slot("data", 1, 9), No>>,
         <<Slot("empty", 2, 1), Slot("data", 30, 30), No, Slot("ext", 20, 2)>>}
Ebr3 == {<<Slot("data", 1, 1), Slot("ext", 4, 2), Slot("data", 1, 2), No>>, <<No, No, No, No>>}

(* The first extended partition is at 10, with EBRs at 10, 14 and 18, the  *)
(* second at 30.  A size of -1 is unknown.                                 *)
MbrDisks ==
  {MbrDisk(<<Slot("data", 1, 4), Slot("ext", 10, 14), Slot(t, 30, 6), Slot("data", 38, 9)>>,
           10 :> a @@ 14 :> b @@ 18 :> c @@ 30 :> <<Slot("data", 1, 1), No, No, No>>, size, bad, 1) :
     t \in {"ext", "empty"}, a \in Ebr1, b \in Ebr2, c \in Ebr3, size \in {40, -1}, bad \in {{}, {14}}}

Scaled == MbrDisk(<<Slot("data", 1, 2), Slot("ext", 4, 5), No, No>>,
                  8 :> <<Slot("data", 1, 1), No, No, No>>, 40, {}, 2)

Header(lba, alternate, array, number, crc, acrc) ==
  [sane |-> TRUE, my_lba |-> lba, crc |-> crc, alternate |-> alternate, array_lba |-> array, number |-> number,
   entry |-> 1, first_usable |-> 4, last_usable |-> 15, array_crc |-> acrc]

Entry(type, first, last) == [type |-> type, first |-> first, last |-> last]
Table == <<Entry("data", 4, 5), Entry("empty", 0, 0), Entry("data", 9, 7), Entry("data", 10, 12), Entry("data", 14, 22)>>

(* Blocks of g sectors; 20 blocks are described                            *)
GptDisk(g, type, size, primary, backup, bad) ==
  [sect_count |-> size, device |-> 40, bad |-> bad, mult |-> 1,
   mbr |-> [valid |-> TRUE, slots |-> <<Slot(type, 1, 9), No, No, No>>],
   ebrs |-> NoGpt,
   headers |-> g :> primary @@ 19 * g :> backup,
   arrays |-> 2 * g :> [crc |-> 1, entries |-> Table] @@ 17 * g :> [crc |-> 1, entries |-> Table]]

GptDisks ==
  {GptDisk(g, type, size, Header(my, 19, 2, n, crc, acrc), Header(19, 1, 17, n, TRUE, 1), bad) :
     g \in {1, 2}, type \in {"gpt", "data"}, size \in {20, 40}, my \in {1, 2}, n \in {0, 5, 7},
     crc \in BOOLEAN, acrc \in {1, 2}, bad \in {{}, {2}}}

(* A sound GPT, in blocks of one size or the other                         *)
Intact(g) == GptDisk(g, "gpt", 40, Header(1, 19, 2, 5, TRUE, 1), Header(19, 1, 17, 5, TRUE, 1), {})

(* Neither header verifies: one disk, or a copy of it with a good backup   *)
Torn(crc) == GptDisk(1, "gpt", 20, Header(1, 19, 2, 5, FALSE, 1), Header(19, 1, 17, 5, crc, 1), {})

Blank == [MbrDisk(<<No, No, No, No>>, NoGpt, 20, {1}, 1) EXCEPT !.mbr.valid = FALSE]

Disks ==
  {<<d, Scaled>> : d \in MbrDisks} \cup {<<d, Blank>> : d \in GptDisks}
    \cup {<<Blank, d>> : d \in {e \in GptDisks : e.mbr.slots[1].type = "gpt" /\ e.bad = {}}}
    \cup {<<Torn(FALSE), Torn(TRUE)>>, <<Torn(TRUE), Torn(FALSE)>>, <<Torn(FALSE), Torn(FALSE)>>}
    \cup {<<Intact(1), Intact(g)>> : g \in {1, 2}}
    \cup {<<[Scaled EXCEPT !.bad = {2}], Scaled>>, <<[Scaled EXCEPT !.sect_count = 2], Scaled>>}

(* More inputs, from modules whose own constants do not matter for them    *)
VI == INSTANCE MCVolumes WITH Machines <- {}
FI == INSTANCE MCFat WITH
  Volumes <- {}, Requests <- {}, LowerOf <- << >>, StandsFor <- << >>, SumOf <- << >>, MaxDir <- 0, Counts <- {}
II == INSTANCE MCIso WITH Discs <- {}, Requests <- {}, TooLong <- 0, Lower <- << >>, MaxDir <- 0, Counts <- {}

Computers == VI!MCMachines
FatVolumes == FI!MCVolumes
Discs == II!MCDiscs

P == INSTANCE Partitions WITH
  Machines <- Disks, Guesses <- <<1, 2>>
V == INSTANCE Volumes WITH
  Machines <- Computers
F == INSTANCE Fat WITH
  Volumes <- FatVolumes, Requests <- FI!MCRequests, LowerOf <- FI!MCLower,
  StandsFor <- FI!MCStandsFor, SumOf <- FI!MCSums, MaxDir <- 48, Counts <- {1, 3, 9}
D == INSTANCE Iso WITH
  Requests <- II!MCRequests, TooLong <- II!Long, Lower <- II!MCLower, MaxDir <- 112,
  Counts <- {1, 4}
-----------------------------------------------------------------------------
partitionsOnly ==
  <<disks, memo, memo_none, ebr, guid, index>>
volumesOnly ==
  <<machine, i, visible, dead, volumes, next, before, bda, calculated, connected, boot, stage3>>
fatOnly ==
  <<vol>>
isoOnly ==
  <<disc, readable, context, opens>>
storage == <<component, at, part, pc, insensitive, request, dir, handle, got, vars, partitionsOnly, volumesOnly, fatOnly, isoOnly>>

NoRead ==
  /\ Init /\ volume = Vol(0, 12, 2, 2)
NoPartitions ==
  /\ disks = 0 /\ memo = 0 /\ memo_none = 0 /\ ebr = 0 /\ guid = 0 /\ index = 0
NoVolumes ==
  /\ machine = 0 /\ i = 0 /\ visible = 0 /\ dead = 0 /\ volumes = 0 /\ next = 0
  /\ before = 0 /\ bda = 0 /\ calculated = 0 /\ connected = 0 /\ boot = 0 /\ stage3 = 0
NoFat ==
  /\ vol = 0
NoIso ==
  /\ disc = 0 /\ readable = 0 /\ context = 0 /\ opens = 0

StorageInit ==
  \/ component = "read" /\ Init /\ NoPartitions /\ NoVolumes /\ NoFat /\ NoIso /\ at = 0 /\ part = 0 /\ pc = 0 /\ insensitive = 0 /\ request = 0 /\ dir = 0 /\ handle = 0 /\ got = 0
  \/ component = "partitions" /\ P!Init /\ NoRead /\ NoVolumes /\ NoFat /\ NoIso /\ pc = 0 /\ insensitive = 0 /\ request = 0 /\ dir = 0 /\ handle = 0 /\ got = 0
  \/ component = "volumes" /\ V!Init /\ NoRead /\ NoPartitions /\ NoFat /\ NoIso /\ at = 0 /\ part = 0 /\ insensitive = 0 /\ request = 0 /\ dir = 0 /\ handle = 0 /\ got = 0
  \/ component = "fat" /\ F!Init /\ NoRead /\ NoPartitions /\ NoVolumes /\ NoIso /\ at = 0
  \/ component = "iso" /\ D!Init /\ NoRead /\ NoPartitions /\ NoVolumes /\ NoFat

ReadStep == component = "read" /\ Next /\ UNCHANGED <<component, at, part, pc, insensitive, request, dir, handle, got, partitionsOnly, volumesOnly, fatOnly, isoOnly>>
PartitionsStep == component = "partitions" /\ P!Next /\ UNCHANGED <<component, pc, insensitive, request, dir, handle, got, vars, volumesOnly, fatOnly, isoOnly>>
VolumesStep == component = "volumes" /\ V!Next /\ UNCHANGED <<component, at, part, insensitive, request, dir, handle, got, vars, partitionsOnly, fatOnly, isoOnly>>
FatStep == component = "fat" /\ F!Next /\ UNCHANGED <<component, at, vars, partitionsOnly, volumesOnly, isoOnly>>
IsoStep == component = "iso" /\ D!Next /\ UNCHANGED <<component, vars, partitionsOnly, volumesOnly, fatOnly>>

StorageNext == ReadStep \/ PartitionsStep \/ VolumesStep \/ FatStep \/ IsoStep

StorageSpec == StorageInit /\ [][StorageNext]_storage
-----------------------------------------------------------------------------
(* Probing a disk index by index finds its partitions                      *)
EnumerationExact == component = "partitions" => P!EnumerationExact

(* A loop over a disk's volumes meets each of them once and ends           *)
IterationMeetsAll == component = "volumes" => V!IterationMeetsAll

(* A UEFI handle is taken for the volume it is of                          *)
HandleNamesVolume == component = "volumes" => V!HandleNamesVolume

(* A file of a FAT volume is opened by its name and read as it was stored  *)
FileExact == component = "fat" => F!FileExact

(* A file of a disc is opened by its name and read as it was stored        *)
DiscExact == component = "iso" => D!DiscExact
=============================================================================
