----------------------------- MODULE VolumeRead -----------------------------
(***************************************************************************)
(* volume_read() and its one-block cache (common/lib/part.s2.c), over the  *)
(* disk_read_sectors() of both builds (common/drivers/disk.s2.c).          *)
(*                                                                         *)
(* Bytes are numbered, Unit of them stand for 512, and the byte at address *)
(* a of the disk holds a.  Addresses are below Limit, which stands for     *)
(* 2^64.  A transfer the device fails leaves anything in the cache.        *)
(***************************************************************************)
EXTENDS Integers, FiniteSetsExt

CONSTANTS
  Unit,       \* 512
  Limit,      \* 2^64
  DiskSize,   \* bytes of the disk
  Volumes,    \* records [first_sect, sect_count, sector_size, fastest_xfer_size]
  Requests    \* pairs <<loc, count>>

(* What the code's types and devices guarantee: 512-byte units, sectors    *)
(* and offsets of 64 bits, a disk whose end is below the last of them      *)
VolumeReadConstants ==
  /\ Unit \in Nat \ {0, 1}
  /\ Limit \in Nat \ {0, 1}
  /\ DiskSize \in 0 .. Limit - 1
  /\ Volumes \subseteq [first_sect: 0 .. Limit - 1, sect_count: 0 .. Limit - 1,
                        sector_size: 0 .. Limit - 1, fastest_xfer_size: Nat]
  /\ Requests \subseteq (0 .. Limit - 1) \X (0 .. Limit - 1)

ASSUME VolumeReadAssumption == VolumeReadConstants

VARIABLES
  volume,     \* the volume read from
  cache,      \* [status, block, data]
  call,       \* the call of volume_read() under way, or the last one
  buffer      \* what it has copied

vars == <<volume, cache, call, buffer>>

Unknown == Limit - 1
Garbage == -1

Scale == volume.sector_size \div Unit
BlockSize == volume.fastest_xfer_size * volume.sector_size
FirstSect == volume.first_sect \div Scale
ReadSector(block) == FirstSect + block * volume.fastest_xfer_size

Idle == [state |-> "idle", loc |-> 0, count |-> 0, progress |-> 0]

Init ==
  /\ volume \in Volumes
  /\ cache = [status |-> "not_ready", block |-> 0, data |-> [o \in 0 .. BlockSize - 1 |-> Garbage]]
  /\ call = Idle
  /\ buffer = << >>

(* Where the volume ends, counting a last sector it owns in part           *)
EndSector == FirstSect + Min({(volume.sect_count + Scale - 1) \div Scale, Limit - 1 - FirstSect})

Unreachable(block) ==
  \/ volume.first_sect % Scale # 0
  \/ block * volume.fastest_xfer_size >= Limit
  \/ ReadSector(block) >= Limit
  \/ /\ volume.sect_count # Unknown
     /\ volume.sect_count + Scale - 1 >= Limit \/ ReadSector(block) >= EndSector

XferSize(block) ==
  IF volume.sect_count = Unknown THEN volume.fastest_xfer_size
  ELSE Min({volume.fastest_xfer_size, EndSector - ReadSector(block)})

Cached(block) == cache.status = "ready" /\ cache.block = block

Position == (call.loc + call.progress) % Limit
Block == Position \div BlockSize

(* A bug: the cache stays ready for the old block while it is overwritten  *)
BugStaysReady == [cache EXCEPT !.data = [o \in DOMAIN @ |-> Garbage]]

Spoiled == [cache EXCEPT !.status = "not_ready", !.data = [o \in DOMAIN @ |-> Garbage]]

Reading == call.state = "reading" /\ call.progress < call.count

(* disk_read_sectors() of n sectors from sector s of the device on         *)
disk_read_sectors(s, n) ==
  /\ (s + n) * volume.sector_size <= DiskSize
  /\ cache' = [status |-> "ready", block |-> Block,
               data |-> [o \in DOMAIN cache.data |->
                          IF o < n * volume.sector_size THEN s * volume.sector_size + o
                          ELSE cache.data[o]]]

CacheHit == Reading /\ Cached(Block) /\ UNCHANGED cache

CacheFill ==
  /\ Reading /\ ~Cached(Block) /\ ~Unreachable(Block)
  /\ disk_read_sectors(ReadSector(Block), XferSize(Block))

(* memcpy() out of the cache                                               *)
Copy ==
  LET offset == Position % BlockSize
      chunk == Min({call.count - call.progress, BlockSize - offset})
  IN  /\ buffer' = [i \in 0 .. call.progress + chunk - 1 |->
                     IF i < call.progress THEN buffer[i]
                     ELSE cache'.data[offset + i - call.progress]]
      /\ call' = [call EXCEPT !.progress = @ + chunk]

ReadChunk == (CacheHit \/ CacheFill) /\ Copy /\ UNCHANGED volume

(* cache_block() gives up before the transfer, or the device fails it      *)
ReadFails ==
  /\ Reading /\ ~Cached(Block)
  /\ cache' = IF Unreachable(Block) THEN [cache EXCEPT !.status = "not_ready"] ELSE Spoiled
  /\ call' = [call EXCEPT !.state = "failed"]
  /\ UNCHANGED <<volume, buffer>>

Refused(loc, count) ==
  \/ volume.fastest_xfer_size = 0 \/ volume.sector_size < Unit \/ volume.sector_size % Unit # 0
  \/ /\ volume.sect_count # Unknown
     /\ \/ volume.sect_count * Unit >= Limit
        \/ loc >= volume.sect_count * Unit
        \/ count > volume.sect_count * Unit - loc

Call(loc, count) ==
  /\ call.state # "reading"
  /\ call' = [state |-> IF Refused(loc, count) THEN "failed" ELSE "reading",
              loc |-> loc, count |-> count, progress |-> 0]
  /\ buffer' = << >>
  /\ UNCHANGED <<volume, cache>>

Return ==
  /\ call.state = "reading" /\ call.progress >= call.count
  /\ call' = [call EXCEPT !.state = "done"]
  /\ UNCHANGED <<volume, cache, buffer>>

volume_read == (\E r \in Requests : Call(r[1], r[2])) \/ ReadChunk \/ ReadFails \/ Return

Next == volume_read

Spec == Init /\ [][Next]_vars
-----------------------------------------------------------------------------
(* A read that succeeds has copied the very bytes of the volume, and none  *)
(* past its end, whatever earlier transfers failed, were cut short or left *)
(* in the cache; and a read within the volume and the disk is refused only *)
(* if the volume does not start on a sector of the device.                 *)
ReadExact ==
  /\ call.state = "done" =>
       /\ \A i \in 0 .. call.count - 1 : buffer[i] = volume.first_sect * Unit + call.loc + i
       /\ volume.sect_count # Unknown => call.loc + call.count <= volume.sect_count * Unit
  /\ Reading /\ volume.first_sect % Scale = 0
       /\ volume.first_sect * Unit + Position < DiskSize => ~Unreachable(Block)
=============================================================================
