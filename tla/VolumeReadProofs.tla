-------------------------- MODULE VolumeReadProofs --------------------------
(***************************************************************************)
(* volume_read() returns the bytes of the volume.  The invariant says what *)
(* the cached block holds, byte by byte, in terms of where its transfer    *)
(* began and how far it reached; most lemmas are about the division of an  *)
(* offset into block, sector and byte.                                     *)
(***************************************************************************)
EXTENDS VolumeRead, TLAPS

\* The usual order of the provers, and then both again with more time.
USE SMT, Zenon, SMTT(60), ZenonT(60)

LEMMA DivMod ==
  ASSUME NEW a \in Nat, NEW b \in Nat \ {0}
  PROVE  /\ a \div b \in Nat /\ a % b \in Nat
         /\ a % b < b
         /\ a = b * (a \div b) + (a % b)
OBVIOUS

LEMMA TimesAssoc ==
  ASSUME NEW a \in Nat, NEW b \in Nat, NEW c \in Nat
  PROVE  (a * b) * c = a * (b * c)
OBVIOUS

LEMMA TimesPlus ==
  ASSUME NEW a \in Int, NEW b \in Int, NEW c \in Int
  PROVE  (a + b) * c = a * c + b * c
OBVIOUS

LEMMA TimesNat ==
  ASSUME NEW a \in Nat, NEW b \in Nat
  PROVE  a * b \in Nat /\ a * b = b * a
OBVIOUS

LEMMA TimesMono ==
  ASSUME NEW a \in Nat, NEW b \in Nat, NEW c \in Nat, a <= b
  PROVE  a * c <= b * c
OBVIOUS

LEMMA TimesCancel ==
  ASSUME NEW a \in Nat, NEW b \in Nat, NEW c \in Nat, a * c < b * c
  PROVE  a < b
OBVIOUS

LEMMA Shifted ==
  ASSUME NEW base \in Int, NEW at \in Int, NEW offset \in Int,
         NEW loc \in Int, NEW progress \in Int, NEW k \in Int,
         loc + progress = at + offset
  PROVE  (base + at) + (offset + k - progress) = base + loc + k
OBVIOUS

LEMMA MinPair ==
  ASSUME NEW a \in Int, NEW b \in Int
  PROVE  Min({a, b}) = IF a <= b THEN a ELSE b
BY DEF Min
-----------------------------------------------------------------------------
(* The volume passed the checks of volume_read() on its sector size        *)
Sound ==
  /\ volume.fastest_xfer_size # 0
  /\ volume.sector_size >= Unit /\ volume.sector_size % Unit = 0

Geometry ==
  volume \in [first_sect: 0 .. Limit - 1, sect_count: 0 .. Limit - 1,
              sector_size: 0 .. Limit - 1, fastest_xfer_size: Nat]

(* The first byte of a block, on the disk                                  *)
BlockStart(block) == volume.first_sect * Unit + block * BlockSize

LEMMA ScaleFacts ==
  ASSUME VolumeReadConstants, Geometry, Sound
  PROVE  /\ Scale \in Nat \ {0}
         /\ volume.sector_size = Scale * Unit
         /\ BlockSize \in Nat \ {0}
         /\ BlockSize = volume.fastest_xfer_size * volume.sector_size
         /\ FirstSect \in Nat
         /\ volume.first_sect % Scale = 0 => volume.first_sect = FirstSect * Scale
<1> DEFINE ss == volume.sector_size
<1>1. ss \in Nat /\ Unit \in Nat \ {0} /\ volume.first_sect \in Nat /\ volume.fastest_xfer_size \in Nat
  BY DEF Geometry, VolumeReadConstants
<1>2. ss = Unit * (ss \div Unit) /\ ss \div Unit \in Nat
  <2>1. ss % Unit = 0 BY DEF Sound
  <2> HIDE DEF ss
  <2>2. ss = Unit * (ss \div Unit) + (ss % Unit) /\ ss \div Unit \in Nat BY <1>1, DivMod
  <2>3. Unit * (ss \div Unit) \in Nat BY <1>1, <2>2, TimesNat
  <2> QED BY <2>1, <2>2, <2>3
<1>3. Scale \in Nat /\ ss = Scale * Unit BY <1>1, <1>2 DEF Scale
<1>4. Scale # 0
  <2> SUFFICES ASSUME Scale = 0 PROVE FALSE OBVIOUS
  <2>1. ss = 0 * Unit BY <1>3
  <2> QED BY <2>1, <1>1 DEF Sound
<1>5. BlockSize \in Nat \ {0}
  <2>1. volume.fastest_xfer_size \in Nat \ {0} /\ ss \in Nat \ {0} BY <1>1, <1>3, <1>4 DEF Sound
  <2> HIDE DEF ss
  <2>2. \A a, b \in Nat \ {0} : a * b \in Nat \ {0} OBVIOUS
  <2>3. volume.fastest_xfer_size * ss \in Nat \ {0} BY <2>1, <2>2
  <2> QED BY <2>3 DEF BlockSize, ss
<1>6. /\ FirstSect \in Nat
      /\ volume.first_sect % Scale = 0 => volume.first_sect = FirstSect * Scale
  <2>1. /\ volume.first_sect \div Scale \in Nat
        /\ volume.first_sect = Scale * (volume.first_sect \div Scale) + (volume.first_sect % Scale)
    BY <1>1, <1>3, <1>4, DivMod
  <2>2. FirstSect \in Nat /\ volume.first_sect = Scale * FirstSect + (volume.first_sect % Scale)
    BY <2>1 DEF FirstSect
  <2>3. Scale * FirstSect = FirstSect * Scale /\ Scale * FirstSect \in Nat BY <2>2, <1>3, TimesNat
  <2> QED BY <2>2, <2>3
<1> QED BY <1>3, <1>4, <1>5, <1>6 DEF BlockSize

(* Where cache_block() reads a block from is where it lies on the disk     *)
LEMMA BlockPlace ==
  ASSUME VolumeReadConstants, Geometry, Sound, volume.first_sect % Scale = 0,
         NEW block \in Nat
  PROVE  /\ ReadSector(block) \in Nat
         /\ BlockStart(block) \in Nat
         /\ ReadSector(block) * volume.sector_size = BlockStart(block)
<1> DEFINE ss == volume.sector_size
           f == volume.fastest_xfer_size
<1>1. ss \in Nat /\ f \in Nat /\ Unit \in Nat /\ volume.first_sect \in Nat
  BY DEF Geometry, VolumeReadConstants
<1>2. /\ Scale \in Nat /\ FirstSect \in Nat /\ BlockSize \in Nat
      /\ ss = Scale * Unit /\ BlockSize = f * ss /\ volume.first_sect = FirstSect * Scale
  BY ScaleFacts
<1> HIDE DEF ss, f
<1>3. block * f \in Nat BY <1>1, TimesNat
<1>4. ReadSector(block) = FirstSect + block * f BY DEF ReadSector, f
<1>5. ReadSector(block) * ss = FirstSect * ss + (block * f) * ss
  BY <1>1, <1>2, <1>3, <1>4, TimesPlus
<1>6. FirstSect * ss = volume.first_sect * Unit BY <1>1, <1>2, TimesAssoc
<1>7. (block * f) * ss = block * BlockSize BY <1>1, <1>2, TimesAssoc
<1>8. volume.first_sect * Unit \in Nat /\ block * BlockSize \in Nat BY <1>1, <1>2, TimesNat
<1> QED BY <1>2, <1>3, <1>4, <1>5, <1>6, <1>7, <1>8 DEF BlockStart, ss

-----------------------------------------------------------------------------
(* The inductive invariant.  A ready cache holds its block as far as the   *)
(* transfer went, which was on the disk                                    *)
CacheInv ==
  /\ cache = [status |-> cache.status, block |-> cache.block, data |-> cache.data]
  /\ cache.block \in Nat
  /\ DOMAIN cache.data = 0 .. BlockSize - 1
  /\ cache.status = "ready" =>
       /\ Sound /\ volume.first_sect % Scale = 0
       /\ XferSize(cache.block) \in Nat
       /\ BlockStart(cache.block) + XferSize(cache.block) * volume.sector_size <= DiskSize
       /\ \A o \in 0 .. BlockSize - 1 :
            o < XferSize(cache.block) * volume.sector_size =>
              cache.data[o] = BlockStart(cache.block) + o

(* A call that was not refused asks for bytes of the volume, and what it   *)
(* has copied so far is right and on the disk                              *)
CallInv ==
  /\ call = [state |-> call.state, loc |-> call.loc, count |-> call.count, progress |-> call.progress]
  /\ call.loc \in 0 .. Limit - 1 /\ call.count \in 0 .. Limit - 1
  /\ call.progress \in 0 .. call.count
  /\ call.state \in {"idle", "reading", "failed", "done"}
  /\ call.state \in {"reading", "done"} =>
       /\ Sound
       /\ volume.sect_count # Unknown =>
            /\ volume.sect_count * Unit < Limit
            /\ call.loc + call.count <= volume.sect_count * Unit
       /\ call.progress > 0 => volume.first_sect * Unit + call.loc + call.progress <= DiskSize
       /\ \A i \in 0 .. call.progress - 1 : buffer[i] = volume.first_sect * Unit + call.loc + i
  /\ call.state = "done" => call.progress = call.count

Inv == Geometry /\ CacheInv /\ CallInv

(* volume_read() does not come round the end of the address space: before  *)
(* the first byte it has a 64-bit offset, and after it an end on the disk  *)
LEMMA PositionFacts ==
  ASSUME VolumeReadConstants, Inv, Reading
  PROVE  /\ Position = call.loc + call.progress
         /\ Position \in Nat /\ Position < Limit
         /\ Block \in Nat
         /\ Position % BlockSize \in 0 .. BlockSize - 1
         /\ Position = Block * BlockSize + (Position % BlockSize)
<1>1. Sound /\ call.loc \in Nat /\ call.progress \in Nat /\ call.loc < Limit /\ Limit \in Nat \ {0}
  BY DEF Inv, CallInv, Reading, VolumeReadConstants
<1>2. Geometry BY DEF Inv
<1>3. volume.first_sect * Unit \in Nat
  BY <1>2, TimesNat DEF Geometry, VolumeReadConstants
<1>4. call.loc + call.progress < Limit
  <2>1. CASE call.progress = 0 BY <1>1, <2>1
  <2>2. CASE call.progress > 0
    <3>1. volume.first_sect * Unit + call.loc + call.progress <= DiskSize
      BY <2>2 DEF Inv, CallInv, Reading
    <3> QED BY <3>1, <1>1, <1>3 DEF VolumeReadConstants
  <2> QED BY <1>1, <2>1, <2>2
<1>5. Position = call.loc + call.progress BY <1>1, <1>4 DEF Position
<1>6. Position \in Nat /\ Position < Limit BY <1>1, <1>4, <1>5
<1>7. BlockSize \in Nat \ {0} BY <1>1, <1>2, ScaleFacts
<1>8. /\ Position \div BlockSize \in Nat /\ Position % BlockSize \in Nat
      /\ Position % BlockSize < BlockSize
      /\ Position = BlockSize * (Position \div BlockSize) + (Position % BlockSize)
  BY <1>6, <1>7, DivMod
<1>9. Block \in Nat /\ BlockSize * Block = Block * BlockSize BY <1>7, <1>8, TimesNat DEF Block
<1>10. Position = Block * BlockSize + (Position % BlockSize) BY <1>8, <1>9 DEF Block
<1>11. Position % BlockSize \in 0 .. BlockSize - 1
  <2> DEFINE r == Position % BlockSize
  <2>1. r \in Nat /\ r < BlockSize BY <1>8
  <2> HIDE DEF r
  <2>2. r \in 0 .. BlockSize - 1 BY <2>1, <1>7
  <2> QED BY <2>2 DEF r
<1> QED BY <1>5, <1>6, <1>9, <1>10, <1>11

(* The length of a transfer that ends with the volume covers all that the  *)
(* call may still ask of the block                                         *)
LEMMA XferCovers ==
  ASSUME VolumeReadConstants, Inv, Reading, volume.first_sect % Scale = 0,
         XferSize(Block) \in Nat,
         BlockStart(Block) + XferSize(Block) * volume.sector_size <= DiskSize,
         NEW chunk \in Nat, chunk <= call.count - call.progress,
         chunk <= BlockSize - (Position % BlockSize)
  PROVE  (Position % BlockSize) + chunk <= XferSize(Block) * volume.sector_size
<1> DEFINE offset == Position % BlockSize
           ss == volume.sector_size
           f == volume.fastest_xfer_size
           n == XferSize(Block)
           c == volume.sect_count
<1>1. Geometry /\ Sound BY DEF Inv, CallInv, Reading
<1>2. /\ Scale \in Nat \ {0} /\ ss = Scale * Unit /\ BlockSize \in Nat \ {0}
      /\ BlockSize = f * ss /\ FirstSect \in Nat
  BY <1>1, ScaleFacts
<1>3. /\ ss \in Nat /\ f \in Nat /\ c \in Nat /\ Unit \in Nat \ {0, 1} /\ Limit \in Nat \ {0, 1}
      /\ DiskSize < Limit /\ DiskSize \in Nat
  BY <1>1 DEF Geometry, VolumeReadConstants
<1>4. /\ Position = call.loc + call.progress /\ Block \in Nat
      /\ offset \in Nat /\ Position = Block * BlockSize + offset
  BY PositionFacts, <1>2
<1>5. /\ ReadSector(Block) \in Nat /\ BlockStart(Block) \in Nat
      /\ ReadSector(Block) * ss = BlockStart(Block)
  BY <1>1, <1>4, BlockPlace
<1>6. CASE n = f
  <2>1. n * ss = BlockSize BY <1>6, <1>2
  <2> HIDE DEF offset, n
  <2> QED BY <2>1, <1>2, <1>4 DEF offset, n
<1>7. CASE n # f
  <2>1. c # Unknown /\ n = Min({f, EndSector - ReadSector(Block)})
    BY <1>7 DEF XferSize
  <2> DEFINE q == (c + Scale - 1) \div Scale
  <2>2. q \in Nat /\ c <= q * Scale
    <3>1. c + Scale - 1 \in Nat BY <1>2, <1>3
    <3>2. /\ q \in Nat /\ (c + Scale - 1) % Scale < Scale /\ (c + Scale - 1) % Scale \in Nat
          /\ c + Scale - 1 = Scale * q + ((c + Scale - 1) % Scale)
      BY <3>1, <1>2, DivMod
    <3> DEFINE r == (c + Scale - 1) % Scale
    <3>3. r \in Nat /\ r < Scale /\ c + Scale - 1 = Scale * q + r /\ q \in Nat BY <3>2
    <3> HIDE DEF q, r
    <3>4. Scale * q = q * Scale /\ q * Scale \in Nat BY <3>3, <1>2, TimesNat
    <3> QED BY <3>3, <3>4, <1>2, <1>3
  <2>3. EndSector = FirstSect + Min({q, Limit - 1 - FirstSect}) BY DEF EndSector
  <2> HIDE DEF q
  <2>4. EndSector = FirstSect + q \/ EndSector = Limit - 1
    <3>1. Min({q, Limit - 1 - FirstSect}) \in {q, Limit - 1 - FirstSect}
      BY <2>2, <1>2, <1>3, MinPair
    <3> QED BY <3>1, <2>2, <2>3, <1>2, <1>3
  <2>5. EndSector \in Int BY <2>4, <2>2, <1>2, <1>3
  <2>6. n = EndSector - ReadSector(Block)
    BY <2>1, <2>5, <1>7, <1>5, <1>3, MinPair
  <2>7. n \in Nat OBVIOUS
  <2> HIDE DEF n
  <2>8. EndSector = ReadSector(Block) + n BY <2>5, <2>6, <1>5
  <2>9. EndSector * ss = BlockStart(Block) + n * ss
    BY <2>7, <2>8, <1>3, <1>5, TimesPlus
  <2>10. n * ss \in Nat BY <2>7, <1>3, TimesNat
  <2>11. EndSector # Limit - 1
    <3> SUFFICES ASSUME EndSector = Limit - 1 PROVE FALSE OBVIOUS
    <3>1. ss >= 2 BY <1>1, <1>3 DEF Sound
    <3>2. 2 * (Limit - 1) <= ss * (Limit - 1) BY <3>1, <1>3, TimesMono
    <3>3. ss * (Limit - 1) = EndSector * ss BY <1>3, TimesNat
    <3>4. EndSector * ss <= DiskSize BY <2>9 DEF n
    <3> QED BY <3>2, <3>3, <3>4, <2>9, <2>10, <1>3, <1>5
  <2>12. EndSector = FirstSect + q BY <2>4, <2>11
  <2>13. EndSector * ss = FirstSect * ss + q * ss BY <2>12, <2>2, <1>2, <1>3, TimesPlus
  <2>14. FirstSect * ss = volume.first_sect * Unit
    <3>1. volume.first_sect = FirstSect * Scale BY <1>1, ScaleFacts
    <3>2. (FirstSect * Scale) * Unit = FirstSect * (Scale * Unit) BY <1>2, <1>3, TimesAssoc
    <3> QED BY <3>1, <3>2, <1>2
  <2>15. q * ss >= c * Unit
    <3>1. q * ss = (q * Scale) * Unit BY <2>2, <1>2, <1>3, TimesAssoc
    <3>2. q * Scale \in Nat BY <2>2, <1>2, TimesNat
    <3> QED BY <3>1, <3>2, <2>2, <1>3, TimesMono
  <2>16. volume.first_sect * Unit \in Nat /\ Block * BlockSize \in Nat /\ q * ss \in Nat /\ c * Unit \in Nat
    BY <1>1, <1>2, <1>3, <1>4, <2>2, TimesNat DEF Geometry
  <2>17. BlockStart(Block) = volume.first_sect * Unit + Block * BlockSize BY DEF BlockStart
  <2>18. Block * BlockSize + n * ss >= c * Unit
    BY <2>9, <2>10, <2>13, <2>14, <2>15, <2>16, <2>17
  <2>19. call.loc + call.count <= c * Unit /\ call.loc \in Nat /\ call.count \in Nat /\ call.progress \in Nat
    BY <2>1 DEF Inv, CallInv, Reading
  <2>20. offset + chunk <= n * ss
    <3> HIDE DEF offset
    <3> QED BY <2>18, <2>19, <2>10, <2>16, <1>4
  <2> QED BY <2>20 DEF n
<1> QED BY <1>6, <1>7

-----------------------------------------------------------------------------
(* What copies out of a cache that is ready for the block copies the right *)
(* bytes                                                                   *)
LEMMA CopyKeeps ==
  ASSUME VolumeReadConstants, Inv, Reading, Copy, UNCHANGED volume,
         CacheInv', cache'.status = "ready", cache'.block = Block
  PROVE  CallInv'
<1> DEFINE offset == Position % BlockSize
           chunk == Min({call.count - call.progress, BlockSize - offset})
           base == volume.first_sect * Unit
<1>1. Geometry /\ Sound /\ CallInv BY DEF Inv, CallInv, Reading
<1>2. /\ call.loc \in Nat /\ call.count \in Nat /\ call.progress \in Nat
      /\ call.progress < call.count /\ call.state = "reading"
  BY <1>1 DEF CallInv, Reading
<1>3. /\ Position = call.loc + call.progress /\ Block \in Nat
      /\ offset \in 0 .. BlockSize - 1 /\ Position = Block * BlockSize + offset
  BY PositionFacts
<1>4. BlockSize \in Nat \ {0} BY <1>1, ScaleFacts
<1>5. base \in Nat /\ Block * BlockSize \in Nat
  BY <1>1, <1>3, <1>4, TimesNat DEF Geometry, VolumeReadConstants
<1>6. chunk \in Nat \ {0} /\ chunk <= call.count - call.progress /\ chunk <= BlockSize - offset
  <2> HIDE DEF offset
  <2> QED BY <1>2, <1>3, <1>4, MinPair
<1>7. /\ buffer' = [i \in 0 .. call.progress + chunk - 1 |->
                     IF i < call.progress THEN buffer[i]
                     ELSE cache'.data[offset + i - call.progress]]
      /\ call' = [call EXCEPT !.progress = @ + chunk]
  BY DEF Copy
<1>8. /\ volume.first_sect % Scale = 0
      /\ XferSize(Block) \in Nat
      /\ BlockStart(Block) + XferSize(Block) * volume.sector_size <= DiskSize
      /\ \A o \in 0 .. BlockSize - 1 :
           o < XferSize(Block) * volume.sector_size => cache'.data[o] = BlockStart(Block) + o
  BY DEF CacheInv, BlockStart, BlockSize, XferSize, EndSector, FirstSect, Scale, ReadSector
<1> DEFINE room == XferSize(Block) * volume.sector_size
<1>9. offset + chunk <= room
  BY <1>6, <1>8, XferCovers
<1>10. room \in Nat BY <1>1, <1>8, TimesNat DEF Geometry
<1>11. BlockStart(Block) = base + Block * BlockSize BY DEF BlockStart
<1>12. base + call.loc + call.progress + chunk <= DiskSize
  <2>1. DiskSize \in Nat BY DEF VolumeReadConstants
  <2>2. BlockStart(Block) + room <= DiskSize BY <1>8
  <2> HIDE DEF offset, chunk, base, room
  <2> QED BY <2>1, <2>2, <1>2, <1>3, <1>4, <1>5, <1>6, <1>9, <1>10, <1>11
<1>13. \A i \in 0 .. call.progress + chunk - 1 : buffer'[i] = base + call.loc + i
  <2> HIDE DEF offset, chunk, base, room
  <2> SUFFICES ASSUME NEW i \in 0 .. call.progress + chunk - 1
               PROVE  buffer'[i] = base + call.loc + i
    OBVIOUS
  <2>1. CASE i < call.progress
    <3>1. buffer'[i] = buffer[i] BY <2>1, <1>7
    <3>2. i \in 0 .. call.progress - 1 BY <2>1, <1>2, <1>6
    <3>3. buffer[i] = base + call.loc + i BY <3>2, <1>1, <1>2 DEF CallInv, base
    <3> QED BY <3>1, <3>3
  <2>2. CASE ~(i < call.progress)
    <3> DEFINE o == offset + i - call.progress
    <3>1. buffer'[i] = cache'.data[o] BY <2>2, <1>7
    <3>2. o \in 0 .. BlockSize - 1 /\ o < room BY <2>2, <1>2, <1>3, <1>4, <1>6, <1>9, <1>10
    <3> HIDE DEF o
    <3>3. cache'.data[o] = BlockStart(Block) + o BY <3>2, <1>8 DEF room
    <3>4. BlockStart(Block) + o = base + call.loc + i
      <4> DEFINE at == Block * BlockSize
      <4>1. at \in Nat /\ BlockStart(Block) = base + at /\ call.loc + call.progress = at + offset
        BY <1>3, <1>5, <1>11
      <4>2. i \in Int /\ offset \in Int BY <1>2, <1>3, <1>4, <1>6
      <4> HIDE DEF at
      <4>3. (base + at) + (offset + i - call.progress) = base + call.loc + i
        <5>1. base \in Int /\ at \in Int /\ call.loc \in Int /\ call.progress \in Int BY <4>1, <1>2, <1>5
        <5>2. call.loc + call.progress = at + offset BY <4>1
        <5> QED BY <5>1, <5>2, <4>2, Shifted
      <4> QED BY <4>1, <4>3 DEF o
    <3> QED BY <3>1, <3>3, <3>4
  <2> QED BY <2>1, <2>2
<1> HIDE DEF chunk
<1>14. /\ call'.state = "reading" /\ call'.loc = call.loc /\ call'.count = call.count
       /\ call'.progress = call.progress + chunk
       /\ call' = [state |-> call'.state, loc |-> call'.loc, count |-> call'.count, progress |-> call'.progress]
  <2>1. call = [state |-> "reading", loc |-> call.loc, count |-> call.count, progress |-> call.progress]
    BY <1>1, <1>2 DEF CallInv
  <2>2. call' = [state |-> "reading", loc |-> call.loc, count |-> call.count,
                 progress |-> call.progress + chunk]
    BY <2>1, <1>7
  <2> QED BY <2>2
<1>15. call'.progress \in 0 .. call'.count BY <1>2, <1>6, <1>14
<1>16. /\ Sound'
       /\ (volume.sect_count # Unknown =>
            /\ volume.sect_count * Unit < Limit
            /\ call.loc + call.count <= volume.sect_count * Unit)'
  BY <1>1, <1>2, <1>14 DEF CallInv, Sound
<1>17. (call.progress > 0 => volume.first_sect * Unit + call.loc + call.progress <= DiskSize)'
  <2>1. base + call.loc + (call.progress + chunk) <= DiskSize
    <3> HIDE DEF base
    <3> QED BY <1>12, <1>2, <1>5, <1>6
  <2> QED BY <2>1, <1>14
<1>18. (\A i \in 0 .. call.progress - 1 : buffer[i] = volume.first_sect * Unit + call.loc + i)'
  <2> HIDE DEF base
  <2>1. \A i \in 0 .. call'.progress - 1 : buffer'[i] = base + call'.loc + i
    <3> SUFFICES ASSUME NEW i \in 0 .. call'.progress - 1
                 PROVE  buffer'[i] = base + call'.loc + i
      OBVIOUS
    <3>1. i \in 0 .. call.progress + chunk - 1 BY <1>2, <1>6, <1>14
    <3> QED BY <3>1, <1>13, <1>14
  <2> USE DEF base
  <2> QED BY <2>1
<1>19. (call.loc \in 0 .. Limit - 1 /\ call.count \in 0 .. Limit - 1)'
  BY <1>1, <1>14 DEF CallInv
<1> QED BY <1>14, <1>15, <1>16, <1>17, <1>18, <1>19 DEF CallInv

(* A transfer that succeeds makes the cache ready for the block            *)
LEMMA FillKeeps ==
  ASSUME VolumeReadConstants, Inv, CacheFill, UNCHANGED volume
  PROVE  CacheInv' /\ cache'.status = "ready" /\ cache'.block = Block
<1> DEFINE s == ReadSector(Block)
           n == XferSize(Block)
           ss == volume.sector_size
<1>1. Geometry /\ Sound /\ CacheInv /\ CallInv /\ Reading
  BY DEF Inv, CallInv, Reading, CacheFill
<1>2. volume.first_sect % Scale = 0 /\ ~Unreachable(Block) BY DEF CacheFill, Unreachable
<1>3. Block \in Nat BY <1>1, PositionFacts
<1>4. s \in Nat /\ BlockStart(Block) \in Nat /\ s * ss = BlockStart(Block)
  BY <1>1, <1>2, <1>3, BlockPlace
<1>5. ss \in Nat /\ volume.fastest_xfer_size \in Nat /\ Limit \in Nat /\ volume.sect_count \in Nat
  BY <1>1 DEF Geometry, VolumeReadConstants
<1>6. n \in Nat
  <2>1. CASE volume.sect_count = Unknown BY <2>1, <1>5 DEF XferSize
  <2>2. CASE volume.sect_count # Unknown
    <3>1. ~(s >= EndSector) BY <2>2, <1>2 DEF Unreachable
    <3>2. EndSector \in Int
      <4> DEFINE q == (volume.sect_count + Scale - 1) \div Scale
      <4>1. FirstSect \in Nat /\ Scale \in Nat \ {0} BY <1>1, ScaleFacts
      <4>2. volume.sect_count + Scale - 1 \in Nat BY <4>1, <1>5
      <4>3. q \in Nat BY <4>1, <4>2, DivMod
      <4>4. EndSector = FirstSect + Min({q, Limit - 1 - FirstSect}) BY DEF EndSector
      <4> HIDE DEF q
      <4>5. Min({q, Limit - 1 - FirstSect}) \in Int BY <4>1, <4>3, <1>5, MinPair
      <4> QED BY <4>1, <4>4, <4>5
    <3>3. n = Min({volume.fastest_xfer_size, EndSector - s}) BY <2>2 DEF XferSize
    <3> HIDE DEF s, n
    <3>4. EndSector - s \in Nat BY <3>1, <3>2, <1>4
    <3> QED BY <3>3, <3>4, <1>5, MinPair
  <2> QED BY <2>1, <2>2
<1>7. /\ (s + n) * ss <= DiskSize
      /\ cache' = [status |-> "ready", block |-> Block,
                   data |-> [o \in DOMAIN cache.data |->
                              IF o < n * ss THEN s * ss + o ELSE cache.data[o]]]
  BY DEF CacheFill, disk_read_sectors
<1>8. DOMAIN cache.data = 0 .. BlockSize - 1 BY <1>1 DEF CacheInv
<1>9. cache'.data = [o \in 0 .. BlockSize - 1 |->
                       IF o < n * ss THEN s * ss + o ELSE cache.data[o]]
  BY <1>7, <1>8
<1>10. cache'.status = "ready" /\ cache'.block = Block BY <1>7
<1>11. BlockStart(Block) + n * ss <= DiskSize
  <2> HIDE DEF s, n, ss
  <2> QED BY <1>4, <1>5, <1>6, <1>7, TimesPlus
<1>12. DOMAIN cache'.data = 0 .. BlockSize - 1 BY <1>9
<1>13. \A o \in 0 .. BlockSize - 1 : o < n * ss => cache'.data[o] = BlockStart(Block) + o
  BY <1>4, <1>9
<1>14. cache' = [status |-> cache'.status, block |-> cache'.block, data |-> cache'.data] BY <1>7
<1>15. CacheInv'
  BY <1>1, <1>2, <1>3, <1>6, <1>10, <1>11, <1>12, <1>13, <1>14
  DEF CacheInv, BlockSize, Sound, Scale, XferSize, EndSector, FirstSect, ReadSector, BlockStart
<1> QED BY <1>10, <1>15

LEMMA ReadChunkKeeps ==
  ASSUME VolumeReadConstants, Inv, ReadChunk
  PROVE  Inv'
<1>1. Reading /\ Copy /\ UNCHANGED volume BY DEF ReadChunk, CacheHit, CacheFill
<1>2. CacheInv' /\ cache'.status = "ready" /\ cache'.block = Block
  <2>1. CASE CacheHit
    BY <2>1, <1>1 DEF CacheHit, Cached, Inv, CacheInv, BlockSize, Sound, Scale, XferSize, EndSector,
                      FirstSect, ReadSector, BlockStart
  <2>2. CASE CacheFill BY <2>2, <1>1, FillKeeps
  <2> QED BY <2>1, <2>2 DEF ReadChunk
<1>3. CallInv' BY <1>1, <1>2, CopyKeeps
<1> QED BY <1>1, <1>2, <1>3 DEF Inv, Geometry

LEMMA ReadFailsKeeps ==
  ASSUME VolumeReadConstants, Inv, ReadFails
  PROVE  Inv'
<1>1. CallInv' BY DEF ReadFails, Inv, CallInv
<1>2. cache' = IF Unreachable(Block) THEN [cache EXCEPT !.status = "not_ready"] ELSE Spoiled
  BY DEF ReadFails
<1>3. cache'.status = "not_ready" /\ cache'.block = cache.block /\ DOMAIN cache'.data = DOMAIN cache.data
      /\ cache' = [status |-> cache'.status, block |-> cache'.block, data |-> cache'.data]
  <2>1. cache = [status |-> cache.status, block |-> cache.block, data |-> cache.data]
    BY DEF Inv, CacheInv
  <2>2. CASE Unreachable(Block)
    <3>1. cache' = [status |-> "not_ready", block |-> cache.block, data |-> cache.data]
      BY <1>2, <2>1, <2>2
    <3> QED BY <3>1
  <2>3. CASE ~Unreachable(Block)
    <3>1. cache' = [status |-> "not_ready", block |-> cache.block,
                    data |-> [o \in DOMAIN cache.data |-> Garbage]]
      BY <1>2, <2>1, <2>3 DEF Spoiled
    <3> QED BY <3>1
  <2> QED BY <2>2, <2>3
<1>4. CacheInv' BY <1>3 DEF Inv, CacheInv, ReadFails, BlockSize
<1> QED BY <1>1, <1>4 DEF Inv, Geometry, ReadFails

LEMMA CallKeeps ==
  ASSUME VolumeReadConstants, Inv, NEW r \in Requests, Call(r[1], r[2])
  PROVE  Inv'
<1> DEFINE loc == r[1]
           count == r[2]
           c == volume.sect_count
<1>1. loc \in 0 .. Limit - 1 /\ count \in 0 .. Limit - 1 /\ Limit \in Nat /\ Unit \in Nat \ {0}
  BY DEF VolumeReadConstants
<1>2. /\ call' = [state |-> IF Refused(loc, count) THEN "failed" ELSE "reading",
                  loc |-> loc, count |-> count, progress |-> 0]
      /\ UNCHANGED <<volume, cache>>
  BY DEF Call
<1>3. c * Unit \in Nat BY <1>1, TimesNat DEF Inv, Geometry
<1>4. ~Refused(loc, count) =>
        /\ Sound
        /\ c # Unknown => c * Unit < Limit /\ loc + count <= c * Unit
  <2> SUFFICES ASSUME ~Refused(loc, count)
               PROVE  /\ Sound
                      /\ c # Unknown => c * Unit < Limit /\ loc + count <= c * Unit
    OBVIOUS
  <2>1. Sound
    <3>1. volume.sector_size \in Nat BY DEF Inv, Geometry, VolumeReadConstants
    <3> QED BY <3>1, <1>1 DEF Refused, Sound
  <2>2. ASSUME c # Unknown PROVE c * Unit < Limit /\ loc + count <= c * Unit
    <3>1. ~(c * Unit >= Limit) /\ ~(loc >= c * Unit) /\ ~(count > c * Unit - loc)
      BY <2>2 DEF Refused
    <3> DEFINE end == c * Unit
    <3> HIDE DEF loc, count, end
    <3>2. end \in Nat /\ ~(end >= Limit) /\ ~(loc >= end) /\ ~(count > end - loc) BY <3>1, <1>3 DEF end
    <3>3. end < Limit /\ loc + count <= end BY <3>2, <1>1
    <3> QED BY <3>3 DEF end
  <2> QED BY <2>1, <2>2
<1>5. CallInv'
  <2> HIDE DEF loc, count
  <2>1. /\ call'.loc = loc /\ call'.count = count /\ call'.progress = 0
        /\ call'.state = IF Refused(loc, count) THEN "failed" ELSE "reading"
    BY <1>2
  <2>2. call' = [state |-> call'.state, loc |-> call'.loc, count |-> call'.count, progress |-> call'.progress]
    BY <1>2
  <2> QED BY <2>1, <2>2, <1>1, <1>2, <1>4 DEF CallInv, Sound
<1>6. CacheInv'
  BY <1>2 DEF Inv, CacheInv, BlockSize, Sound, Scale, XferSize, EndSector, FirstSect, ReadSector, BlockStart
<1> QED BY <1>2, <1>5, <1>6 DEF Inv, Geometry

LEMMA ReturnKeeps ==
  ASSUME VolumeReadConstants, Inv, Return
  PROVE  Inv'
<1>1. CallInv' BY DEF Return, Inv, CallInv, Sound
<1>2. CacheInv'
  BY DEF Return, Inv, CacheInv, BlockSize, Sound, Scale, XferSize, EndSector, FirstSect, ReadSector,
         BlockStart
<1> QED BY <1>1, <1>2 DEF Return, Inv, Geometry

(* A position on the disk and in the volume is within reach of cache_block() *)
LEMMA WithinReach ==
  ASSUME VolumeReadConstants, Inv, Reading, volume.first_sect % Scale = 0,
         volume.first_sect * Unit + Position < DiskSize
  PROVE  ~Unreachable(Block)
<1> DEFINE ss == volume.sector_size
           f == volume.fastest_xfer_size
           c == volume.sect_count
<1>1. Geometry /\ Sound BY DEF Inv, CallInv, Reading
<1>2. /\ Scale \in Nat \ {0} /\ ss = Scale * Unit /\ BlockSize \in Nat \ {0}
      /\ BlockSize = f * ss /\ FirstSect \in Nat
  BY <1>1, ScaleFacts
<1>3. /\ ss \in Nat /\ f \in Nat /\ c \in Nat /\ Unit \in Nat \ {0, 1} /\ Limit \in Nat \ {0, 1}
      /\ DiskSize < Limit /\ DiskSize \in Nat /\ ss < Limit
  BY <1>1 DEF Geometry, VolumeReadConstants
<1>4. /\ Position = call.loc + call.progress /\ Block \in Nat /\ Position \in Nat
      /\ Position < Limit /\ Block * BlockSize <= Position
  <2>1. /\ Position % BlockSize \in 0 .. BlockSize - 1 /\ Block \in Nat
        /\ Position = Block * BlockSize + (Position % BlockSize)
        /\ Position = call.loc + call.progress /\ Position \in Nat /\ Position < Limit
    BY PositionFacts
  <2> DEFINE off == Position % BlockSize
  <2>2. off \in Nat /\ Position = Block * BlockSize + off BY <2>1, <1>2
  <2> HIDE DEF off
  <2>3. Block * BlockSize \in Nat BY <2>1, <1>2, TimesNat
  <2> QED BY <2>1, <2>2, <2>3
<1>5. /\ ReadSector(Block) \in Nat /\ BlockStart(Block) \in Nat
      /\ ReadSector(Block) * ss = BlockStart(Block)
  BY <1>1, <1>4, BlockPlace
<1>6. ss >= 2 BY <1>1, <1>3 DEF Sound
<1> DEFINE m == Block * f
<1>7. m \in Nat /\ m * ss = Block * BlockSize /\ ReadSector(Block) = FirstSect + m
  BY <1>2, <1>3, <1>4, TimesNat, TimesAssoc DEF ReadSector
<1>8. BlockStart(Block) < DiskSize
  <2>1. volume.first_sect * Unit \in Nat BY <1>1, <1>3, TimesNat DEF Geometry
  <2>2. Block * BlockSize \in Nat BY <1>2, <1>4, TimesNat
  <2> QED BY <2>1, <2>2, <1>3, <1>4 DEF BlockStart
<1> HIDE DEF m, ss
<1>9. m < Limit
  <2>1. m * 1 <= m * ss BY <1>3, <1>6, <1>7
  <2> QED BY <2>1, <1>3, <1>4, <1>7
<1>10. 2 * ReadSector(Block) <= BlockStart(Block)
  <2>1. 2 * ReadSector(Block) <= ss * ReadSector(Block) BY <1>3, <1>5, <1>6, TimesMono
  <2> QED BY <2>1, <1>3, <1>5, TimesNat
<1>11. ReadSector(Block) < Limit - 1 BY <1>3, <1>5, <1>8, <1>10
<1>12. ASSUME c # Unknown PROVE ~(c + Scale - 1 >= Limit) /\ ~(ReadSector(Block) >= EndSector)
  <2>1. /\ c * Unit < Limit /\ call.loc + call.count <= c * Unit
        /\ call.loc \in Nat /\ call.count \in Nat /\ call.progress \in Nat /\ call.progress < call.count
    BY <1>12 DEF Inv, CallInv, Reading
  <2>2. c * 2 <= c * Unit
    <3>1. 2 * c <= Unit * c BY <1>3, TimesMono
    <3>2. Unit * c = c * Unit BY <1>3, TimesNat
    <3> QED BY <3>1, <3>2, <1>3
  <2>3. Scale * 2 <= ss
    <3>1. 2 * Scale <= Unit * Scale BY <1>2, <1>3, TimesMono
    <3>2. Unit * Scale = Scale * Unit BY <1>2, <1>3, TimesNat
    <3> QED BY <3>1, <3>2, <1>2
  <2>4. c * Unit \in Nat BY <1>3, TimesNat
  <2>5. c + Scale - 1 < Limit BY <2>1, <2>2, <2>3, <2>4, <1>2, <1>3
  <2> DEFINE q == (c + Scale - 1) \div Scale
             r == (c + Scale - 1) % Scale
  <2>6. q \in Nat /\ r \in Nat /\ r < Scale /\ c + Scale - 1 = Scale * q + r
    <3>1. c + Scale - 1 \in Nat BY <1>2, <1>3
    <3> QED BY <3>1, <1>2, DivMod
  <2>7. EndSector = FirstSect + Min({q, Limit - 1 - FirstSect}) BY DEF EndSector
  <2> HIDE DEF q, r, c
  <2>8. c <= q * Scale /\ q * Scale \in Nat
    <3>1. Scale * q = q * Scale /\ q * Scale \in Nat BY <2>6, <1>2, TimesNat
    <3> QED BY <3>1, <2>6, <1>2, <1>3
  <2>9. m < q
    <3>1. m * ss < c * Unit BY <2>1, <2>4, <1>3, <1>4, <1>7
    <3>2. m * ss = (m * Scale) * Unit /\ m * Scale \in Nat BY <1>2, <1>3, <1>7, TimesAssoc, TimesNat
    <3>3. m * Scale < c BY <3>1, <3>2, <1>3, TimesCancel
    <3>4. m * Scale < q * Scale BY <3>2, <3>3, <2>8, <1>3
    <3> QED BY <3>4, <1>2, <1>7, <2>6, TimesCancel
  <2>10. ReadSector(Block) < EndSector
    <3>1. Min({q, Limit - 1 - FirstSect}) \in {q, Limit - 1 - FirstSect}
      BY <2>6, <1>2, <1>3, MinPair
    <3>2. EndSector = FirstSect + q \/ EndSector = Limit - 1 BY <3>1, <2>6, <2>7, <1>2, <1>3
    <3> QED BY <3>2, <2>6, <2>9, <1>2, <1>3, <1>5, <1>7, <1>11
  <2>11. EndSector \in Int
    <3>1. Min({q, Limit - 1 - FirstSect}) \in Int BY <2>6, <1>2, <1>3, MinPair
    <3> QED BY <3>1, <2>7, <1>2
  <2>12. c + Scale - 1 \in Int BY <1>2, <1>3
  <2> QED BY <2>5, <2>10, <2>11, <2>12, <1>3, <1>5
<1>13. ~(m >= Limit) /\ ~(ReadSector(Block) >= Limit) BY <1>3, <1>5, <1>7, <1>9, <1>11
<1> QED BY <1>12, <1>13 DEF Unreachable, m
-----------------------------------------------------------------------------
LEMMA InvStep ==
  ASSUME VolumeReadConstants, Inv, Next
  PROVE  Inv'
<1>1. CASE \E r \in Requests : Call(r[1], r[2]) BY <1>1, CallKeeps
<1>2. CASE ReadChunk BY <1>2, ReadChunkKeeps
<1>3. CASE ReadFails BY <1>3, ReadFailsKeeps
<1>4. CASE Return BY <1>4, ReturnKeeps
<1> QED BY <1>1, <1>2, <1>3, <1>4 DEF Next, volume_read

LEMMA InvInit ==
  ASSUME VolumeReadConstants, Init
  PROVE  Inv
<1>1. Geometry BY DEF Init, Geometry, VolumeReadConstants
<1>2. CacheInv BY DEF Init, CacheInv
<1>3. CallInv
  <2>1. Limit \in Nat \ {0} BY DEF VolumeReadConstants
  <2>2. 0 \in 0 .. Limit - 1 BY <2>1
  <2> QED BY <2>2 DEF Init, CallInv, Idle
<1> QED BY <1>1, <1>2, <1>3 DEF Inv

(* What the invariant says of a finished call                              *)
LEMMA InvExact ==
  ASSUME VolumeReadConstants, Inv
  PROVE  ReadExact
<1>1. ASSUME call.state = "done"
      PROVE  /\ \A i \in 0 .. call.count - 1 : buffer[i] = volume.first_sect * Unit + call.loc + i
             /\ volume.sect_count # Unknown => call.loc + call.count <= volume.sect_count * Unit
  BY <1>1 DEF Inv, CallInv
<1>2. ASSUME Reading, volume.first_sect % Scale = 0,
             volume.first_sect * Unit + Position < DiskSize
      PROVE  ~Unreachable(Block)
  BY <1>2, WithinReach
<1> QED BY <1>1, <1>2 DEF ReadExact

(* volume_read() of any volume, on any disk, through any number of failed  *)
(* and shortened transfers: what it reports as read are the bytes of the   *)
(* volume, and it gives up only on what it cannot reach.                   *)
THEOREM ReadsAreExact == Spec => []ReadExact
<1> USE VolumeReadAssumption
<1>1. Init => Inv BY InvInit
<1>2. Inv /\ [Next]_vars => Inv'
  <2> SUFFICES ASSUME Inv, [Next]_vars PROVE Inv' OBVIOUS
  <2>1. CASE Next BY <2>1, InvStep
  <2>2. CASE UNCHANGED vars
    BY <2>2 DEF vars, Inv, Geometry, CacheInv, CallInv, BlockSize, Sound, Scale, XferSize, EndSector,
                FirstSect, ReadSector, BlockStart
  <2> QED BY <2>1, <2>2
<1>3. Inv => ReadExact BY InvExact
<1> QED BY <1>1, <1>2, <1>3, PTL DEF Spec
=============================================================================
