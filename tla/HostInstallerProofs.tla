------------------------- MODULE HostInstallerProofs -------------------------
(***************************************************************************)
(* Proofs about HostInstaller: what the block cache preserves, and that    *)
(* undoing an install restores the device, for every device, block size,   *)
(* script of writes and sequence of I/O failures.                          *)
(***************************************************************************)
EXTENDS HostInstaller, TLAPS

\* The usual order of the provers, and then both again with more time.
USE SMT, Zenon, SMTT(60), ZenonT(60)

(* From d to e no cell changed as the program sees it, and the device only *)
(* changed where the cache was written to it.                              *)
SameContents(d, e) ==
  /\ \A c \in Cells : Logical(e, c) = Logical(d, c)
  /\ \A c \in Cells : e.disk[c] = d.disk[c] \/ (c \in DOMAIN d.cache /\ e.disk[c] = d.cache[c])

(* Blocks are numbered from 0. *)
LEMMA BlockOfNat == \A c \in Cells : BlockOf(c) \in Nat
BY InstallerConstants DEF BlockOf

(* No cell belongs to the block number -1 that an empty cache has. *)
LEMMA NoBlockCells == BlockCells(NoBlock) = {}
BY BlockOfNat DEF BlockCells, NoBlock

(* device_flush_cache(): what the program sees stays, success means clean. *)
LEMMA FlushLemma ==
  ASSUME NEW d, DeviceOK(d), NEW r \in device_flush_cache(d)
  PROVE  /\ DeviceOK(r.dev)
         /\ SameContents(d, r.dev)
         /\ r.dev.cache = d.cache /\ r.dev.block = d.block
         /\ r.ok => ~r.dev.dirty
         /\ r.ok \in BOOLEAN
<1> DEFINE disk2 == FlushedDisk(d)
           d2 == Device(disk2, d.cache, d.block, TRUE)
           d3 == Device(disk2, d.cache, d.block, FALSE)
<1>1. /\ d.disk \in [Cells -> Values] /\ d.cache \in [BlockCells(d.block) -> Values]
      /\ d.block \in Int /\ d.dirty \in BOOLEAN
      /\ d = [disk |-> d.disk, cache |-> d.cache, block |-> d.block, dirty |-> d.dirty]
  BY DEF DeviceOK
<1>2. BlockCells(d.block) \subseteq Cells
  BY DEF BlockCells
<1>3. /\ disk2 \in [Cells -> Values]
      /\ \A c \in Cells : disk2[c] = Logical(d, c)
  BY <1>1, <1>2 DEF FlushedDisk, Overlay, Logical
<1>4. /\ d2 = [disk |-> disk2, cache |-> d.cache, block |-> d.block, dirty |-> TRUE]
      /\ d3 = [disk |-> disk2, cache |-> d.cache, block |-> d.block, dirty |-> FALSE]
  BY DEF Device
<1> HIDE DEF disk2, d2, d3
<1>5. CASE r = [ok |-> TRUE, dev |-> d] /\ ~d.dirty
  BY <1>5, <1>1 DEF SameContents
<1>6. CASE r = [ok |-> FALSE, dev |-> d] /\ d.dirty
  BY <1>6, <1>1 DEF SameContents
<1>7. CASE r = [ok |-> FALSE, dev |-> d2] /\ d.dirty
  <2>1. DeviceOK(d2)
    BY <1>7, <1>4, <1>3, <1>1 DEF DeviceOK
  <2>2. SameContents(d, d2)
    BY <1>4, <1>3, <1>1 DEF SameContents, Logical
  <2> QED
    BY <2>1, <2>2, <1>7, <1>4
<1>8. CASE r = [ok |-> TRUE, dev |-> d3] /\ d.dirty
  <2>1. DeviceOK(d3)
    BY <1>4, <1>3, <1>2, <1>1 DEF DeviceOK, Logical
  <2>2. SameContents(d, d3)
    BY <1>4, <1>3, <1>1 DEF SameContents, Logical
  <2> QED
    BY <2>1, <2>2, <1>8, <1>4
<1> QED
  BY <1>5, <1>6, <1>7, <1>8, <1>1, ZenonT(60) DEF device_flush_cache, d2, d3, disk2

(* Reading a block into a clean cache loses nothing, even when it fails. *)
LEMMA FillLemma ==
  ASSUME NEW d, DeviceOK(d), ~d.dirty, NEW b \in Nat, NEW r \in FillCache(d, b)
  PROVE  /\ DeviceOK(r.dev)
         /\ SameContents(d, r.dev)
         /\ r.ok => r.dev.block = b
         /\ r.ok \in BOOLEAN
<1> DEFINE cache2 == Restrict(d.disk, BlockCells(b))
           d2 == Device(d.disk, EmptyBuffer, NoBlock, FALSE)
           d3 == Device(d.disk, cache2, b, FALSE)
<1>1. /\ d.disk \in [Cells -> Values] /\ d.cache \in [BlockCells(d.block) -> Values]
      /\ d.block \in Int /\ d.dirty \in BOOLEAN
      /\ d = [disk |-> d.disk, cache |-> d.cache, block |-> d.block, dirty |-> d.dirty]
      /\ \A c \in DOMAIN d.cache : d.cache[c] = d.disk[c]
  BY DEF DeviceOK
<1>2. /\ BlockCells(d.block) \subseteq Cells /\ BlockCells(b) \subseteq Cells
      /\ BlockCells(NoBlock) = {}
  BY NoBlockCells DEF BlockCells
<1>3. /\ cache2 \in [BlockCells(b) -> Values]
      /\ \A c \in BlockCells(b) : cache2[c] = d.disk[c]
  BY <1>1, <1>2 DEF Restrict
<1>4. /\ d2 = [disk |-> d.disk, cache |-> EmptyBuffer, block |-> NoBlock, dirty |-> FALSE]
      /\ d3 = [disk |-> d.disk, cache |-> cache2, block |-> b, dirty |-> FALSE]
  BY DEF Device
<1>5. EmptyBuffer \in [BlockCells(NoBlock) -> Values] /\ NoBlock \in Int
  BY NoBlockCells DEF EmptyBuffer, NoBlock
<1> HIDE DEF cache2, d2, d3
<1>6. CASE r = [ok |-> FALSE, dev |-> d]
  BY <1>6, <1>1 DEF SameContents
<1>7. CASE r = [ok |-> FALSE, dev |-> d2]
  <2>1. DeviceOK(d2)
    BY <1>4, <1>5, <1>2, <1>1 DEF DeviceOK
  <2>2. SameContents(d, d2)
    BY <1>4, <1>5, <1>2, <1>1 DEF SameContents, Logical
  <2> QED
    BY <2>1, <2>2, <1>7
<1>8. CASE r = [ok |-> TRUE, dev |-> d3]
  <2>1. DeviceOK(d3)
    BY <1>4, <1>3, <1>2, <1>1 DEF DeviceOK, NoBlock
  <2>2. SameContents(d, d3)
    BY <1>4, <1>3, <1>2, <1>1 DEF SameContents, Logical
  <2> QED
    BY <2>1, <2>2, <1>8, <1>4
<1> QED
  BY <1>6, <1>7, <1>8, ZenonT(60) DEF FillCache, d2, d3, cache2

(* device_cache_block(): whatever happens, a cell reads as it did before. *)
LEMMA CacheBlockLemma ==
  ASSUME NEW d, DeviceOK(d), NEW b \in Nat, NEW r \in device_cache_block(d, b)
  PROVE  /\ DeviceOK(r.dev)
         /\ SameContents(d, r.dev)
         /\ r.ok => r.dev.block = b
         /\ r.ok \in BOOLEAN
<1>1. CASE d.block = b
  <2>1. r = [ok |-> TRUE, dev |-> d]
    BY <1>1 DEF device_cache_block
  <2> QED
    BY <2>1, <1>1 DEF SameContents
<1>2. CASE d.block # b
  <2>1. PICK f \in device_flush_cache(d) : r \in IF f.ok THEN FillCache(f.dev, b) ELSE {f}
    <3> DEFINE F == device_flush_cache(d)
               G(f) == IF f.ok THEN FillCache(f.dev, b) ELSE {f}
    <3>1. r \in UNION {G(f) : f \in F}
      BY <1>2 DEF device_cache_block
    <3> HIDE DEF F, G
    <3>2. \E f \in F : r \in G(f)
      BY <3>1
    <3> QED
      BY <3>2 DEF F, G
  <2>2. /\ DeviceOK(f.dev) /\ SameContents(d, f.dev)
        /\ f.dev.cache = d.cache /\ (f.ok => ~f.dev.dirty) /\ f.ok \in BOOLEAN
    BY FlushLemma
  <2>3. CASE ~f.ok
    BY <2>1, <2>2, <2>3
  <2>4. CASE f.ok
    <3>1. /\ DeviceOK(r.dev) /\ SameContents(f.dev, r.dev)
          /\ r.ok => r.dev.block = b
          /\ r.ok \in BOOLEAN
      BY <2>1, <2>2, <2>4, FillLemma
    <3>2. SameContents(d, r.dev)
      BY <3>1, <2>2 DEF SameContents
    <3> QED
      BY <3>1, <3>2
  <2> QED
    BY <2>3, <2>4, <2>2
<1> QED
  BY <1>1, <1>2

(* Writing a chunk into the block just cached changes those cells only. *)
LEMMA PutChunkLemma ==
  ASSUME NEW d, DeviceOK(d), NEW chunk \in SUBSET BlockCells(d.block), chunk # {},
         NEW data, IsBuffer(data), chunk \subseteq DOMAIN data
  PROVE  LET e == PutChunk(d, data, chunk)
         IN  /\ DeviceOK(e)
             /\ e.disk = d.disk
             /\ DOMAIN e.cache = DOMAIN d.cache
             /\ \A c \in Cells : Logical(e, c) = IF c \in chunk THEN data[c] ELSE Logical(d, c)
<1> DEFINE cache2 == Overlay(d.cache, Restrict(data, chunk))
           e == PutChunk(d, data, chunk)
<1>1. /\ d.disk \in [Cells -> Values] /\ d.cache \in [BlockCells(d.block) -> Values]
      /\ d.block \in Int
  BY DEF DeviceOK
<1>2. /\ DOMAIN Restrict(data, chunk) = chunk
      /\ \A c \in chunk : Restrict(data, chunk)[c] = data[c] /\ data[c] \in Values
  BY DEF Restrict, IsBuffer
<1>3. /\ cache2 \in [BlockCells(d.block) -> Values]
      /\ \A c \in BlockCells(d.block) : cache2[c] = IF c \in chunk THEN data[c] ELSE d.cache[c]
  BY <1>1, <1>2 DEF Overlay
<1>4. e = [disk |-> d.disk, cache |-> cache2, block |-> d.block, dirty |-> TRUE]
  BY DEF PutChunk, Device
<1>5. d.block # NoBlock
  BY NoBlockCells
<1> HIDE DEF cache2, e
<1>6. DeviceOK(e)
  BY <1>1, <1>3, <1>4, <1>5 DEF DeviceOK
<1>7. \A c \in Cells : Logical(e, c) = IF c \in chunk THEN data[c] ELSE Logical(d, c)
  BY <1>1, <1>3, <1>4 DEF Logical
<1>8. e.disk = d.disk /\ DOMAIN e.cache = DOMAIN d.cache
  BY <1>1, <1>3, <1>4
<1> QED
  BY <1>6, <1>7, <1>8 DEF e

(* Dropping the cache, or starting over with block 0, shows the device. *)
LEMMA FreshCacheLemma ==
  ASSUME NEW d, DeviceOK(d),
         NEW e \in {DropCache(d), Device(d.disk, Restrict(d.disk, BlockCells(0)), 0, FALSE)}
  PROVE  /\ DeviceOK(e)
         /\ e.disk = d.disk
         /\ ~e.dirty
         /\ \A c \in Cells : Logical(e, c) = d.disk[c]
         /\ \A c \in DOMAIN e.cache : e.cache[c] = d.disk[c]
<1> DEFINE cache2 == Restrict(d.disk, BlockCells(0))
<1>1. d.disk \in [Cells -> Values] /\ BlockCells(0) \subseteq Cells
  BY DEF DeviceOK, BlockCells
<1>2. cache2 \in [BlockCells(0) -> Values] /\ \A c \in BlockCells(0) : cache2[c] = d.disk[c]
  BY <1>1 DEF Restrict
<1>3. EmptyBuffer \in [BlockCells(NoBlock) -> Values] /\ NoBlock \in Int
  BY NoBlockCells DEF EmptyBuffer, NoBlock
<1> HIDE DEF cache2
<1>4. CASE e = [disk |-> d.disk, cache |-> EmptyBuffer, block |-> NoBlock, dirty |-> FALSE]
  <2>1. DOMAIN EmptyBuffer = {}
    BY <1>3, NoBlockCells
  <2> QED
    BY <1>1, <1>3, <1>4, <2>1 DEF DeviceOK, Logical
<1>5. CASE e = [disk |-> d.disk, cache |-> cache2, block |-> 0, dirty |-> FALSE]
  BY <1>1, <1>2, <1>5 DEF DeviceOK, Logical
<1> QED
  BY <1>4, <1>5 DEF DropCache, Device, cache2

(* A sequence ranges over its range. *)
LEMMA SeqOfRange ==
  ASSUME NEW S, NEW s \in Seq(S)
  PROVE  s \in Seq(Range(s))
BY DEF Range

(* The rest of a script is a script. *)
LEMMA ScriptTail ==
  ASSUME NEW s, IsScript(s), s # << >>
  PROVE  /\ IsScript(Tail(s)) /\ IsStep(Head(s))
         /\ Len(Tail(s)) = Len(s) - 1 /\ Len(s) \in Nat \ {0} /\ Head(s) = s[1]
         /\ \A i \in 1..(Len(s) - 1) : Tail(s)[i] = s[i + 1]
<1>1. s \in Seq(Range(s))
  BY DEF IsScript
<1>2. /\ Tail(s) \in Seq(Range(s)) /\ Len(Tail(s)) = Len(s) - 1
      /\ Len(s) \in Nat \ {0} /\ Head(s) = s[1]
      /\ \A i \in 1..(Len(s) - 1) : Tail(s)[i] = s[i + 1]
  BY <1>1
<1>3. Tail(s) \in Seq(Range(Tail(s)))
  BY <1>2, SeqOfRange, ZenonT(60)
<1>4. \A i \in 1..Len(Tail(s)) : IsStep(Tail(s)[i])
  BY <1>2 DEF IsScript
<1>5. IsStep(Head(s))
  BY <1>2 DEF IsScript
<1> QED
  BY <1>2, <1>3, <1>4, <1>5 DEF IsScript

(* An entry appended to a journal. *)
LEMMA JournalAppend ==
  ASSUME NEW j, IsJournal(j), NEW e, IsBuffer(e)
  PROVE  /\ IsJournal(Append(j, e))
         /\ Len(Append(j, e)) = Len(j) + 1 /\ Len(j) \in Nat
         /\ \A k \in 1..Len(j) : Append(j, e)[k] = j[k]
         /\ Append(j, e)[Len(j) + 1] = e
<1>1. j \in Seq(Range(j) \cup {e})
  BY DEF IsJournal
<1>2. /\ Append(j, e) \in Seq(Range(j) \cup {e}) /\ Len(j) \in Nat
      /\ Len(Append(j, e)) = Len(j) + 1
      /\ \A k \in 1..Len(j) : Append(j, e)[k] = j[k]
      /\ Append(j, e)[Len(j) + 1] = e
  BY <1>1
<1>3. Append(j, e) \in Seq(Range(Append(j, e)))
  BY <1>2, SeqOfRange, ZenonT(60)
<1>4. \A k \in 1..(Len(j) + 1) : IsBuffer(Append(j, e)[k])
  BY <1>2 DEF IsJournal
<1> QED
  BY <1>2, <1>3, <1>4 DEF IsJournal

(* reverse_uninstall_data(): the entries, the other way round. *)
LEMMA JournalReverse ==
  ASSUME NEW j, IsJournal(j)
  PROVE  /\ IsJournal(reverse_uninstall_data(j))
         /\ Len(reverse_uninstall_data(j)) = Len(j) /\ Len(j) \in Nat
         /\ \A k \in 1..Len(j) : reverse_uninstall_data(j)[k] = j[Len(j) - k + 1]
<1>1. j \in Seq(Range(j)) /\ Len(j) \in Nat
  BY DEF IsJournal
<1>2. /\ reverse_uninstall_data(j) \in Seq(Range(j)) /\ Len(reverse_uninstall_data(j)) = Len(j)
      /\ \A k \in 1..Len(j) : reverse_uninstall_data(j)[k] = j[Len(j) - k + 1]
  BY <1>1 DEF reverse_uninstall_data
<1>3. reverse_uninstall_data(j) \in Seq(Range(reverse_uninstall_data(j)))
  BY <1>2, SeqOfRange
<1>4. ASSUME NEW k \in 1..Len(j)
      PROVE  IsBuffer(reverse_uninstall_data(j)[k])
  <2>1. Len(j) - k + 1 \in 1..Len(j)
    BY <1>1
  <2>2. IsBuffer(j[Len(j) - k + 1])
    BY <2>1 DEF IsJournal
  <2> QED
    BY <1>2, <2>2
<1> QED
  BY <1>1, <1>2, <1>3, <1>4 DEF IsJournal

(* Two buffers joined. *)
LEMMA JoinLemma ==
  ASSUME NEW f, NEW g, IsBuffer(f), IsBuffer(g)
  PROVE  /\ IsBuffer(Join(f, g))
         /\ DOMAIN Join(f, g) = DOMAIN f \cup DOMAIN g
         /\ \A c \in DOMAIN f \cup DOMAIN g : Join(f, g)[c] = IF c \in DOMAIN f THEN f[c] ELSE g[c]
BY DEF Join, IsBuffer

(* Part of a buffer. *)
LEMMA RestrictLemma ==
  ASSUME NEW f, NEW S, IsBuffer(f), S \subseteq DOMAIN f
  PROVE  /\ IsBuffer(Restrict(f, S)) /\ DOMAIN Restrict(f, S) = S
         /\ \A c \in S : Restrict(f, S)[c] = f[c]
BY DEF Restrict, IsBuffer

(* No buffer at all. *)
LEMMA EmptyLemma == IsBuffer(EmptyBuffer) /\ DOMAIN EmptyBuffer = {}
BY DEF EmptyBuffer, IsBuffer

(* No script at all. *)
LEMMA EmptyScript ==
  ASSUME NEW buffer
  PROVE  IsScript(<< >>) /\ PutbackRead(<< >>, buffer)
BY DEF IsScript, PutbackRead, Range

(* Once the head of a script is done, its tail puts back what was read. *)
LEMMA PutbackTail ==
  ASSUME NEW s, IsScript(s), s # << >>, NEW old, NEW new, PutbackRead(s, old),
         DOMAIN old \subseteq DOMAIN new,
         Head(s).kind = "read" => Head(s).cells \subseteq DOMAIN new
  PROVE  PutbackRead(Tail(s), new)
<1> SUFFICES ASSUME NEW i \in 1..Len(Tail(s)), Tail(s)[i].kind = "putback",
                    NEW c \in Tail(s)[i].cells, c \notin DOMAIN new
             PROVE  \E j \in 1..(i - 1) : Tail(s)[j].kind = "read" /\ c \in Tail(s)[j].cells
  BY ZenonT(60) DEF PutbackRead
<1>1. /\ Len(s) \in Nat /\ i \in 1..(Len(s) - 1) /\ i + 1 \in 1..Len(s)
      /\ Tail(s)[i] = s[i + 1] /\ Head(s) = s[1]
      /\ \A j \in 1..(Len(s) - 1) : Tail(s)[j] = s[j + 1]
  BY ScriptTail
<1>2. PICK j \in 1..((i + 1) - 1) : s[j].kind = "read" /\ c \in s[j].cells
  BY <1>1 DEF PutbackRead
<1>3. j # 1
  BY <1>1, <1>2
<1>4. j - 1 \in 1..(i - 1) /\ Tail(s)[j - 1] = s[j]
  BY <1>1, <1>3
<1> QED
  BY <1>2, <1>4

(* The next chunk of a transfer lies in one block and is not empty. *)
LEMMA ChunkLemma ==
  ASSUME NEW left \in SUBSET Cells, NEW low \in Lowest(left)
  PROVE  /\ Chunk(left, low) \subseteq left
         /\ Chunk(left, low) \subseteq BlockCells(BlockOf(low))
         /\ low \in Chunk(left, low)
         /\ BlockOf(low) \in Nat
BY BlockOfNat DEF Lowest, Chunk, BlockCells
-----------------------------------------------------------------------------
(* What a device_write() writes covers its cells. *)
LEMMA NewDataLemma ==
  ASSUME TypeOK, TransferInv, pc = "write"
  PROVE  IsBuffer(NewData) /\ DOMAIN NewData = Head(todo).cells
<1>1. todo # << >> /\ IsScript(todo) /\ Head(todo).kind \in {"write", "putback"}
  BY DEF TypeOK, TransferInv
<1>2. IsStep(Head(todo)) /\ Head(todo) = todo[1] /\ Len(todo) \in Nat \ {0}
  BY <1>1, ScriptTail
<1>3. CASE Head(todo).kind = "write"
  BY <1>2, <1>3 DEF NewData, IsStep
<1>4. CASE Head(todo).kind = "putback"
  <2>1. \A c \in Head(todo).cells :
          c \in DOMAIN saved \/ \E j \in 1..0 : todo[j].kind = "read" /\ c \in todo[j].cells
    BY <1>2, <1>4 DEF TypeOK, PutbackRead
  <2>2. Head(todo).cells \subseteq DOMAIN saved
    BY <2>1
  <2> QED
    BY <1>4, <2>2, RestrictLemma DEF NewData, TypeOK
<1> QED
  BY <1>1, <1>3, <1>4

(* A finished step of the script. *)
LEMMA StepDoneLemma ==
  ASSUME TypeOK, todo # << >>, StepDone,
         IsBuffer(saved'), DOMAIN saved \subseteq DOMAIN saved',
         Head(todo).kind = "read" => Head(todo).cells \subseteq DOMAIN saved'
  PROVE  /\ IsScript(todo') /\ PutbackRead(todo', saved') /\ IsTransfer(cur')
         /\ pc' = "run" /\ ok' \in BOOLEAN
<1>1. IsScript(todo) /\ PutbackRead(todo, saved)
  BY DEF TypeOK
<1>2. IsScript(Tail(todo)) /\ PutbackRead(Tail(todo), saved')
  BY <1>1, ScriptTail, PutbackTail
<1> QED
  BY <1>2, EmptyLemma DEF StepDone, Idle, Transfer, IsTransfer, TypeOK

(* goto cleanup *)
LEMMA AbortLemma ==
  ASSUME Abort
  PROVE  /\ IsScript(todo') /\ PutbackRead(todo', saved') /\ IsTransfer(cur')
         /\ pc' = "cleanup" /\ ok' = FALSE
BY EmptyScript, EmptyLemma DEF Abort, Idle, Transfer, IsTransfer

(* A transfer with nothing read yet, and one that has read another chunk. *)
LEMMA TransferLemma ==
  ASSUME NEW left \in SUBSET Cells, NEW old, IsBuffer(old)
  PROVE  /\ IsTransfer(Transfer(left, old))
         /\ Transfer(left, old).left = left /\ Transfer(left, old).old = old
BY DEF Transfer, IsTransfer

(* Part of the cached block as a buffer. *)
LEMMA CachedChunk ==
  ASSUME NEW d, DeviceOK(d), NEW chunk \in SUBSET BlockCells(d.block)
  PROVE  /\ IsBuffer(Restrict(d.cache, chunk)) /\ DOMAIN Restrict(d.cache, chunk) = chunk
         /\ \A c \in chunk : Restrict(d.cache, chunk)[c] = Logical(d, c)
<1>1. IsBuffer(d.cache) /\ DOMAIN d.cache = BlockCells(d.block)
  BY DEF DeviceOK, IsBuffer, BlockCells
<1> QED
  BY <1>1, RestrictLemma DEF Logical

(* What a transfer has read, with another chunk from the cache. *)
LEMMA AddChunk ==
  ASSUME NEW old, IsBuffer(old), NEW d, DeviceOK(d), NEW chunk \in SUBSET BlockCells(d.block)
  PROVE  LET new == Join(old, Restrict(d.cache, chunk))
         IN  /\ IsBuffer(new) /\ DOMAIN new = DOMAIN old \cup chunk
             /\ \A c \in DOMAIN new : new[c] = IF c \in DOMAIN old THEN old[c] ELSE Logical(d, c)
<1> DEFINE part == Restrict(d.cache, chunk)
           new == Join(old, part)
<1>1. IsBuffer(part) /\ DOMAIN part = chunk /\ \A c \in chunk : part[c] = Logical(d, c)
  BY CachedChunk
<1> HIDE DEF part
<1>a. IsBuffer(part)
  BY <1>1
<1>b. IsBuffer(new)
  BY <1>a, JoinLemma, ZenonT(60)
<1>c. DOMAIN new = DOMAIN old \cup DOMAIN part
  BY DEF Join
<1>d. \A c \in DOMAIN old \cup DOMAIN part : new[c] = IF c \in DOMAIN old THEN old[c] ELSE part[c]
  BY DEF Join
<1>2. /\ IsBuffer(new) /\ DOMAIN new = DOMAIN old \cup DOMAIN part
      /\ \A c \in DOMAIN old \cup DOMAIN part : new[c] = IF c \in DOMAIN old THEN old[c] ELSE part[c]
  BY <1>b, <1>c, <1>d
<1> HIDE DEF new
<1>3. /\ DOMAIN new = DOMAIN old \cup chunk
      /\ \A c \in DOMAIN new : new[c] = IF c \in DOMAIN old THEN old[c] ELSE Logical(d, c)
  BY <1>1, <1>2
<1> QED
  BY <1>2, <1>3 DEF new, part

(* The first state has the right shape. *)
LEMMA TypeInit == Init => TypeOK /\ TransferInv
<1> SUFFICES ASSUME Init PROVE TypeOK /\ TransferInv
  OBVIOUS
<1>1. PICK disk \in Images : dev = Device(disk, EmptyBuffer, NoBlock, FALSE)
  BY ZenonT(60) DEF Init
<1>2. DeviceOK(dev)
  <2>1. disk \in [Cells -> Values]
    BY InstallerConstants
  <2>2. EmptyBuffer \in [BlockCells(NoBlock) -> Values] /\ DOMAIN EmptyBuffer = {}
    BY NoBlockCells DEF EmptyBuffer
  <2> QED
    BY <1>1, <2>1, <2>2 DEF Device, DeviceOK, NoBlock
<1>3. dev.disk = disk
  BY <1>1 DEF Device
<1>4. IsTransfer(Idle) /\ IsBuffer(saved)
  BY TransferLemma, EmptyLemma DEF Idle, Init
<1>5. IsScript(todo) /\ PutbackRead(todo, saved)
  BY EmptyScript DEF Init
<1>6. IsJournal(journal)
  BY DEF Init, IsJournal, Range
<1> QED
  <2>1. orig \in [Cells -> Values]
    BY <1>2, <1>3, ZenonT(60) DEF Init, DeviceOK
  <2>2. TypeOK
    BY <1>2, <1>4, <1>5, <1>6, <2>1, ZenonT(60) DEF Init, TypeOK, NoUndo, UndoState
  <2>3. TransferInv
    BY DEF Init, TransferInv
  <2> QED
    BY <2>2, <2>3

(* What the type invariant says of the state's parts. *)
LEMMA TypeParts ==
  ASSUME TypeOK
  PROVE  /\ DeviceOK(dev) /\ IsTransfer(cur) /\ IsScript(todo) /\ IsBuffer(saved)
         /\ cur.left \subseteq Cells /\ IsBuffer(cur.old)
BY DEF TypeOK, IsTransfer

(* device_init() and a dropped cache leave a device. *)
LEMMA FreshCache ==
  ASSUME TypeOK
  PROVE  /\ DeviceOK(Device(dev.disk, Restrict(dev.disk, BlockCells(0)), 0, FALSE))
         /\ DeviceOK(DropCache(dev)) /\ IsTransfer(Idle)
BY TypeParts, FreshCacheLemma, TransferLemma, EmptyLemma, ZenonT(60) DEF Idle

(* uninstall() starts with the first entry, if there is one. *)
LEMMA FirstEntry ==
  ASSUME TypeOK, NEW j, IsJournal(j), \A k \in 1..Len(j) : DOMAIN j[k] # {}
  PROVE  LET t == IF j = << >> THEN Idle ELSE Transfer(DOMAIN j[1], EmptyBuffer)
         IN  IsTransfer(t) /\ (1 <= Len(j) => t.left = DOMAIN j[1] /\ t.left # {})
<1>1. j = << >> => Len(j) = 0
  OBVIOUS
<1>2. j # << >> => Len(j) \in Nat \ {0} /\ 1 \in 1..Len(j)
  BY DEF IsJournal
<1>3. j # << >> => DOMAIN j[1] \subseteq Cells /\ DOMAIN j[1] # {}
  BY <1>2 DEF IsJournal, IsBuffer
<1> QED
  BY <1>1, <1>2, <1>3, FreshCache, TransferLemma, EmptyLemma

(* DeviceInitFails keeps the type invariant. *)
LEMMA TypeDeviceInitFails ==
  ASSUME TypeOK, TransferInv, DeviceInitFails
  PROVE  TypeOK' /\ TransferInv'
BY ZenonT(60) DEF DeviceInitFails, TypeOK, TransferInv

(* StartInstall keeps the type invariant. *)
LEMMA TypeStartInstall ==
  ASSUME TypeOK, TransferInv, StartInstall
  PROVE  TypeOK' /\ TransferInv'
<1>1. DeviceOK(dev')
  BY FreshCache, ZenonT(60) DEF StartInstall, DeviceInit
<1>2. IsScript(todo') /\ PutbackRead(todo', saved')
  <2>1. PutbackRead(todo', EmptyBuffer) /\ IsScript(todo')
    BY InstallerConstants DEF StartInstall
  <2>2. DOMAIN EmptyBuffer \subseteq DOMAIN saved'
    BY EmptyLemma
  <2> QED
    BY <2>1, <2>2 DEF PutbackRead
<1> QED
  BY <1>1, <1>2 DEF StartInstall, TypeOK, TransferInv

(* LoadFails keeps the type invariant. *)
LEMMA TypeLoadFails ==
  ASSUME TypeOK, TransferInv, LoadFails
  PROVE  TypeOK' /\ TransferInv'
<1>1. DeviceOK(dev')
  BY FreshCache, ZenonT(60) DEF LoadFails, DeviceInit
<1> QED
  BY <1>1, ZenonT(60) DEF LoadFails, TypeOK, TransferInv

(* StartUninstall keeps the type invariant. *)
LEMMA TypeStartUninstall ==
  ASSUME TypeOK, TransferInv, StartUninstall
  PROVE  TypeOK' /\ TransferInv'
<1>1. DeviceOK(dev')
  <2>1. dev' = DropCache(Device(dev.disk, Restrict(dev.disk, BlockCells(0)), 0, FALSE))
    BY DEF StartUninstall, DeviceInit
  <2> QED
    BY <2>1, FreshCache, FreshCacheLemma, ZenonT(60)
<1>2. IsJournal(journal') /\ \A k \in 1..Len(journal') : DOMAIN journal'[k] # {}
  BY DEF StartUninstall, TypeOK, TransferInv
<1>3. IsTransfer(cur') /\ (1 <= Len(journal') => cur'.left = DOMAIN journal'[1] /\ cur'.left # {})
  BY FirstEntry, <1>2, ZenonT(60) DEF StartUninstall
<1>4. undo'.i = 1 /\ undo' \in [i : Nat, retry : BOOLEAN, writeFail : BOOLEAN, flushFail : BOOLEAN]
  BY DEF StartUninstall, StartUndo, UndoState
<1>5. TypeOK'
  BY <1>1, <1>2, <1>3, <1>4 DEF StartUninstall, TypeOK
<1>6. TransferInv'
  BY <1>2, <1>3, <1>4 DEF StartUninstall, TransferInv
<1> QED
  BY <1>5, <1>6

(* BeginRead keeps the type invariant. *)
LEMMA TypeBeginRead ==
  ASSUME TypeOK, TransferInv, BeginRead
  PROVE  TypeOK' /\ TransferInv'
<1>1. IsStep(Head(todo))
  BY TypeParts, ScriptTail DEF BeginRead
<1>2. /\ IsTransfer(cur') /\ cur'.left = Head(todo).cells /\ cur'.old = EmptyBuffer
      /\ cur'.left # {}
  BY <1>1, TransferLemma, EmptyLemma DEF BeginRead, IsStep
<1>3. TypeOK'
  BY <1>2 DEF BeginRead, TypeOK
<1>4. TransferInv'
  BY <1>2, EmptyLemma DEF BeginRead, TransferInv
<1> QED
  BY <1>3, <1>4

(* ReadChunk keeps the type invariant. *)
LEMMA TypeReadChunk ==
  ASSUME TypeOK, TransferInv, ReadChunk
  PROVE  TypeOK' /\ TransferInv'
<1>0. PICK low \in Lowest(cur.left) : \E r \in device_cache_block(dev, BlockOf(low)) :
        /\ dev' = r.dev
        /\ \/ ReadMore(Chunk(cur.left, low), r) \/ ReadDone(Chunk(cur.left, low), r)
           \/ CheckPasses(Chunk(cur.left, low), r) \/ ReadFails(Chunk(cur.left, low), r)
  BY DEF ReadChunk
<1> DEFINE chunk == Chunk(cur.left, low)
<1>1. PICK r \in device_cache_block(dev, BlockOf(low)) :
        /\ dev' = r.dev
        /\ ReadMore(chunk, r) \/ ReadDone(chunk, r) \/ CheckPasses(chunk, r) \/ ReadFails(chunk, r)
  BY <1>0
<1>2. /\ DeviceOK(r.dev) /\ (r.ok => r.dev.block = BlockOf(low))
      /\ chunk \subseteq cur.left /\ chunk \subseteq BlockCells(BlockOf(low))
  BY TypeParts, CacheBlockLemma, ChunkLemma
<1>3. /\ pc = "read" /\ todo # << >> /\ Head(todo).kind \in {"check", "read"}
      /\ cur.left \cup DOMAIN cur.old = Head(todo).cells /\ cur.left \cap DOMAIN cur.old = {}
      /\ UNCHANGED <<journal, undo, udfile, mode, orig, torn>>
  BY DEF ReadChunk, TransferInv
<1> DEFINE new == Join(cur.old, Restrict(r.dev.cache, chunk))
<1>4. r.ok => IsBuffer(new) /\ DOMAIN new = DOMAIN cur.old \cup chunk
  <2> SUFFICES ASSUME r.ok PROVE IsBuffer(new) /\ DOMAIN new = DOMAIN cur.old \cup chunk
    OBVIOUS
  <2>1. chunk \in SUBSET BlockCells(r.dev.block)
    BY <1>2
  <2>2. DeviceOK(r.dev) /\ IsBuffer(cur.old)
    BY <1>2, TypeParts
  <2> HIDE DEF chunk
  <2> QED
    BY <2>1, <2>2, AddChunk, ZenonT(60)
<1> HIDE DEF chunk, new
<1>5. CASE ReadMore(chunk, r)
  <2>1. /\ IsTransfer(cur') /\ cur'.left = cur.left \ chunk /\ cur'.left # {}
        /\ DOMAIN cur'.old = DOMAIN cur.old \cup chunk
    <3>1. cur' = Transfer(cur.left \ chunk, new) /\ cur.left # chunk /\ r.ok
      BY <1>5 DEF ReadMore, new
    <3> QED
      <4>1. cur.left \ chunk \in SUBSET Cells /\ IsBuffer(new) /\ cur.left \ chunk # {}
        BY TypeParts, <1>2, <1>4, <3>1
      <4>2. IsTransfer(cur') /\ cur'.left = cur.left \ chunk /\ cur'.old = new
        BY <3>1, <4>1, TransferLemma
      <4> QED
        BY <3>1, <4>1, <4>2, <1>4
  <2>2. TypeOK'
    BY <1>1, <1>2, <1>3, <1>5, <2>1 DEF TypeOK, ReadMore
  <2>3. TransferInv'
    BY <1>2, <1>3, <1>5, <2>1, ZenonT(60) DEF TransferInv, ReadMore
  <2> QED
    BY <2>2, <2>3
<1>6. CASE CheckPasses(chunk, r) \/ ReadDone(chunk, r)
  <2>1. /\ IsBuffer(saved') /\ DOMAIN saved \subseteq DOMAIN saved' /\ StepDone
        /\ Head(todo).kind = "read" => Head(todo).cells \subseteq DOMAIN saved'
    <3>1. CASE CheckPasses(chunk, r)
      BY <3>1, TypeParts DEF CheckPasses
    <3>2. CASE ReadDone(chunk, r)
      <4>1. IsBuffer(saved') /\ DOMAIN saved' = DOMAIN cur.old \cup chunk \cup DOMAIN saved
        <5>1. saved' = Join(new, saved) /\ r.ok
          BY <3>2 DEF ReadDone, new
        <5> QED
          BY <5>1, <1>4, TypeParts, JoinLemma, ZenonT(60)
      <4> QED
        BY <4>1, <3>2, <1>3 DEF ReadDone
    <3> QED
      BY <1>6, <3>1, <3>2
  <2>2. /\ IsScript(todo') /\ PutbackRead(todo', saved') /\ IsTransfer(cur')
        /\ pc' = "run" /\ ok' \in BOOLEAN
    BY <2>1, <1>3, StepDoneLemma
  <2>3. TypeOK'
    BY <1>1, <1>2, <1>3, <2>1, <2>2 DEF TypeOK
  <2>4. TransferInv'
    BY <1>3, <2>2 DEF TransferInv
  <2> QED
    BY <2>3, <2>4
<1>7. CASE ReadFails(chunk, r)
  <2>1. TypeOK'
    BY <1>1, <1>2, <1>3, <1>7, AbortLemma DEF TypeOK, ReadFails
  <2>2. TransferInv'
    BY <1>3, <1>7, AbortLemma DEF TransferInv, ReadFails
  <2> QED
    BY <2>1, <2>2
<1> QED
  BY <1>1, <1>5, <1>6, <1>7

(* WriteRefused keeps the type invariant. *)
LEMMA TypeWriteRefused ==
  ASSUME TypeOK, TransferInv, WriteRefused
  PROVE  TypeOK' /\ TransferInv'
<1>1. TypeOK'
  BY AbortLemma DEF WriteRefused, TypeOK
<1>2. TransferInv'
  BY AbortLemma DEF WriteRefused, TransferInv
<1> QED
  BY <1>1, <1>2

(* BeginWrite keeps the type invariant. *)
LEMMA TypeBeginWrite ==
  ASSUME TypeOK, TransferInv, BeginWrite
  PROVE  TypeOK' /\ TransferInv'
<1>1. IsStep(Head(todo))
  BY TypeParts, ScriptTail DEF BeginWrite
<1>2. /\ IsTransfer(cur') /\ cur'.left = Head(todo).cells /\ cur'.old = EmptyBuffer
      /\ cur'.left # {}
  BY <1>1, TransferLemma, EmptyLemma DEF BeginWrite, IsStep
<1>3. TypeOK'
  BY <1>2 DEF BeginWrite, TypeOK
<1>4. TransferInv'
  BY <1>2, EmptyLemma DEF BeginWrite, TransferInv
<1> QED
  BY <1>3, <1>4

(* SaveChunk keeps the type invariant. *)
LEMMA TypeSaveChunk ==
  ASSUME TypeOK, TransferInv, SaveChunk
  PROVE  TypeOK' /\ TransferInv'
<1>0. PICK low \in Lowest(cur.left) : \E r \in device_cache_block(dev, BlockOf(low)) :
        dev' = r.dev /\ (SaveMore(Chunk(cur.left, low), r) \/ (~r.ok /\ Abort))
  BY DEF SaveChunk
<1> DEFINE chunk == Chunk(cur.left, low)
<1>1. PICK r \in device_cache_block(dev, BlockOf(low)) :
        dev' = r.dev /\ (SaveMore(chunk, r) \/ Abort)
  BY <1>0
<1>2. /\ DeviceOK(r.dev) /\ (r.ok => r.dev.block = BlockOf(low))
      /\ chunk \subseteq cur.left /\ chunk \subseteq BlockCells(BlockOf(low))
  BY TypeParts, CacheBlockLemma, ChunkLemma
<1>3. /\ pc = "save" /\ todo # << >> /\ Head(todo).kind \in {"write", "putback"}
      /\ cur.left \cup DOMAIN cur.old = Head(todo).cells /\ cur.left \cap DOMAIN cur.old = {}
      /\ UNCHANGED <<journal, saved, undo, udfile, mode, orig, torn>>
  BY DEF SaveChunk, TransferInv
<1> DEFINE new == Join(cur.old, Restrict(r.dev.cache, chunk))
<1>4. r.ok => IsBuffer(new) /\ DOMAIN new = DOMAIN cur.old \cup chunk
  <2> SUFFICES ASSUME r.ok PROVE IsBuffer(new) /\ DOMAIN new = DOMAIN cur.old \cup chunk
    OBVIOUS
  <2>1. chunk \in SUBSET BlockCells(r.dev.block)
    BY <1>2
  <2>2. DeviceOK(r.dev) /\ IsBuffer(cur.old)
    BY <1>2, TypeParts
  <2> HIDE DEF chunk
  <2> QED
    BY <2>1, <2>2, AddChunk, ZenonT(60)
<1> HIDE DEF chunk, new
<1>5. CASE SaveMore(chunk, r)
  <2>1. Head(todo).cells \subseteq Cells /\ Head(todo).cells # {}
    BY TypeParts, <1>3, ScriptTail DEF IsStep
  <2>2. /\ IsTransfer(cur') /\ cur'.left = IF cur.left = chunk THEN Head(todo).cells ELSE cur.left \ chunk
        /\ DOMAIN cur'.old = DOMAIN cur.old \cup chunk
    <3>1. /\ cur' = Transfer(IF cur.left = chunk THEN Head(todo).cells ELSE cur.left \ chunk, new)
          /\ r.ok
      BY <1>5 DEF SaveMore, new
    <3> QED
      BY TypeParts, <1>4, <2>1, <3>1, TransferLemma
  <2>3. TypeOK'
    BY <1>1, <1>2, <1>3, <1>5, <2>2 DEF TypeOK, SaveMore
  <2>4. TransferInv'
    BY <1>2, <1>3, <1>5, <2>1, <2>2 DEF TransferInv, SaveMore
  <2> QED
    BY <2>3, <2>4
<1>6. CASE Abort
  <2>1. TypeOK'
    BY <1>1, <1>2, <1>3, <1>6, AbortLemma DEF TypeOK
  <2>2. TransferInv'
    BY <1>3, <1>6, AbortLemma DEF TransferInv
  <2> QED
    BY <2>1, <2>2
<1> QED
  BY <1>1, <1>5, <1>6

(* WriteChunk keeps the type invariant. *)
LEMMA TypeWriteChunk ==
  ASSUME TypeOK, TransferInv, WriteChunk
  PROVE  TypeOK' /\ TransferInv'
<1>0. PICK low \in Lowest(cur.left) : \E r \in device_cache_block(dev, BlockOf(low)) :
        \/ WriteMore(Chunk(cur.left, low), r) \/ WriteDone(Chunk(cur.left, low), r)
        \/ WriteFails(r)
  BY DEF WriteChunk
<1> DEFINE chunk == Chunk(cur.left, low)
<1>1. PICK r \in device_cache_block(dev, BlockOf(low)) :
        WriteMore(chunk, r) \/ WriteDone(chunk, r) \/ WriteFails(r)
  BY <1>0
<1>2. /\ DeviceOK(r.dev) /\ (r.ok => r.dev.block = BlockOf(low))
      /\ chunk \subseteq cur.left /\ chunk \subseteq BlockCells(BlockOf(low)) /\ chunk # {}
  BY TypeParts, CacheBlockLemma, ChunkLemma
<1>3. /\ pc = "write" /\ todo # << >> /\ Head(todo).kind \in {"write", "putback"}
      /\ DOMAIN cur.old = Head(todo).cells /\ cur.left \subseteq Head(todo).cells
      /\ UNCHANGED <<saved, undo, udfile, mode, orig>>
  BY DEF WriteChunk, TransferInv
<1> HIDE DEF chunk
<1>4. r.ok => DeviceOK(PutChunk(r.dev, NewData, chunk))
  <2>1. IsBuffer(NewData) /\ chunk \subseteq DOMAIN NewData
    BY <1>2, <1>3, NewDataLemma
  <2>2. r.ok => chunk \in SUBSET BlockCells(r.dev.block)
    BY <1>2
  <2> QED
    BY <1>2, <2>1, <2>2, PutChunkLemma, ZenonT(60)
<1>5. CASE WriteMore(chunk, r)
  <2>1. cur.left \ chunk \in SUBSET Cells /\ cur.left \ chunk # {}
    BY TypeParts, <1>2, <1>5 DEF WriteMore
  <2>2. IsTransfer(cur') /\ cur'.left = cur.left \ chunk /\ cur'.old = cur.old
    <3>1. cur' = Transfer(cur.left \ chunk, cur.old)
      BY <1>5, ZenonT(60) DEF WriteMore
    <3> QED
      BY TypeParts, <2>1, <3>1, TransferLemma, ZenonT(60)
  <2>3. TypeOK'
    BY <1>3, <1>4, <1>5, <2>2 DEF TypeOK, WriteMore
  <2>4. TransferInv'
    BY <1>3, <1>5, <2>1, <2>2, ZenonT(60) DEF TransferInv, WriteMore
  <2> QED
    BY <2>3, <2>4
<1>6. CASE WriteDone(chunk, r)
  <2>1. StepDone /\ saved' = saved
    BY <1>3, <1>6 DEF WriteDone
  <2>2. /\ IsScript(todo') /\ PutbackRead(todo', saved') /\ IsTransfer(cur')
        /\ pc' = "run" /\ ok' \in BOOLEAN
    BY TypeParts, <1>3, <2>1, StepDoneLemma
  <2>3. /\ IsJournal(journal') /\ Len(journal') = Len(journal) + 1 /\ Len(journal) \in Nat
        /\ \A k \in 1..Len(journal) : journal'[k] = journal[k]
        /\ journal'[Len(journal) + 1] = cur.old
    <3>1. journal' = Append(journal, cur.old)
      BY <1>6, ZenonT(60) DEF WriteDone
    <3>2. IsJournal(journal) /\ IsBuffer(cur.old)
      BY TypeParts, ZenonT(60) DEF TypeOK
    <3> QED
      BY <3>1, <3>2, JournalAppend, ZenonT(60)
  <2>4. DOMAIN cur.old # {}
    BY TypeParts, <1>3, ScriptTail DEF IsStep
  <2>5. \A k \in 1..Len(journal') : DOMAIN journal'[k] # {}
    <3>1. \A k \in 1..Len(journal) : DOMAIN journal[k] # {}
      BY ZenonT(60) DEF TransferInv
    <3> QED
      BY <2>3, <2>4, <3>1
  <2>6. TypeOK'
    BY <1>3, <1>4, <1>6, <2>1, <2>2, <2>3 DEF TypeOK, WriteDone
  <2>7. TransferInv'
    BY <1>3, <2>2, <2>5 DEF TransferInv
  <2> QED
    BY <2>6, <2>7
<1>7. CASE WriteFails(r)
  <2>1. DOMAIN cur.old \subseteq Cells
    BY TypeParts DEF IsBuffer
  <2>2. TypeOK'
    BY <1>2, <1>3, <1>7, <2>1, AbortLemma DEF TypeOK, WriteFails
  <2>3. TransferInv'
    BY <1>3, <1>7, AbortLemma DEF TransferInv, WriteFails
  <2> QED
    BY <2>2, <2>3
<1> QED
  BY <1>1, <1>5, <1>6, <1>7

(* FinishInstall keeps the type invariant. *)
LEMMA TypeFinishInstall ==
  ASSUME TypeOK, TransferInv, FinishInstall
  PROVE  TypeOK' /\ TransferInv'
<1>1. PICK r \in device_flush_cache(dev) : dev' = r.dev /\ ok' = r.ok
  BY DEF FinishInstall
<1>2. DeviceOK(dev') /\ ok' \in BOOLEAN
  BY TypeParts, <1>1, FlushLemma
<1> QED
  BY <1>2 DEF FinishInstall, TypeOK, TransferInv

(* Cleanup keeps the type invariant. *)
LEMMA TypeCleanup ==
  ASSUME TypeOK, TransferInv, Cleanup
  PROVE  TypeOK' /\ TransferInv'
<1>1. /\ IsJournal(journal') /\ Len(journal') = Len(journal) /\ Len(journal) \in Nat
      /\ \A k \in 1..Len(journal) : journal'[k] = journal[Len(journal) - k + 1]
  BY JournalReverse DEF Cleanup, TypeOK
<1>2. ASSUME NEW k \in 1..Len(journal') PROVE DOMAIN journal'[k] # {}
  <2>1. Len(journal) - k + 1 \in 1..Len(journal)
    BY <1>1
  <2> QED
    BY <1>1, <2>1 DEF TransferInv
<1>3. udfile' = udfile \/ udfile' = << >> \/ udfile' = <<journal'>>
  BY DEF Cleanup
<1>4. /\ udfile' = << >> \/ (Len(udfile') = 1 /\ IsJournal(udfile'[1]))
      /\ udfile' # << >> => \A k \in 1..Len(udfile'[1]) : DOMAIN udfile'[1][k] # {}
  <2>1. CASE udfile' = udfile
    BY <2>1 DEF TypeOK, TransferInv
  <2>2. CASE udfile' = << >>
    BY <2>2
  <2>3. CASE udfile' = <<journal'>>
    <3>1. Len(udfile') = 1 /\ udfile'[1] = journal'
      BY <2>3
    <3> QED
      BY <1>1, <1>2, <3>1
  <2> QED
    BY <1>3, <2>1, <2>2, <2>3
<1>5. /\ UNCHANGED <<todo, saved, mode, orig, torn>> /\ ok' \in BOOLEAN
      /\ (pc' = "close" /\ UNCHANGED <<dev, cur, undo>>) \/ BeginUndo
  BY ZenonT(60) DEF Cleanup, TypeOK
<1>6. CASE pc' = "close" /\ UNCHANGED <<dev, cur, undo>>
  <2>1. TypeOK'
    BY <1>1, <1>4, <1>5, <1>6 DEF TypeOK
  <2>2. TransferInv'
    BY <1>2, <1>4, <1>6 DEF TransferInv
  <2> QED
    BY <2>1, <2>2
<1>7. CASE BeginUndo
  <2>1. IsTransfer(cur') /\ (1 <= Len(journal') => cur'.left = DOMAIN journal'[1] /\ cur'.left # {})
    BY FirstEntry, <1>1, <1>2, <1>7, ZenonT(60) DEF BeginUndo
  <2>2. DeviceOK(dev') /\ pc' = "undo"
    BY FreshCache, <1>7 DEF BeginUndo
  <2>3. undo'.i = 1 /\ undo' \in [i : Nat, retry : BOOLEAN, writeFail : BOOLEAN, flushFail : BOOLEAN]
    BY <1>7 DEF BeginUndo, StartUndo, UndoState
  <2>4. TypeOK'
    BY <1>1, <1>4, <1>5, <2>1, <2>2, <2>3 DEF TypeOK
  <2>5. TransferInv'
    BY <1>2, <1>4, <2>1, <2>2, <2>3 DEF TransferInv
  <2> QED
    BY <2>4, <2>5
<1> QED
  BY <1>5, <1>6, <1>7

(* Entries are counted from 1. *)
LEMMA UndoIndex ==
  ASSUME TypeOK, TransferInv, pc = "undo"
  PROVE  undo.i \in Nat \ {0}
BY DEF TransferInv, TypeOK

(* uninstall() goes on to the next entry, if there is one. *)
LEMMA LaterEntry ==
  ASSUME TypeOK, TransferInv, NextEntry, undo.i \in Nat, IsJournal(journal), pc = "undo"
  PROVE  /\ IsTransfer(cur')
         /\ undo.i + 1 <= Len(journal) => cur'.left = DOMAIN journal[undo.i + 1] /\ cur'.left # {}
<1>1. Len(journal) \in Nat
  BY DEF IsJournal
<1>2. undo.i < Len(journal) => undo.i + 1 \in 1..Len(journal)
  BY <1>1
<1>3. undo.i < Len(journal) =>
        DOMAIN journal[undo.i + 1] \in SUBSET Cells /\ DOMAIN journal[undo.i + 1] # {}
  BY <1>2 DEF IsJournal, IsBuffer, TransferInv
<1> QED
  BY <1>1, <1>3, FreshCache, TransferLemma, EmptyLemma DEF NextEntry

(* UndoChunk keeps the type invariant. *)
LEMMA TypeUndoChunk ==
  ASSUME TypeOK, TransferInv, UndoChunk
  PROVE  TypeOK' /\ TransferInv'
<1>0. PICK low \in Lowest(cur.left) : \E r \in device_cache_block(dev, BlockOf(low)) :
        \/ UndoMore(Chunk(cur.left, low), r) \/ UndoEntryDone(Chunk(cur.left, low), r)
        \/ UndoRetry(r) \/ UndoGiveUp(r)
  BY DEF UndoChunk
<1> DEFINE chunk == Chunk(cur.left, low)
<1>1. PICK r \in device_cache_block(dev, BlockOf(low)) :
        UndoMore(chunk, r) \/ UndoEntryDone(chunk, r) \/ UndoRetry(r) \/ UndoGiveUp(r)
  BY <1>0
<1>2. /\ DeviceOK(r.dev) /\ (r.ok => r.dev.block = BlockOf(low))
      /\ chunk \subseteq cur.left /\ chunk \subseteq BlockCells(BlockOf(low)) /\ chunk # {}
  BY TypeParts, CacheBlockLemma, ChunkLemma
<1>3. /\ pc = "undo" /\ undo.i <= Len(journal) /\ Len(journal) \in Nat /\ undo.i \in Nat
      /\ cur.left \subseteq DOMAIN journal[undo.i] /\ IsJournal(journal)
      /\ UNCHANGED <<journal, pc, todo, saved, ok, udfile, mode, orig, torn>>
      /\ undo \in [i : Nat, retry : BOOLEAN, writeFail : BOOLEAN, flushFail : BOOLEAN]
  <2>1. /\ pc = "undo" /\ undo.i <= Len(journal)
        /\ UNCHANGED <<journal, pc, todo, saved, ok, udfile, mode, orig, torn>>
    BY DEF UndoChunk
  <2>2. /\ IsJournal(journal)
        /\ undo \in [i : Nat, retry : BOOLEAN, writeFail : BOOLEAN, flushFail : BOOLEAN]
    BY DEF TypeOK
  <2>3. Len(journal) \in Nat
    BY <2>2 DEF IsJournal
  <2>4. cur.left \subseteq DOMAIN journal[undo.i]
    BY <2>1 DEF TransferInv
  <2> QED
    BY <2>1, <2>2, <2>3, <2>4
<1> HIDE DEF chunk
<1>4. DeviceOK(dev')
  <2>1. CASE r.ok /\ dev' = PutChunk(r.dev, journal[undo.i], chunk)
    <3>0. undo.i \in 1..Len(journal)
      BY UndoIndex, <1>3
    <3>1. /\ IsBuffer(journal[undo.i])
          /\ chunk \subseteq DOMAIN journal[undo.i]
      <4>1. IsBuffer(journal[undo.i])
        BY <1>3, <3>0 DEF IsJournal
      <4>2. chunk \subseteq DOMAIN journal[undo.i]
        BY <1>2, <1>3
      <4> QED
        BY <4>1, <4>2
    <3>2. chunk \in SUBSET BlockCells(r.dev.block)
      BY <1>2, <2>1
    <3>3. DeviceOK(r.dev) /\ chunk # {}
      BY <1>2
    <3>4. DeviceOK(PutChunk(r.dev, journal[undo.i], chunk))
      BY <3>1, <3>2, <3>3, PutChunkLemma
    <3> QED
      BY <2>1, <3>4
  <2>2. CASE UndoRetry(r)
    <3>1. PICK f \in device_flush_cache(r.dev) : dev' = DropCache(f.dev)
      BY <2>2 DEF UndoRetry
    <3> QED
      BY <1>2, <3>1, FlushLemma, FreshCacheLemma, ZenonT(60)
  <2>3. CASE UndoGiveUp(r)
    BY <1>2, <2>3 DEF UndoGiveUp
  <2> QED
    BY <1>1, <2>1, <2>2, <2>3, ZenonT(60) DEF UndoMore, UndoEntryDone
<1>5. CASE UndoMore(chunk, r)
  <2>1. cur.left \ chunk \in SUBSET Cells /\ cur.left \ chunk # {}
    BY TypeParts, <1>2, <1>5 DEF UndoMore
  <2>2. IsTransfer(cur') /\ cur'.left = cur.left \ chunk
    BY <1>5, <2>1, TransferLemma, EmptyLemma DEF UndoMore
  <2>3. TypeOK'
    BY <1>3, <1>4, <1>5, <2>2 DEF TypeOK, UndoMore
  <2>4. TransferInv'
    BY <1>3, <1>5, <2>1, <2>2 DEF TransferInv, UndoMore
  <2> QED
    BY <2>3, <2>4
<1>6. CASE UndoEntryDone(chunk, r) \/ UndoGiveUp(r)
  <2>1. /\ undo'.i = undo.i + 1 /\ NextEntry
        /\ undo' \in [i : Nat, retry : BOOLEAN, writeFail : BOOLEAN, flushFail : BOOLEAN]
    <3>1. CASE UndoEntryDone(chunk, r)
      <4>1. undo' = UndoState(undo.i + 1, FALSE, undo.writeFail, undo.flushFail) /\ NextEntry
        BY <3>1, ZenonT(60) DEF UndoEntryDone
      <4> QED
        BY <1>3, <4>1 DEF UndoState
    <3>2. CASE UndoGiveUp(r)
      BY <1>3, <3>2 DEF UndoGiveUp, UndoState
    <3> QED
      BY <1>6, <3>1, <3>2
  <2>2. /\ IsTransfer(cur')
        /\ undo'.i <= Len(journal) => cur'.left = DOMAIN journal[undo'.i] /\ cur'.left # {}
    BY LaterEntry, <1>3, <2>1
  <2>3. TypeOK'
    BY <1>3, <1>4, <2>1, <2>2 DEF TypeOK
  <2>4. TransferInv'
    <3>1. undo'.i > 0
      BY <1>3, <2>1
    <3> QED
      BY <1>3, <2>2, <3>1, ZenonT(60) DEF TransferInv
  <2> QED
    BY <2>3, <2>4
<1>7. CASE UndoRetry(r)
  <2>1. undo.i \in 1..Len(journal)
    BY UndoIndex, <1>3
  <2>2. DOMAIN journal[undo.i] \in SUBSET Cells /\ DOMAIN journal[undo.i] # {}
    BY <1>3, <2>1 DEF IsJournal, IsBuffer, TransferInv
  <2>3. IsTransfer(cur') /\ cur'.left = DOMAIN journal[undo.i]
    BY <1>7, <2>2, TransferLemma, EmptyLemma DEF UndoRetry
  <2>4. /\ undo'.i = undo.i
        /\ undo' \in [i : Nat, retry : BOOLEAN, writeFail : BOOLEAN, flushFail : BOOLEAN]
    <3>1. PICK f \in device_flush_cache(r.dev) :
            undo' = UndoState(undo.i, TRUE, undo.writeFail, undo.flushFail \/ ~f.ok)
      BY <1>7 DEF UndoRetry
    <3> QED
      BY <1>3, <3>1 DEF UndoState
  <2>5. TypeOK'
    BY <1>3, <1>4, <2>3, <2>4 DEF TypeOK
  <2>6. TransferInv'
    BY <1>3, <2>2, <2>3, <2>4 DEF TransferInv
  <2> QED
    BY <2>5, <2>6
<1> QED
  BY <1>1, <1>5, <1>6, <1>7

(* FinishUndo keeps the type invariant. *)
LEMMA TypeFinishUndo ==
  ASSUME TypeOK, TransferInv, FinishUndo
  PROVE  TypeOK' /\ TransferInv'
<1>1. PICK r \in device_flush_cache(dev) :
        /\ dev' = r.dev
        /\ undo' = UndoState(undo.i, undo.retry, undo.writeFail, undo.flushFail \/ ~r.ok)
        /\ ok' = IF mode = "install" THEN ok ELSE r.ok /\ ~undo.flushFail /\ ~undo.writeFail
  BY DEF FinishUndo
<1>2. DeviceOK(dev') /\ r.ok \in BOOLEAN
  BY TypeParts, <1>1, FlushLemma
<1>3. /\ undo' \in [i : Nat, retry : BOOLEAN, writeFail : BOOLEAN, flushFail : BOOLEAN]
      /\ ok' \in BOOLEAN
  BY <1>1, <1>2, ZenonT(60) DEF TypeOK, UndoState
<1> QED
  BY <1>2, <1>3 DEF FinishUndo, TypeOK, TransferInv

(* Close keeps the type invariant. *)
LEMMA TypeClose ==
  ASSUME TypeOK, TransferInv, Close
  PROVE  TypeOK' /\ TransferInv'
BY ZenonT(60) DEF Close, TypeOK, TransferInv

(* Rerun keeps the type invariant. *)
LEMMA TypeRerun ==
  ASSUME TypeOK, TransferInv, Rerun
  PROVE  TypeOK' /\ TransferInv'
<1>1. DeviceOK(dev') /\ IsTransfer(cur')
  BY FreshCache DEF Rerun
<1>2. IsJournal(journal') /\ Len(journal') = 0
  BY DEF Rerun, IsJournal, Range
<1>3. IsScript(todo') /\ PutbackRead(todo', saved') /\ IsBuffer(saved')
  BY EmptyScript, EmptyLemma DEF Rerun
<1>4. undo' \in [i : Nat, retry : BOOLEAN, writeFail : BOOLEAN, flushFail : BOOLEAN]
  BY DEF Rerun, NoUndo, UndoState
<1>5. TypeOK'
  BY <1>1, <1>2, <1>3, <1>4 DEF Rerun, TypeOK
<1>6. TransferInv'
  BY <1>2 DEF Rerun, TransferInv
<1> QED
  BY <1>5, <1>6

(* UNCHANGED vars keeps the type invariant. *)
LEMMA TypeStutter ==
  ASSUME TypeOK, TransferInv, UNCHANGED vars
  PROVE  TypeOK' /\ TransferInv'
<1>1. /\ dev' = dev /\ journal' = journal /\ pc' = pc /\ todo' = todo /\ cur' = cur /\ saved' = saved
      /\ undo' = undo /\ ok' = ok /\ udfile' = udfile /\ mode' = mode /\ orig' = orig /\ torn' = torn
  BY DEF vars
<1>2. TypeOK'
  BY <1>1 DEF TypeOK
<1>3. TransferInv'
  BY <1>1 DEF TransferInv
<1> QED
  BY <1>2, <1>3

(* Every step keeps it. *)
LEMMA TypeStep == TypeOK /\ TransferInv /\ [Next]_vars => TypeOK' /\ TransferInv'
BY TypeDeviceInitFails, TypeStartInstall, TypeLoadFails, TypeStartUninstall, TypeBeginRead,
   TypeReadChunk, TypeWriteRefused, TypeBeginWrite, TypeSaveChunk, TypeWriteChunk,
   TypeFinishInstall, TypeCleanup, TypeUndoChunk, TypeFinishUndo, TypeClose, TypeRerun,
   TypeStutter DEF Next, Work

(* Spec => []TypeOK: through every failure the state keeps its shape and   *)
(* a clean cache equals the block of the device it caches.                 *)
THEOREM TypeCorrect == Spec => []TypeOK
<1>1. Init => TypeOK /\ TransferInv
  BY TypeInit
<1>2. (TypeOK /\ TransferInv) /\ [Next]_vars => (TypeOK /\ TransferInv)'
  BY TypeStep
<1> QED
  BY <1>1, <1>2, PTL DEF Spec
=============================================================================
