------------------------ MODULE HostInstallerUndoProofs ------------------------
(***************************************************************************)
(* UndoInv is inductive; hence what uninstall() reports as undone is       *)
(* undone, and nothing reaches the device before its old contents are      *)
(* saved.                                                                  *)
(***************************************************************************)
EXTENDS HostInstallerProofs

\* The usual order of the provers, and then both again with more time.
USE SMT, Zenon, SMTT(60), ZenonT(60)

(* Moving blocks through the cache leaves untouched cells untouched. *)
LEMMA SameUntouched ==
  ASSUME NEW d, NEW e, DeviceOK(d), DeviceOK(e), SameContents(d, e), NEW S, Untouched(d, S)
  PROVE  Untouched(e, S)
<1> SUFFICES ASSUME NEW c \in Cells \ S
             PROVE  e.disk[c] = orig[c] /\ (c \in DOMAIN e.cache => e.cache[c] = orig[c])
  BY DEF Untouched
<1>1. /\ d.disk[c] = orig[c] /\ (c \in DOMAIN d.cache => d.cache[c] = orig[c])
      /\ Logical(e, c) = Logical(d, c)
      /\ e.disk[c] = d.disk[c] \/ (c \in DOMAIN d.cache /\ e.disk[c] = d.cache[c])
  BY DEF Untouched, SameContents
<1>2. Logical(d, c) = orig[c]
  BY <1>1 DEF Logical
<1> QED
  BY <1>1, <1>2 DEF Logical

(* So does writing a chunk of cells that are not among them. *)
LEMMA PutUntouched ==
  ASSUME NEW d, DeviceOK(d), NEW chunk \in SUBSET BlockCells(d.block), chunk # {},
         NEW data, IsBuffer(data), chunk \subseteq DOMAIN data,
         NEW S, chunk \subseteq S, Untouched(d, S)
  PROVE  Untouched(PutChunk(d, data, chunk), S)
<1> DEFINE e == PutChunk(d, data, chunk)
<1>1. /\ e.disk = d.disk /\ DOMAIN e.cache = DOMAIN d.cache
      /\ \A c \in Cells : Logical(e, c) = IF c \in chunk THEN data[c] ELSE Logical(d, c)
  BY PutChunkLemma
<1> HIDE DEF e
<1> SUFFICES ASSUME NEW c \in Cells \ S
             PROVE  e.disk[c] = orig[c] /\ (c \in DOMAIN e.cache => e.cache[c] = orig[c])
  BY DEF Untouched, e
<1>2. /\ d.disk[c] = orig[c] /\ (c \in DOMAIN d.cache => d.cache[c] = orig[c])
      /\ Logical(e, c) = Logical(d, c)
  BY <1>1 DEF Untouched
<1> QED
  BY <1>1, <1>2 DEF Logical

(* Untouched cells read as they did at first. *)
LEMMA UntouchedLogical ==
  ASSUME NEW d, NEW S, Untouched(d, S), NEW c \in Cells \ S
  PROVE  Logical(d, c) = orig[c]
BY DEF Untouched, Logical

(* Another entry covers its cells too. *)
LEMMA CoveredAppend ==
  ASSUME NEW j, IsJournal(j), NEW e, IsBuffer(e)
  PROVE  Covered(Append(j, e)) = Covered(j) \cup DOMAIN e
<1> DEFINE j2 == Append(j, e)
<1>1. /\ Len(j2) = Len(j) + 1 /\ Len(j) \in Nat /\ j2[Len(j) + 1] = e
      /\ \A k \in 1..Len(j) : j2[k] = j[k]
  BY JournalAppend
<1> HIDE DEF j2
<1>2. ASSUME NEW c \in Covered(j2) PROVE c \in Covered(j) \cup DOMAIN e
  BY <1>1 DEF Covered
<1>3. ASSUME NEW c \in Covered(j) \cup DOMAIN e PROVE c \in Covered(j2)
  <2>1. CASE c \in DOMAIN e
    BY <1>1, <2>1 DEF Covered
  <2>2. CASE c \in Covered(j)
    BY <1>1, <2>2 DEF Covered
  <2> QED
    BY <2>1, <2>2
<1> QED
  BY <1>2, <1>3 DEF j2

(* reverse_uninstall_data() covers the same cells. *)
LEMMA CoveredReverse ==
  ASSUME NEW j, IsJournal(j)
  PROVE  Covered(reverse_uninstall_data(j)) = Covered(j)
<1> DEFINE j2 == reverse_uninstall_data(j)
<1>1. /\ Len(j2) = Len(j) /\ Len(j) \in Nat
      /\ \A k \in 1..Len(j) : j2[k] = j[Len(j) - k + 1]
  BY JournalReverse
<1> HIDE DEF j2
<1>2. \A k \in 1..Len(j) : Len(j) - k + 1 \in 1..Len(j) /\ Len(j) - (Len(j) - k + 1) + 1 = k
  BY <1>1
<1>3. \A k \in 1..Len(j) : j[k] = j2[Len(j) - k + 1]
  BY <1>1, <1>2
<1>4. ASSUME NEW c \in Covered(j2) PROVE c \in Covered(j)
  BY <1>1, <1>2, ZenonT(60) DEF Covered
<1>5. ASSUME NEW c \in Covered(j) PROVE c \in Covered(j2)
  BY <1>1, <1>2, <1>3, ZenonT(60) DEF Covered
<1> QED
  BY <1>4, <1>5 DEF j2

(* The first entry of a cell becomes the last. *)
LEMMA ReverseLast ==
  ASSUME NEW j, IsJournal(j), FirstIsOrig(j)
  PROVE  LastIsOrig(reverse_uninstall_data(j))
<1> DEFINE j2 == reverse_uninstall_data(j)
<1>1. /\ Len(j2) = Len(j) /\ Len(j) \in Nat
      /\ \A k \in 1..Len(j) : j2[k] = j[Len(j) - k + 1]
  BY JournalReverse
<1> HIDE DEF j2
<1> SUFFICES ASSUME NEW k \in 1..Len(j2), NEW c \in DOMAIN j2[k],
                    \A m \in (k + 1)..Len(j2) : c \notin DOMAIN j2[m]
             PROVE  j2[k][c] = orig[c]
  BY DEF LastIsOrig, j2
<1>2. Len(j) - k + 1 \in 1..Len(j) /\ j2[k] = j[Len(j) - k + 1]
  BY <1>1
<1>3. ASSUME NEW m \in 1..((Len(j) - k + 1) - 1) PROVE c \notin DOMAIN j[m]
  <2>1. Len(j) - m + 1 \in (k + 1)..Len(j2) /\ j2[Len(j) - m + 1] = j[m]
    BY <1>1
  <2> QED
    BY <2>1
<1> QED
  BY <1>2, <1>3, ZenonT(60) DEF FirstIsOrig

(* An entry that has the original of every cell no earlier entry has. *)
LEMMA AppendFirst ==
  ASSUME NEW j, IsJournal(j), FirstIsOrig(j), NEW e, IsBuffer(e),
         \A c \in DOMAIN e \ Covered(j) : e[c] = orig[c]
  PROVE  FirstIsOrig(Append(j, e))
<1> DEFINE j2 == Append(j, e)
<1>1. /\ Len(j2) = Len(j) + 1 /\ Len(j) \in Nat /\ j2[Len(j) + 1] = e
      /\ \A k \in 1..Len(j) : j2[k] = j[k]
  BY JournalAppend
<1> HIDE DEF j2
<1> SUFFICES ASSUME NEW k \in 1..Len(j2), NEW c \in DOMAIN j2[k],
                    \A m \in 1..(k - 1) : c \notin DOMAIN j2[m]
             PROVE  j2[k][c] = orig[c]
  BY DEF FirstIsOrig, j2
<1>2. CASE k \in 1..Len(j)
  <2>1. j2[k] = j[k] /\ \A m \in 1..(k - 1) : c \notin DOMAIN j[m]
    BY <1>1, <1>2
  <2> QED
    BY <1>2, <2>1 DEF FirstIsOrig
<1>3. CASE k = Len(j) + 1
  <2>1. \A m \in 1..Len(j) : c \notin DOMAIN j[m]
    BY <1>1, <1>3
  <2>2. c \in DOMAIN e \ Covered(j)
    BY <1>1, <1>3, <2>1 DEF Covered
  <2> QED
    BY <1>1, <1>3, <2>2
<1> QED
  BY <1>1, <1>2, <1>3
-----------------------------------------------------------------------------
(* Before an install starts there is nothing to undo. *)
LEMMA UndoInit == Init => UndoInv
<1> SUFFICES ASSUME Init PROVE UndoInv
  OBVIOUS
<1>1. TransferInv
  BY TypeInit
<1>2. ~dev.dirty /\ pc = "start" /\ undo.i = 0
  BY DEF Init, Device, NoUndo, UndoState
<1>3. StartInv
  BY <1>2, ZenonT(60) DEF Init, StartInv
<1>4. InstallInv /\ UndoPhaseInv /\ FileInv
  BY DEF Init, InstallInv, InstallPhase, UndoPhaseInv, FileInv
<1>5. UndoRestores
  BY <1>2 DEF UndoRestores, UndoReturnedTrue
<1> QED
  BY <1>1, <1>3, <1>4, <1>5 DEF UndoInv

(* When a run closes the device, or exits, without having undone anything, *)
(* only the uninstall data file is left to account for.                    *)
LEMMA QuietStep ==
  ASSUME FileInv', undo'.i = 0, pc' \in {"close", "exit"}
  PROVE  StartInv' /\ InstallInv' /\ UndoPhaseInv' /\ FileInv' /\ UndoRestores'
BY DEF StartInv, InstallInv, InstallPhase, UndoPhaseInv, UndoRestores, UndoReturnedTrue

(* The phases before cleanup and the undo phase of an install. *)
LEMMA InstallStep ==
  ASSUME InstallInv', udfile' = << >>, pc' \in {"run", "read", "save", "write", "cleanup"}
  PROVE  StartInv' /\ InstallInv' /\ UndoPhaseInv' /\ FileInv' /\ UndoRestores'
BY DEF StartInv, UndoPhaseInv, FileInv, UndoRestores, UndoReturnedTrue

(* A step from one install phase to another that writes to no cell. *)
LEMMA ReadOnlyStep ==
  ASSUME TypeOK, UndoInv, TypeOK', InstallPhase,
         pc # "write", DeviceOK(dev'), SameContents(dev, dev'),
         pc' \in {"run", "read", "save", "cleanup"},
         UNCHANGED <<journal, undo, udfile, mode, orig, torn>>,
         torn # {} => pc' = "cleanup" /\ ~ok',
         pc' = "save" => \A c \in DOMAIN cur'.old \ Covered(journal) : cur'.old[c] = orig[c]
  PROVE  InstallInv' /\ udfile' = << >>
<1>1. /\ mode = "install" /\ udfile = << >> /\ undo = NoUndo /\ FirstIsOrig(journal)
      /\ Untouched(dev, Covered(journal) \cup torn \cup InProgress)
  BY DEF UndoInv, InstallInv
<1>2. InProgress = {} /\ InProgress' = {}
  BY DEF InProgress
<1>3. Untouched(dev, Covered(journal) \cup torn)
  BY <1>1, <1>2
<1>4. DeviceOK(dev)
  BY DEF TypeOK
<1>5. Untouched(dev', Covered(journal) \cup torn)
  BY <1>3, <1>4, SameUntouched
<1>6. Untouched(dev, Covered(journal) \cup torn \cup InProgress)'
  BY <1>2, <1>5 DEF Untouched, Covered
<1>7. FirstIsOrig(journal)'
  BY <1>1 DEF FirstIsOrig
<1>8. pc' \in {"save", "write"} =>
        \A c \in DOMAIN cur'.old \ Covered(journal') : cur'.old[c] = orig'[c]
  OBVIOUS
<1> QED
  BY <1>1, <1>6, <1>7, <1>8 DEF InstallInv

(* SaveChunk: what is read of a cell without an entry is its original. *)
LEMMA SaveStep ==
  ASSUME TypeOK, UndoInv, TypeOK', SaveChunk
  PROVE  InstallInv' /\ udfile' = << >>
<1>0. DeviceOK(dev) /\ IsBuffer(cur.old) /\ cur.left \subseteq Cells /\ DeviceOK(dev')
  BY DEF TypeOK, IsTransfer
<1>1. /\ InstallPhase /\ pc = "save" /\ torn = {} /\ InProgress = {}
      /\ UNCHANGED <<journal, saved, undo, udfile, mode, orig, torn>>
  BY DEF SaveChunk, InstallPhase, InProgress, UndoInv, InstallInv
<1>2. /\ mode = "install" /\ udfile = << >> /\ undo = NoUndo /\ FirstIsOrig(journal)
      /\ Untouched(dev, Covered(journal))
      /\ \A c \in DOMAIN cur.old \ Covered(journal) : cur.old[c] = orig[c]
  <2>1. Covered(journal) \cup torn \cup InProgress = Covered(journal)
    BY <1>1
  <2> QED
    BY <1>1, <2>1 DEF UndoInv, InstallInv
<1>3. PICK low \in Lowest(cur.left) : \E r \in device_cache_block(dev, BlockOf(low)) :
        dev' = r.dev /\ (SaveMore(Chunk(cur.left, low), r) \/ (~r.ok /\ Abort))
  BY DEF SaveChunk
<1> DEFINE chunk == Chunk(cur.left, low)
<1>4. PICK r \in device_cache_block(dev, BlockOf(low)) :
        dev' = r.dev /\ (SaveMore(chunk, r) \/ Abort)
  BY <1>3
<1>5. /\ DeviceOK(r.dev) /\ SameContents(dev, r.dev) /\ (r.ok => r.dev.block = BlockOf(low))
      /\ chunk \subseteq cur.left /\ chunk \subseteq BlockCells(BlockOf(low))
  BY <1>0, CacheBlockLemma, ChunkLemma
<1> HIDE DEF chunk
<1>6. Untouched(dev', Covered(journal))
  BY <1>0, <1>2, <1>4, <1>5, SameUntouched
<1>7. FirstIsOrig(journal)'
  BY <1>1, <1>2 DEF FirstIsOrig
<1>8. CASE Abort
  <2>1. pc' = "cleanup" /\ ok' = FALSE
    BY <1>8 DEF Abort
  <2>2. Untouched(dev, Covered(journal) \cup torn \cup InProgress)'
    BY <1>1, <1>6, <2>1 DEF Untouched, Covered, InProgress
  <2> QED
    BY <1>1, <1>2, <1>7, <2>1, <2>2 DEF InstallInv
<1>9. CASE SaveMore(chunk, r)
  <2> DEFINE new == Join(cur.old, Restrict(r.dev.cache, chunk))
  <2>1. /\ pc' \in {"save", "write"} /\ r.ok /\ cur'.old = new
    BY <1>9 DEF SaveMore, Transfer
  <2>2. chunk \in SUBSET BlockCells(r.dev.block)
    BY <1>5, <2>1
  <2>a. DeviceOK(r.dev) /\ IsBuffer(cur.old)
    BY <1>0, <1>5
  <2>b. DOMAIN new = DOMAIN cur.old \cup chunk
    BY DEF Join, Restrict
  <2>c. \A c \in DOMAIN new : new[c] = IF c \in DOMAIN cur.old THEN cur.old[c] ELSE r.dev.cache[c]
    BY DEF Join, Restrict
  <2>d. \A c \in chunk : Logical(r.dev, c) = r.dev.cache[c]
    BY <2>a, <2>2 DEF Logical, DeviceOK
  <2>3. /\ DOMAIN new = DOMAIN cur.old \cup chunk
        /\ \A c \in DOMAIN new : new[c] = IF c \in DOMAIN cur.old THEN cur.old[c] ELSE Logical(r.dev, c)
    BY <2>b, <2>c, <2>d
  <2> HIDE DEF new
  <2>4. ASSUME NEW c \in DOMAIN new \ Covered(journal) PROVE new[c] = orig[c]
    <3>1. CASE c \in DOMAIN cur.old
      BY <1>2, <2>3, <3>1
    <3>2. CASE c \notin DOMAIN cur.old
      <4>1. c \in Cells \ Covered(journal)
        BY <1>0, <1>5, <2>3, <2>4, <3>2
      <4>2. Logical(r.dev, c) = orig[c]
        BY <1>4, <1>6, <4>1, UntouchedLogical
      <4> QED
        BY <2>3, <3>2, <4>2
    <3> QED
      BY <3>1, <3>2
  <2>5. Untouched(dev, Covered(journal) \cup torn \cup InProgress)'
    BY <1>1, <1>6 DEF Untouched, Covered
  <2>6. \A c \in DOMAIN cur'.old \ Covered(journal') : cur'.old[c] = orig'[c]
    BY <1>1, <2>1, <2>4
  <2> QED
    BY <1>1, <1>2, <1>7, <2>1, <2>5, <2>6 DEF InstallInv
<1> QED
  BY <1>4, <1>8, <1>9

(* WriteChunk: only cells whose old contents are saved change, and the    *)
(* entry is complete before it counts.                                    *)
LEMMA WriteStep ==
  ASSUME TypeOK, UndoInv, TypeOK', WriteChunk
  PROVE  InstallInv' /\ udfile' = << >>
<1>0. /\ DeviceOK(dev) /\ IsBuffer(cur.old) /\ cur.left \subseteq Cells
      /\ DOMAIN cur.old \subseteq Cells /\ IsJournal(journal) /\ TransferInv
  BY DEF TypeOK, IsTransfer, IsBuffer, UndoInv
<1>1. /\ InstallPhase /\ pc = "write" /\ torn = {} /\ InProgress = DOMAIN cur.old
      /\ UNCHANGED <<saved, undo, udfile, mode, orig>>
      /\ cur.left \subseteq DOMAIN cur.old /\ DOMAIN cur.old = Head(todo).cells
  BY DEF WriteChunk, InstallPhase, InProgress, UndoInv, InstallInv, TransferInv
<1> DEFINE S == Covered(journal) \cup DOMAIN cur.old
<1>2. /\ mode = "install" /\ udfile = << >> /\ undo = NoUndo /\ FirstIsOrig(journal)
      /\ Untouched(dev, S)
      /\ \A c \in DOMAIN cur.old \ Covered(journal) : cur.old[c] = orig[c]
  <2>1. Covered(journal) \cup torn \cup InProgress = S
    BY <1>1
  <2> QED
    BY <1>1, <2>1 DEF UndoInv, InstallInv
<1>3. PICK low \in Lowest(cur.left) : \E r \in device_cache_block(dev, BlockOf(low)) :
        \/ WriteMore(Chunk(cur.left, low), r) \/ WriteDone(Chunk(cur.left, low), r)
        \/ WriteFails(r)
  BY DEF WriteChunk
<1> DEFINE chunk == Chunk(cur.left, low)
<1>4. PICK r \in device_cache_block(dev, BlockOf(low)) :
        WriteMore(chunk, r) \/ WriteDone(chunk, r) \/ WriteFails(r)
  BY <1>3
<1>5. /\ DeviceOK(r.dev) /\ SameContents(dev, r.dev) /\ (r.ok => r.dev.block = BlockOf(low))
      /\ chunk \subseteq cur.left /\ chunk \subseteq BlockCells(BlockOf(low)) /\ chunk # {}
  BY <1>0, CacheBlockLemma, ChunkLemma
<1> HIDE DEF chunk, S
<1>6. Untouched(r.dev, S)
  BY <1>0, <1>2, <1>5, SameUntouched
<1>7. r.ok => Untouched(PutChunk(r.dev, NewData, chunk), S)
  <2>1. IsBuffer(NewData) /\ chunk \subseteq DOMAIN NewData
    BY <1>0, <1>1, <1>5, NewDataLemma
  <2>2. r.ok => chunk \in SUBSET BlockCells(r.dev.block)
    BY <1>5
  <2>3. chunk \subseteq S
    BY <1>1, <1>5 DEF S
  <2> QED
    BY <1>5, <1>6, <2>1, <2>2, <2>3, PutUntouched
<1>8. CASE WriteMore(chunk, r)
  <2>1. /\ pc' = "write" /\ UNCHANGED <<ok, journal, torn>> /\ cur'.old = cur.old
        /\ dev' = PutChunk(r.dev, NewData, chunk) /\ r.ok
    BY <1>1, <1>8 DEF WriteMore, Transfer
  <2>2. Untouched(dev, Covered(journal) \cup torn \cup InProgress)'
    <3>1. Untouched(dev', S)
      BY <1>7, <2>1
    <3>2. Covered(journal') \cup torn' \cup InProgress' = S
      BY <1>1, <2>1 DEF S, InProgress
    <3> QED
      BY <1>1, <3>1, <3>2 DEF Untouched
  <2>3. FirstIsOrig(journal)'
    BY <1>1, <1>2, <2>1 DEF FirstIsOrig
  <2>4. \A c \in DOMAIN cur'.old \ Covered(journal') : cur'.old[c] = orig'[c]
    BY <1>1, <1>2, <2>1
  <2> QED
    BY <1>1, <1>2, <2>1, <2>2, <2>3, <2>4 DEF InstallInv
<1>9. CASE WriteDone(chunk, r)
  <2>1. /\ pc' = "run" /\ UNCHANGED <<ok, torn>> /\ journal' = Append(journal, cur.old)
        /\ dev' = PutChunk(r.dev, NewData, chunk) /\ r.ok
    BY <1>9 DEF WriteDone, StepDone
  <2>2. Covered(journal') = S /\ FirstIsOrig(Append(journal, cur.old))
    BY <1>0, <1>2, <2>1, CoveredAppend, AppendFirst DEF S
  <2>3. Untouched(dev, Covered(journal) \cup torn \cup InProgress)'
    <3>1. Untouched(dev', S)
      BY <1>7, <2>1
    <3>2. Covered(journal') \cup torn' \cup InProgress' = S
      BY <1>1, <2>1, <2>2 DEF InProgress
    <3> QED
      BY <1>1, <3>1, <3>2 DEF Untouched
  <2>4. FirstIsOrig(journal)'
    BY <1>1, <2>1, <2>2 DEF FirstIsOrig
  <2> QED
    BY <1>1, <1>2, <2>1, <2>3, <2>4 DEF InstallInv
<1>10. CASE WriteFails(r)
  <2>1. /\ pc' = "cleanup" /\ ok' = FALSE /\ journal' = journal /\ dev' = r.dev
        /\ torn' = DOMAIN cur.old
    BY <1>1, <1>10 DEF WriteFails, Abort
  <2>2. Untouched(dev, Covered(journal) \cup torn \cup InProgress)'
    <3>1. Covered(journal') \cup torn' \cup InProgress' = S
      BY <2>1 DEF S, InProgress
    <3> QED
      BY <1>1, <1>6, <2>1, <3>1 DEF Untouched
  <2>3. FirstIsOrig(journal)'
    BY <1>1, <1>2, <2>1 DEF FirstIsOrig
  <2> QED
    BY <1>1, <1>2, <2>1, <2>2, <2>3 DEF InstallInv
<1> QED
  BY <1>4, <1>8, <1>9, <1>10

(* Starting to undo: nothing is undone yet, and the dropped cache held    *)
(* nothing but what the journal covers.                                   *)
LEMMA UndoBegins ==
  ASSUME IsJournal(journal'), LastIsOrig(journal)', orig' = orig, torn' = torn,
         DeviceOK(dev'), dev'.cache = EmptyBuffer,
         \A c \in Cells \ (Covered(journal') \cup torn) : dev'.disk[c] = orig[c],
         pc' = "undo", undo'.i = 1,
         1 <= Len(journal') => cur'.left = DOMAIN journal'[1]
  PROVE  UndoPhaseInv' /\ StartInv' /\ InstallInv' /\ UndoRestores'
<1>1. DOMAIN dev'.cache = {}
  BY EmptyLemma
<1>2. Untouched(dev, Covered(journal) \cup torn)'
  BY <1>1 DEF Untouched
<1>3. UndoneSoFar'
  <2>1. ASSUME NEW c \in Cells \ torn,
               \A k \in 1..Len(journal') : c \notin DOMAIN journal'[k]
        PROVE  Logical(dev', c) = orig[c]
    <3>1. c \in Cells \ (Covered(journal') \cup torn)
      BY <2>1 DEF Covered
    <3> QED
      BY <1>1, <3>1 DEF Logical
  <2> QED
    BY <2>1 DEF UndoneSoFar
<1> QED
  BY <1>2, <1>3 DEF UndoPhaseInv, StartInv, InstallInv, InstallPhase, UndoRestores, UndoReturnedTrue

(* Cleanup: the journal, reversed, is what uninstall() or the file gets. *)
LEMMA CleanupStep ==
  ASSUME TypeOK, UndoInv, TypeOK', TransferInv', Cleanup
  PROVE  StartInv' /\ InstallInv' /\ UndoPhaseInv' /\ FileInv' /\ UndoRestores'
<1>1. /\ InstallPhase /\ pc = "cleanup" /\ InProgress = {} /\ IsJournal(journal) /\ DeviceOK(dev)
      /\ journal' = reverse_uninstall_data(journal) /\ UNCHANGED <<mode, orig, torn>>
      /\ ok \in BOOLEAN
  BY DEF Cleanup, InstallPhase, InProgress, TypeOK
<1>2. /\ udfile = << >> /\ undo = NoUndo /\ FirstIsOrig(journal) /\ (ok => torn = {})
      /\ Untouched(dev, Covered(journal) \cup torn)
  <2>1. Covered(journal) \cup torn \cup InProgress = Covered(journal) \cup torn
    BY <1>1
  <2> QED
    BY <1>1, <2>1 DEF UndoInv, InstallInv
<1>3. Covered(journal') = Covered(journal) /\ LastIsOrig(journal') /\ IsJournal(journal')
  BY <1>1, <1>2, CoveredReverse, ReverseLast, JournalReverse
<1>4. LastIsOrig(journal)'
  BY <1>1, <1>3 DEF LastIsOrig
<1>5. \A c \in Cells \ (Covered(journal') \cup torn) : dev.disk[c] = orig[c]
  BY <1>2, <1>3 DEF Untouched
<1>6. ASSUME dev'.disk = dev.disk,
             udfile' = << >> \/ (ok /\ udfile' = <<journal'>>)
      PROVE  FileInv'
  <2>1. CASE udfile' = << >>
    BY <2>1 DEF FileInv
  <2>2. CASE ok /\ udfile' = <<journal'>>
    <3>1. udfile'[1] = journal' /\ torn' = {}
      BY <1>1, <1>2, <2>2
    <3>2. LastIsOrig(udfile[1])'
      BY <1>4, <3>1 DEF LastIsOrig
    <3>3. \A c \in Cells \ Covered(udfile'[1]) : dev'.disk[c] = orig'[c]
      BY <1>1, <1>5, <1>6, <3>1
    <3> QED
      BY <3>1, <3>2, <3>3 DEF FileInv
  <2> QED
    BY <1>6, <2>1, <2>2
<1>7. CASE pc' = "close" /\ UNCHANGED <<dev, undo>> /\ ok /\ udfile' \in {udfile, <<journal'>>}
  <2>1. FileInv'
    BY <1>2, <1>6, <1>7
  <2>2. undo'.i = 0
    BY <1>2, <1>7 DEF NoUndo, UndoState
  <2> QED
    BY <1>7, <2>1, <2>2, QuietStep
<1>8. CASE BeginUndo /\ (udfile' \in {udfile, << >>} \/ (ok /\ udfile' = <<journal'>>))
  <2>1. /\ dev' = DropCache(dev) /\ pc' = "undo" /\ undo'.i = 1
        /\ cur' = IF journal' = << >> THEN Idle ELSE Transfer(DOMAIN journal'[1], EmptyBuffer)
    BY <1>8 DEF BeginUndo, StartUndo, UndoState
  <2>2. DeviceOK(dev') /\ dev'.disk = dev.disk
    BY <1>1, <2>1, FreshCacheLemma, ZenonT(60)
  <2>3. dev'.cache = EmptyBuffer
    BY <2>1 DEF DropCache, Device
  <2>4. 1 <= Len(journal') => cur'.left = DOMAIN journal'[1]
    BY <2>1 DEF Transfer
  <2>5. FileInv'
    BY <1>2, <1>6, <1>8, <2>2
  <2>6. \A c \in Cells \ (Covered(journal') \cup torn) : dev'.disk[c] = orig[c]
    BY <1>5, <2>2
  <2> QED
    BY <1>1, <1>3, <1>4, <2>1, <2>2, <2>3, <2>4, <2>5, <2>6, UndoBegins
<1> QED
  BY <1>7, <1>8 DEF Cleanup

(* Moving blocks through the cache undoes and redoes nothing. *)
LEMMA UndoneKept ==
  ASSUME NEW d, SameContents(dev, d), IsJournal(journal), undo.i \in Nat \ {0}, UndoneSoFar
  PROVE  /\ \A c \in Cells \ torn :
              (\A k \in undo.i..Len(journal) : c \notin DOMAIN journal[k]) => Logical(d, c) = orig[c]
         /\ undo.i <= Len(journal) =>
              \A c \in DOMAIN journal[undo.i] \ cur.left : Logical(d, c) = journal[undo.i][c]
<1>1. \A c \in Cells : Logical(d, c) = Logical(dev, c)
  BY DEF SameContents
<1>2. undo.i <= Len(journal) => DOMAIN journal[undo.i] \subseteq Cells
  BY SMTT(180) DEF IsJournal, IsBuffer
<1> QED
  BY <1>1, <1>2 DEF UndoneSoFar

(* The cells of an entry written back are the originals of those that no  *)
(* later entry has: when it is through, one more entry is undone.         *)
LEMMA EntryUndone ==
  ASSUME IsJournal(journal), LastIsOrig(journal), undo.i \in 1..Len(journal), NEW d,
         \A c \in Cells \ torn :
           (\A k \in undo.i..Len(journal) : c \notin DOMAIN journal[k]) => Logical(d, c) = orig[c],
         \A c \in DOMAIN journal[undo.i] : Logical(d, c) = journal[undo.i][c]
  PROVE  \A c \in Cells \ torn :
           (\A k \in (undo.i + 1)..Len(journal) : c \notin DOMAIN journal[k]) =>
             Logical(d, c) = orig[c]
<1> SUFFICES ASSUME NEW c \in Cells \ torn,
                    \A k \in (undo.i + 1)..Len(journal) : c \notin DOMAIN journal[k]
             PROVE  Logical(d, c) = orig[c]
  OBVIOUS
<1>1. Len(journal) \in Nat
  BY DEF IsJournal
<1>2. CASE c \in DOMAIN journal[undo.i]
  <2>1. journal[undo.i][c] = orig[c]
    BY <1>2 DEF LastIsOrig
  <2> QED
    BY <1>2, <2>1
<1>3. CASE c \notin DOMAIN journal[undo.i]
  <2>1. \A k \in undo.i..Len(journal) : c \notin DOMAIN journal[k]
    BY <1>1, <1>3
  <2> QED
    BY <2>1
<1> QED
  BY <1>2, <1>3

(* UndoChunk: an entry is written back, retried or given up. *)
LEMMA UndoChunkStep ==
  ASSUME TypeOK, UndoInv, TypeOK', UndoChunk
  PROVE  /\ Untouched(dev', Covered(journal) \cup torn)
         /\ ~undo'.writeFail /\ ~undo'.flushFail => UndoneSoFar'
<1> DEFINE S == Covered(journal) \cup torn
           entry == journal[undo.i]
<1>1. /\ DeviceOK(dev) /\ IsJournal(journal) /\ TransferInv /\ cur.left \subseteq Cells
      /\ pc = "undo" /\ undo.i \in 1..Len(journal) /\ Len(journal) \in Nat
      /\ UNCHANGED <<journal, orig, torn>>
  <2>1. /\ DeviceOK(dev) /\ IsJournal(journal) /\ cur.left \subseteq Cells /\ undo.i \in Nat
    BY DEF TypeOK, IsTransfer
  <2>2. TransferInv
    BY DEF UndoInv
  <2>3. pc = "undo" /\ undo.i <= Len(journal) /\ UNCHANGED <<journal, orig, torn>>
    BY DEF UndoChunk
  <2>4. Len(journal) \in Nat
    BY <2>1 DEF IsJournal
  <2>5. undo.i > 0
    BY <2>2, <2>3 DEF TransferInv
  <2> QED
    BY <2>1, <2>2, <2>3, <2>4, <2>5
<1>2. /\ LastIsOrig(journal) /\ Untouched(dev, S)
      /\ ~undo.writeFail /\ ~undo.flushFail => UndoneSoFar
  BY <1>1 DEF UndoInv, UndoPhaseInv
<1>3. IsBuffer(entry) /\ cur.left \subseteq DOMAIN entry /\ DOMAIN entry \subseteq S
  BY <1>1 DEF IsJournal, TransferInv, Covered
<1>4. PICK low \in Lowest(cur.left) : \E r \in device_cache_block(dev, BlockOf(low)) :
        \/ UndoMore(Chunk(cur.left, low), r) \/ UndoEntryDone(Chunk(cur.left, low), r)
        \/ UndoRetry(r) \/ UndoGiveUp(r)
  BY DEF UndoChunk
<1> DEFINE chunk == Chunk(cur.left, low)
<1>5. PICK r \in device_cache_block(dev, BlockOf(low)) :
        UndoMore(chunk, r) \/ UndoEntryDone(chunk, r) \/ UndoRetry(r) \/ UndoGiveUp(r)
  BY <1>4
<1>6. /\ DeviceOK(r.dev) /\ SameContents(dev, r.dev) /\ (r.ok => r.dev.block = BlockOf(low))
      /\ chunk \subseteq cur.left /\ chunk \subseteq BlockCells(BlockOf(low)) /\ chunk # {}
  BY <1>1, CacheBlockLemma, ChunkLemma
<1> HIDE DEF chunk, S, entry
<1>7. Untouched(r.dev, S)
  BY <1>1, <1>2, <1>6, SameUntouched
<1> DEFINE put == PutChunk(r.dev, entry, chunk)
<1>8. r.ok => /\ Untouched(put, S)
              /\ \A c \in Cells : Logical(put, c) = IF c \in chunk THEN entry[c] ELSE Logical(r.dev, c)
  <2> SUFFICES ASSUME r.ok
               PROVE  /\ Untouched(put, S)
                      /\ \A c \in Cells : Logical(put, c) = IF c \in chunk THEN entry[c]
                                                           ELSE Logical(r.dev, c)
    OBVIOUS
  <2>1. chunk \in SUBSET BlockCells(r.dev.block) /\ chunk \subseteq DOMAIN entry /\ chunk \subseteq S
    BY <1>3, <1>6
  <2>2. DeviceOK(r.dev) /\ chunk # {} /\ IsBuffer(entry)
    BY <1>3, <1>6
  <2>3. Untouched(put, S)
    BY <1>7, <2>1, <2>2, PutUntouched, ZenonT(60)
  <2>4. \A c \in Cells : Logical(put, c) = IF c \in chunk THEN entry[c] ELSE Logical(r.dev, c)
    BY <2>1, <2>2, PutChunkLemma, SMTT(180)
  <2> QED
    BY <2>3, <2>4
<1> HIDE DEF put
<1>9. ASSUME ~undo.writeFail, ~undo.flushFail
      PROVE  /\ \A c \in Cells \ torn :
                  (\A k \in undo.i..Len(journal) : c \notin DOMAIN journal[k]) => Logical(r.dev, c) = orig[c]
             /\ \A c \in DOMAIN entry \ cur.left : Logical(r.dev, c) = entry[c]
  <2>1. UndoneSoFar
    BY <1>2, <1>9
  <2>3. undo.i \in Nat \ {0} /\ undo.i <= Len(journal)
    BY <1>1, SMTT(180)
  <2>2. SameContents(dev, r.dev) /\ IsJournal(journal)
    BY <1>1, <1>6
  <2> QED
    BY <2>1, <2>2, <2>3, UndoneKept, ZenonT(60) DEF entry
<1>10. ASSUME ~undo.writeFail, ~undo.flushFail, r.ok
       PROVE  /\ \A c \in Cells \ torn :
                   (\A k \in undo.i..Len(journal) : c \notin DOMAIN journal[k]) => Logical(put, c) = orig[c]
              /\ \A c \in DOMAIN entry \ (cur.left \ chunk) : Logical(put, c) = entry[c]
  <2>1. ASSUME NEW c \in Cells \ torn, \A k \in undo.i..Len(journal) : c \notin DOMAIN journal[k]
        PROVE  Logical(put, c) = orig[c]
    <3>1. undo.i \in undo.i..Len(journal)
      BY <1>1
    <3>2. c \notin DOMAIN entry
      BY <2>1, <3>1 DEF entry
    <3>3. c \notin chunk
      BY <1>3, <1>6, <3>2
    <3> QED
      BY <1>8, <1>9, <1>10, <2>1, <3>3
  <2>2. ASSUME NEW c \in DOMAIN entry \ (cur.left \ chunk)
        PROVE  Logical(put, c) = entry[c]
    <3>1. c \in Cells
      BY <1>3 DEF IsBuffer
    <3> QED
      BY <1>8, <1>9, <1>10, <3>1
  <2> QED
    BY <2>1, <2>2
<1>11. CASE UndoMore(chunk, r)
  <2>1. r.ok /\ dev' = put /\ cur'.left = cur.left \ chunk /\ undo' = undo
    BY <1>11 DEF UndoMore, Transfer, put, entry
  <2>2. ~undo'.writeFail /\ ~undo'.flushFail => UndoneSoFar'
    BY <1>1, <1>10, <2>1 DEF UndoneSoFar, entry
  <2> QED
    BY <1>8, <2>1, <2>2 DEF S
<1>12. CASE UndoEntryDone(chunk, r)
  <2>1. /\ r.ok /\ dev' = put /\ cur.left = chunk /\ NextEntry
        /\ undo'.i = undo.i + 1 /\ undo'.writeFail = undo.writeFail /\ undo'.flushFail = undo.flushFail
    BY <1>12 DEF UndoEntryDone, UndoState, put, entry
  <2>2. undo'.i <= Len(journal) => cur'.left = DOMAIN journal[undo'.i]
    <3>1. undo.i < Len(journal) => cur' = Transfer(DOMAIN journal[undo.i + 1], EmptyBuffer)
      BY <2>1 DEF NextEntry
    <3>2. undo'.i <= Len(journal) => undo.i < Len(journal)
      BY <1>1, <2>1
    <3>3. Transfer(DOMAIN journal[undo.i + 1], EmptyBuffer).left = DOMAIN journal[undo.i + 1]
      BY DEF Transfer
    <3> QED
      BY <2>1, <3>1, <3>2, <3>3
  <2>3. ASSUME ~undo'.writeFail, ~undo'.flushFail
        PROVE  \A c \in Cells \ torn :
                 (\A k \in (undo.i + 1)..Len(journal) : c \notin DOMAIN journal[k]) =>
                   Logical(put, c) = orig[c]
    <3>1. \A c \in DOMAIN entry : Logical(put, c) = entry[c]
      BY <1>10, <2>1, <2>3
    <3>2. \A c \in Cells \ torn :
            (\A k \in undo.i..Len(journal) : c \notin DOMAIN journal[k]) => Logical(put, c) = orig[c]
      BY <1>10, <2>1, <2>3
    <3> QED
      BY <1>1, <1>2, <3>1, <3>2, EntryUndone DEF entry
  <2>4. ~undo'.writeFail /\ ~undo'.flushFail => UndoneSoFar'
    BY <1>1, <2>1, <2>2, <2>3 DEF UndoneSoFar
  <2> QED
    BY <1>8, <2>1, <2>4 DEF S
<1>13. CASE UndoRetry(r)
  <2>1. PICK f \in device_flush_cache(r.dev) :
          /\ dev' = DropCache(f.dev)
          /\ undo' = UndoState(undo.i, TRUE, undo.writeFail, undo.flushFail \/ ~f.ok)
    BY <1>13 DEF UndoRetry
  <2>2. /\ DeviceOK(f.dev) /\ SameContents(r.dev, f.dev) /\ (f.ok => ~f.dev.dirty)
    BY <1>6, FlushLemma
  <2>3. /\ dev'.disk = f.dev.disk /\ DOMAIN dev'.cache = {}
        /\ \A c \in Cells : Logical(dev', c) = f.dev.disk[c]
    BY <2>1, <2>2, FreshCacheLemma, EmptyLemma, ZenonT(60) DEF DropCache, Device
  <2>4. Untouched(f.dev, S)
    BY <1>6, <1>7, <2>2, SameUntouched
  <2>5. Untouched(dev', S)
    BY <2>3, <2>4 DEF Untouched
  <2>6. /\ undo'.i = undo.i /\ undo'.writeFail = undo.writeFail
        /\ undo'.flushFail = (undo.flushFail \/ ~f.ok)
    BY <2>1 DEF UndoState
  <2>7. f.ok => \A c \in Cells : Logical(dev', c) = Logical(r.dev, c)
    <3>1. f.ok => \A c \in Cells : f.dev.disk[c] = Logical(f.dev, c)
      BY <2>2 DEF DeviceOK, Logical
    <3> QED
      BY <2>2, <2>3, <3>1 DEF SameContents
  <2>8. cur'.left = DOMAIN journal[undo.i]
    BY <1>13 DEF UndoRetry, Transfer
  <2>9. ~undo'.writeFail /\ ~undo'.flushFail => UndoneSoFar'
    BY <1>1, <1>9, <2>6, <2>7, <2>8, ZenonT(60) DEF UndoneSoFar
  <2> QED
    BY <2>5, <2>9 DEF S
<1>14. CASE UndoGiveUp(r)
  <2>1. dev' = r.dev /\ undo'.writeFail
    BY <1>14 DEF UndoGiveUp, UndoState
  <2> QED
    BY <1>7, <2>1 DEF S
<1> QED
  BY <1>5, <1>11, <1>12, <1>13, <1>14

(* FinishUndo: flushed, with no failure on the way, everything is back. *)
LEMMA FinishUndoStep ==
  ASSUME TypeOK, UndoInv, FinishUndo
  PROVE  /\ UndoRestores'
         /\ \A c \in Cells \ (Covered(journal) \cup torn) : dev'.disk[c] = orig[c]
<1>1. /\ pc = "undo" /\ pc' = "close" /\ undo.i > Len(journal) /\ UNCHANGED <<journal, orig, torn>>
      /\ DeviceOK(dev) /\ undo.i \in Nat /\ Len(journal) \in Nat
      /\ Untouched(dev, Covered(journal) \cup torn)
      /\ ~undo.writeFail /\ ~undo.flushFail => UndoneSoFar
  BY DEF FinishUndo, TypeOK, UndoInv, UndoPhaseInv, IsJournal
<1>2. PICK r \in device_flush_cache(dev) :
        /\ dev' = r.dev
        /\ undo' = UndoState(undo.i, undo.retry, undo.writeFail, undo.flushFail \/ ~r.ok)
  BY DEF FinishUndo
<1>3. DeviceOK(dev') /\ SameContents(dev, dev') /\ (r.ok => ~dev'.dirty)
  BY <1>1, <1>2, FlushLemma
<1>4. Untouched(dev', Covered(journal) \cup torn)
  BY <1>1, <1>3, SameUntouched
<1>5. ASSUME ~undo'.writeFail, ~undo'.flushFail, NEW c \in Cells \ torn
      PROVE  dev'.disk[c] = orig[c]
  <2>1. ~undo.writeFail /\ ~undo.flushFail /\ r.ok
    BY <1>2, <1>5, ZenonT(60) DEF UndoState
  <2>2. Logical(dev, c) = orig[c]
    <3>1. undo.i..Len(journal) = {}
      BY <1>1
    <3> QED
      BY <1>1, <2>1, <3>1 DEF UndoneSoFar
  <2>3. dev'.disk[c] = Logical(dev', c)
    BY <1>3, <2>1 DEF DeviceOK, Logical
  <2> QED
    BY <1>3, <2>2, <2>3 DEF SameContents
<1>6. UndoRestores'
  BY <1>1, <1>5 DEF UndoRestores, UndoReturnedTrue
<1> QED
  BY <1>4, <1>6 DEF Untouched

(* The device is one before and after a step. *)
LEMMA DevicesOK ==
  ASSUME TypeOK, TypeOK'
  PROVE  DeviceOK(dev) /\ DeviceOK(dev')
BY DEF TypeOK

(* device_init() caches the first block. *)
LEMMA FreshContents ==
  ASSUME TypeOK, NEW fresh, fresh = Device(dev.disk, Restrict(dev.disk, BlockCells(0)), 0, FALSE)
  PROVE  /\ DeviceOK(fresh) /\ fresh.disk = dev.disk
         /\ \A c \in DOMAIN fresh.cache : fresh.cache[c] = dev.disk[c]
<1>1. DeviceOK(dev)
  BY DEF TypeOK
<1> QED
  BY <1>1, FreshCacheLemma, ZenonT(60)

(* A device has its own contents. *)
LEMMA SameAsItself == SameContents(dev, dev)
BY DEF SameContents

(* An install that goes on. *)
LEMMA InstallGoesOn ==
  ASSUME TransferInv', InstallInv', udfile' = << >>,
         pc' \in {"run", "read", "save", "write", "cleanup"}
  PROVE  UndoInv'
BY InstallStep DEF UndoInv

(* A step that changes neither the uninstall data file nor a cell it does  *)
(* not cover keeps what the file promises.                                 *)
LEMMA FileKept ==
  ASSUME FileInv, udfile' = udfile, orig' = orig, torn' = torn,
         udfile # << >> => \A c \in Cells \ Covered(udfile[1]) : dev'.disk[c] = orig[c],
         udfile # << >> /\ pc' = "undo" => journal' = udfile[1]
  PROVE  FileInv'
<1> SUFFICES ASSUME udfile # << >>
             PROVE  FileInv'
  BY DEF FileInv
<1> DEFINE j == udfile[1]
<1>1. torn = {} /\ LastIsOrig(j)
  BY DEF FileInv
<1>2. udfile[1]' = j
  OBVIOUS
<1> HIDE DEF j
<1>3. LastIsOrig(j)'
  BY <1>1, <1>2 DEF LastIsOrig, j
<1>4. \A c \in Cells \ Covered(j)' : dev'.disk[c] = orig'[c]
  BY <1>2 DEF Covered, j
<1> QED
  BY <1>1, <1>2, <1>3, <1>4 DEF FileInv, j

(* DeviceInitFails keeps the invariant. *)
LEMMA UndoDeviceInitFailsKept ==
  ASSUME TypeOK, UndoInv, TransferInv, TypeOK', TransferInv', DeviceInitFails
  PROVE  UndoInv'
<1>1. pc = "start" /\ pc' = "close" /\ UNCHANGED <<dev, journal, undo, udfile, orig, torn>>
  BY DEF DeviceInitFails
<1>2. undo'.i = 0
  BY <1>1 DEF UndoInv, StartInv, NoUndo, UndoState
<1>3. udfile # << >> => \A c \in Cells \ Covered(udfile[1]) : dev'.disk[c] = orig[c]
  BY <1>1 DEF UndoInv, FileInv
<1>4. FileInv'
  BY <1>1, <1>3, FileKept DEF UndoInv
<1> QED
  BY <1>1, <1>2, <1>4, QuietStep DEF UndoInv

(* StartInstall keeps the invariant. *)
LEMMA UndoStartInstallKept ==
  ASSUME TypeOK, UndoInv, TransferInv, TypeOK', TransferInv', StartInstall
  PROVE  UndoInv'
<1>1. /\ dev' = Device(dev.disk, Restrict(dev.disk, BlockCells(0)), 0, FALSE)
      /\ dev.disk = orig /\ journal = << >> /\ undo = NoUndo /\ torn = {}
      /\ mode = "install" /\ udfile = << >> /\ pc' = "run"
      /\ UNCHANGED <<journal, undo, udfile, mode, orig, torn>>
  BY DEF StartInstall, DeviceInit, UndoInv, StartInv
<1>2. Untouched(dev, Covered(journal) \cup torn \cup InProgress)'
  <2>1. dev'.disk = dev.disk /\ \A c \in DOMAIN dev'.cache : dev'.cache[c] = dev.disk[c]
    BY <1>1, FreshContents, ZenonT(60)
  <2> QED
    BY <1>1, <2>1, ZenonT(60) DEF Untouched
<1>3. FirstIsOrig(journal)'
  BY <1>1 DEF FirstIsOrig
<1>4. InstallInv'
  BY <1>1, <1>2, <1>3, ZenonT(60) DEF InstallInv
<1> QED
  BY <1>1, <1>4, InstallStep DEF UndoInv

(* LoadFails keeps the invariant. *)
LEMMA UndoLoadFailsKept ==
  ASSUME TypeOK, UndoInv, TransferInv, TypeOK', TransferInv', LoadFails
  PROVE  UndoInv'
<1>1. dev' = Device(dev.disk, Restrict(dev.disk, BlockCells(0)), 0, FALSE)
  BY DEF LoadFails, DeviceInit
<1>2. dev'.disk = dev.disk
  BY <1>1, FreshContents, ZenonT(60)
<1>3. undo'.i = 0 /\ pc' = "close"
  BY DEF LoadFails, UndoInv, StartInv, NoUndo, UndoState
<1>4. FileInv'
  BY <1>2 DEF LoadFails, UndoInv, FileInv, LastIsOrig
<1> QED
  BY <1>3, <1>4, QuietStep DEF UndoInv

(* StartUninstall keeps the invariant. *)
LEMMA UndoStartUninstallKept ==
  ASSUME TypeOK, UndoInv, TransferInv, TypeOK', TransferInv', StartUninstall
  PROVE  UndoInv'
<1>1. /\ dev' = DropCache(Device(dev.disk, Restrict(dev.disk, BlockCells(0)), 0, FALSE))
      /\ journal' = udfile[1] /\ pc' = "undo" /\ undo'.i = 1
      /\ UNCHANGED <<udfile, orig, torn>> /\ udfile # << >>
      /\ cur' = IF journal' = << >> THEN Idle ELSE Transfer(DOMAIN journal'[1], EmptyBuffer)
  BY DEF StartUninstall, DeviceInit, StartUndo, UndoState
<1>2. dev'.disk = dev.disk /\ dev'.cache = EmptyBuffer
  BY <1>1 DEF DropCache, Device
<1>3. /\ torn = {} /\ LastIsOrig(udfile[1])
      /\ \A c \in Cells \ Covered(udfile[1]) : dev.disk[c] = orig[c]
  BY <1>1 DEF UndoInv, FileInv
<1>4. FileInv'
  BY <1>1, <1>2, <1>3, ZenonT(60) DEF FileInv, LastIsOrig
<1>5. LastIsOrig(journal)'
  BY <1>1, <1>3 DEF LastIsOrig
<1>6. 1 <= Len(journal') => cur'.left = DOMAIN journal'[1]
  BY <1>1 DEF Transfer
<1>7. IsJournal(journal') /\ torn' = torn
  BY <1>1 DEF TypeOK
<1>8. \A c \in Cells \ (Covered(journal') \cup torn) : dev'.disk[c] = orig[c]
  BY <1>1, <1>2, <1>3, ZenonT(60)
<1> QED
  BY DevicesOK, <1>1, <1>2, <1>4, <1>5, <1>6, <1>7, <1>8, UndoBegins, ZenonT(60) DEF UndoInv

(* BeginRead keeps the invariant. *)
LEMMA UndoBeginReadKept ==
  ASSUME TypeOK, UndoInv, TransferInv, TypeOK', TransferInv', BeginRead
  PROVE  UndoInv'
<1>1. InstallInv' /\ udfile' = << >>
  BY DevicesOK, SameAsItself, ReadOnlyStep DEF BeginRead, InstallPhase, UndoInv,
     InstallInv
<1> QED
  BY InstallGoesOn, <1>1 DEF BeginRead

(* ReadChunk keeps the invariant. *)
LEMMA UndoReadChunkKept ==
  ASSUME TypeOK, UndoInv, TransferInv, TypeOK', TransferInv', ReadChunk
  PROVE  UndoInv'
<1>1. PICK low \in Lowest(cur.left) : \E r \in device_cache_block(dev, BlockOf(low)) :
        /\ dev' = r.dev
        /\ \/ ReadMore(Chunk(cur.left, low), r) \/ ReadDone(Chunk(cur.left, low), r)
           \/ CheckPasses(Chunk(cur.left, low), r) \/ ReadFails(Chunk(cur.left, low), r)
  BY DEF ReadChunk
<1>2. BlockOf(low) \in Nat
  <2>1. cur.left \in SUBSET Cells
    BY DEF TypeOK, IsTransfer
  <2> QED
    BY <2>1, ChunkLemma
<1>3. SameContents(dev, dev')
  BY DevicesOK, <1>1, <1>2, CacheBlockLemma
<1>4. /\ pc = "read" /\ pc' \in {"run", "read", "cleanup"}
      /\ UNCHANGED <<journal, undo, udfile, mode, orig, torn>>
  BY <1>1 DEF ReadChunk, ReadMore, ReadDone, CheckPasses, ReadFails, StepDone, Abort
<1>5. InstallPhase /\ torn = {}
  BY <1>4 DEF InstallPhase, UndoInv, InstallInv
<1>6. InstallInv' /\ udfile' = << >>
  BY DevicesOK, <1>3, <1>4, <1>5, ReadOnlyStep
<1> QED
  BY InstallGoesOn, <1>4, <1>6

(* WriteRefused keeps the invariant. *)
LEMMA UndoWriteRefusedKept ==
  ASSUME TypeOK, UndoInv, TransferInv, TypeOK', TransferInv', WriteRefused
  PROVE  UndoInv'
<1>1. InstallInv' /\ udfile' = << >> /\ pc' = "cleanup"
  BY DevicesOK, SameAsItself, ReadOnlyStep DEF WriteRefused, Abort, InstallPhase,
     UndoInv, InstallInv
<1> QED
  BY InstallGoesOn, <1>1

(* BeginWrite keeps the invariant. *)
LEMMA UndoBeginWriteKept ==
  ASSUME TypeOK, UndoInv, TransferInv, TypeOK', TransferInv', BeginWrite
  PROVE  UndoInv'
<1>1. DOMAIN cur'.old = {} /\ pc' = "save" /\ pc = "run" /\ torn = {} /\ InstallPhase
  BY EmptyLemma DEF BeginWrite, Transfer, InstallPhase, UndoInv, InstallInv
<1>2. InstallInv' /\ udfile' = << >>
  BY DevicesOK, SameAsItself, <1>1, ReadOnlyStep DEF BeginWrite
<1> QED
  BY InstallGoesOn, <1>1, <1>2

(* SaveChunk keeps the invariant. *)
LEMMA UndoSaveChunkKept ==
  ASSUME TypeOK, UndoInv, TransferInv, TypeOK', TransferInv', SaveChunk
  PROVE  UndoInv'
<1>1. pc' \in {"save", "write", "cleanup"}
  BY DEF SaveChunk, SaveMore, Abort
<1> QED
  BY InstallGoesOn, <1>1, SaveStep

(* WriteChunk keeps the invariant. *)
LEMMA UndoWriteChunkKept ==
  ASSUME TypeOK, UndoInv, TransferInv, TypeOK', TransferInv', WriteChunk
  PROVE  UndoInv'
<1>1. pc' \in {"run", "write", "cleanup"}
  BY DEF WriteChunk, WriteMore, WriteDone, WriteFails, StepDone, Abort
<1> QED
  BY InstallGoesOn, <1>1, WriteStep

(* FinishInstall keeps the invariant. *)
LEMMA UndoFinishInstallKept ==
  ASSUME TypeOK, UndoInv, TransferInv, TypeOK', TransferInv', FinishInstall
  PROVE  UndoInv'
<1>1. SameContents(dev, dev')
  BY DevicesOK, FlushLemma DEF FinishInstall
<1>2. pc = "run" /\ pc' = "cleanup" /\ InstallPhase /\ torn = {}
  BY DEF FinishInstall, InstallPhase, UndoInv, InstallInv
<1>3. InstallInv' /\ udfile' = << >>
  BY DevicesOK, <1>1, <1>2, ReadOnlyStep DEF FinishInstall
<1> QED
  BY InstallGoesOn, <1>2, <1>3

(* Cleanup keeps the invariant. *)
LEMMA UndoCleanupKept ==
  ASSUME TypeOK, UndoInv, TransferInv, TypeOK', TransferInv', Cleanup
  PROVE  UndoInv'
BY CleanupStep DEF UndoInv

(* UndoChunk keeps the invariant. *)
LEMMA UndoUndoChunkKept ==
  ASSUME TypeOK, UndoInv, TransferInv, TypeOK', TransferInv', UndoChunk
  PROVE  UndoInv'
<1>1. /\ pc = "undo" /\ pc' = "undo" /\ UNCHANGED <<journal, udfile, orig, torn>>
  BY DEF UndoChunk
<1>2. /\ Untouched(dev', Covered(journal) \cup torn)
      /\ ~undo'.writeFail /\ ~undo'.flushFail => UndoneSoFar'
  BY UndoChunkStep
<1>3. UndoPhaseInv'
  <2>1. LastIsOrig(journal)
    BY <1>1 DEF UndoInv, UndoPhaseInv
  <2>2. LastIsOrig(journal)'
    <3>1. journal' = journal /\ orig' = orig
      BY <1>1
    <3> QED
      BY <2>1, <3>1 DEF LastIsOrig
  <2>3. Covered(journal)' = Covered(journal)
    BY <1>1 DEF Covered
  <2>4. Untouched(dev, Covered(journal) \cup torn)'
    BY <1>1, <1>2, <2>3 DEF Untouched
  <2> QED
    BY <1>2, <2>2, <2>4 DEF UndoPhaseInv
<1>4. udfile # << >> => journal = udfile[1] /\ torn = {}
  BY <1>1 DEF UndoInv, FileInv
<1>5. udfile # << >> => \A c \in Cells \ Covered(udfile[1]) : dev'.disk[c] = orig[c]
  BY <1>1, <1>2, <1>4 DEF Untouched
<1>6. FileInv'
  BY <1>1, <1>4, <1>5, FileKept DEF UndoInv
<1> QED
  BY <1>1, <1>3, <1>6 DEF UndoInv, StartInv, InstallInv, InstallPhase, UndoRestores,
     UndoReturnedTrue

(* FinishUndo keeps the invariant. *)
LEMMA UndoFinishUndoKept ==
  ASSUME TypeOK, UndoInv, TransferInv, TypeOK', TransferInv', FinishUndo
  PROVE  UndoInv'
<1>1. pc = "undo" /\ pc' = "close" /\ UNCHANGED <<journal, udfile, orig, torn>>
  BY DEF FinishUndo
<1>2. /\ UndoRestores'
      /\ \A c \in Cells \ (Covered(journal) \cup torn) : dev'.disk[c] = orig[c]
  BY FinishUndoStep
<1>3. udfile # << >> => journal = udfile[1] /\ torn = {}
  BY <1>1 DEF UndoInv, FileInv
<1>4. udfile # << >> => \A c \in Cells \ Covered(udfile[1]) : dev'.disk[c] = orig[c]
  BY <1>1, <1>2, <1>3
<1>5. FileInv'
  BY <1>1, <1>4, FileKept DEF UndoInv
<1> QED
  BY <1>1, <1>2, <1>5 DEF UndoInv, StartInv, InstallInv, InstallPhase, UndoPhaseInv

(* Close keeps the invariant. *)
LEMMA UndoCloseKept ==
  ASSUME TypeOK, UndoInv, TransferInv, TypeOK', TransferInv', Close
  PROVE  UndoInv'
<1>1. /\ pc = "close" /\ pc' = "exit"
      /\ UNCHANGED <<dev, undo, udfile, mode, orig, torn>>
  BY DEF Close
<1>2. FileInv'
  <2>1. udfile # << >> => \A c \in Cells \ Covered(udfile[1]) : dev'.disk[c] = orig[c]
    BY <1>1 DEF UndoInv, FileInv
  <2> QED
    BY <1>1, <2>1, FileKept DEF UndoInv
<1>3. UndoRestores'
  BY <1>1 DEF UndoInv, UndoRestores, UndoReturnedTrue
<1>4. StartInv' /\ InstallInv' /\ UndoPhaseInv'
  BY <1>1 DEF StartInv, InstallInv, InstallPhase, UndoPhaseInv
<1> QED
  BY <1>2, <1>3, <1>4 DEF UndoInv

(* Rerun keeps the invariant. *)
LEMMA UndoRerunKept ==
  ASSUME TypeOK, UndoInv, TransferInv, TypeOK', TransferInv', Rerun
  PROVE  UndoInv'
<1>1. /\ dev' = DropCache(dev) /\ pc' = "start" /\ undo' = NoUndo /\ journal' = << >>
      /\ mode' = "uninstall" /\ udfile # << >> /\ UNCHANGED <<udfile, orig, torn>>
  BY DEF Rerun
<1>2. dev'.disk = dev.disk /\ ~dev'.dirty
  BY <1>1 DEF DropCache, Device
<1>3. FileInv'
  <2>1. udfile # << >> => \A c \in Cells \ Covered(udfile[1]) : dev'.disk[c] = orig[c]
    BY <1>1, <1>2 DEF UndoInv, FileInv
  <2> QED
    BY <1>1, <2>1, FileKept DEF UndoInv
<1> QED
  BY <1>1, <1>2, <1>3 DEF UndoInv, StartInv, InstallInv, InstallPhase, UndoPhaseInv,
     UndoRestores, UndoReturnedTrue

(* UNCHANGED vars keeps the invariant. *)
LEMMA UndoStutterKept ==
  ASSUME TypeOK, UndoInv, TransferInv, TypeOK', TransferInv', UNCHANGED vars
  PROVE  UndoInv'
<1>1. /\ dev' = dev /\ journal' = journal /\ pc' = pc /\ cur' = cur /\ undo' = undo
      /\ udfile' = udfile /\ mode' = mode /\ orig' = orig /\ torn' = torn
  BY DEF vars
<1>2. StartInv'
  BY <1>1 DEF UndoInv, StartInv
<1>3. /\ FirstIsOrig(journal) => FirstIsOrig(journal)'
      /\ LastIsOrig(journal) => LastIsOrig(journal)'
  <2>1. FirstIsOrig(journal) => FirstIsOrig(journal)'
    BY <1>1 DEF FirstIsOrig
  <2>2. LastIsOrig(journal) => LastIsOrig(journal)'
    BY <1>1 DEF LastIsOrig
  <2> QED
    BY <2>1, <2>2
<1>4. Covered(journal)' = Covered(journal) /\ InProgress' = InProgress
  BY <1>1 DEF Covered, InProgress
<1>5. /\ Untouched(dev, Covered(journal) \cup torn \cup InProgress) =>
            Untouched(dev, Covered(journal) \cup torn \cup InProgress)'
      /\ Untouched(dev, Covered(journal) \cup torn) => Untouched(dev, Covered(journal) \cup torn)'
  BY <1>1, <1>4 DEF Untouched
<1>6. InstallInv'
  <2> SUFFICES ASSUME InstallPhase'
               PROVE  InstallInv'
    BY DEF InstallInv
  <2>1. InstallPhase
    BY <1>1 DEF InstallPhase
  <2>2. /\ mode = "install" /\ udfile = << >> /\ (torn # {} => pc = "cleanup" /\ ~ok) /\ undo = NoUndo
        /\ FirstIsOrig(journal) /\ Untouched(dev, Covered(journal) \cup torn \cup InProgress)
        /\ pc \in {"save", "write"} =>
             \A c \in DOMAIN cur.old \ Covered(journal) : cur.old[c] = orig[c]
    BY <2>1 DEF UndoInv, InstallInv
  <2>3. ok' = ok
    BY DEF vars
  <2> QED
    BY <1>1, <1>3, <1>4, <1>5, <2>2, <2>3 DEF InstallInv
<1>7. UndoneSoFar => UndoneSoFar'
  BY <1>1 DEF UndoneSoFar, Logical
<1>8. UndoPhaseInv'
  BY <1>1, <1>3, <1>5, <1>7 DEF UndoInv, UndoPhaseInv
<1>9. FileInv'
  <2>1. FileInv
    BY DEF UndoInv
  <2>2. udfile # << >> => \A c \in Cells \ Covered(udfile[1]) : dev'.disk[c] = orig[c]
    BY <1>1, <2>1 DEF FileInv
  <2>3. udfile # << >> /\ pc' = "undo" => journal' = udfile[1]
    BY <1>1, <2>1 DEF FileInv
  <2> QED
    BY <1>1, <2>1, <2>2, <2>3, FileKept
<1>10. UndoRestores'
  BY <1>1 DEF UndoInv, UndoRestores, UndoReturnedTrue
<1> QED
  BY <1>2, <1>6, <1>8, <1>9, <1>10 DEF UndoInv

(* Every step keeps the invariant. *)
LEMMA UndoStep == TypeOK /\ UndoInv /\ [Next]_vars => UndoInv'
<1> SUFFICES ASSUME TypeOK, UndoInv, [Next]_vars
             PROVE  UndoInv'
  OBVIOUS
<1>1. TransferInv /\ TypeOK' /\ TransferInv'
  BY TypeStep DEF UndoInv
<1> QED
  BY <1>1, UndoDeviceInitFailsKept, UndoStartInstallKept, UndoLoadFailsKept,
     UndoStartUninstallKept, UndoBeginReadKept, UndoReadChunkKept, UndoWriteRefusedKept,
     UndoBeginWriteKept, UndoSaveChunkKept, UndoWriteChunkKept, UndoFinishInstallKept,
     UndoCleanupKept, UndoUndoChunkKept, UndoFinishUndoKept, UndoCloseKept, UndoRerunKept,
     UndoStutterKept DEF Next, Work

(* The inductive invariant holds in every reachable state. *)
THEOREM UndoInvariant == Spec => []UndoInv
<1>1. Init => TypeOK /\ UndoInv
  BY TypeInit, UndoInit
<1>2. (TypeOK /\ UndoInv) /\ [Next]_vars => (TypeOK /\ UndoInv)'
  BY TypeStep, UndoStep DEF UndoInv
<1> QED
  BY <1>1, <1>2, PTL DEF Spec

(* Whenever uninstall() returns true, undoing a failed install or run from *)
(* the uninstall data file, the device is as the install found it, but for *)
(* the cells of a device_write() that failed between two blocks.           *)
THEOREM UndoIsSound == Spec => []UndoRestores
<1>1. UndoInv => UndoRestores
  BY DEF UndoInv
<1> QED
  BY <1>1, UndoInvariant, PTL

(* No cell of the device differs from what the install found there unless  *)
(* its old contents are saved or its device_write() is still in progress   *)
(* or failed.                                                              *)
THEOREM WriteAheadHolds == Spec => []WriteAhead
<1>1. UndoInv => WriteAhead
  BY DEF UndoInv, InstallInv, WriteAhead, Untouched
<1> QED
  BY <1>1, UndoInvariant, PTL
=============================================================================
