--------------------------- MODULE HostInstaller ---------------------------
(***************************************************************************)
(* The BIOS installer of the host tool (host/limine.c).                    *)
(*                                                                         *)
(* bios_install() patches a block device through a write-back cache of one *)
(* block.  Every device_write() first saves the bytes it is about to       *)
(* replace as an entry of uninstall_data; a failed install is undone by    *)
(* writing the entries back, newest first, and a successful one may store  *)
(* them in a file from which a later `--uninstall` run restores the disk.  *)
(*                                                                         *)
(* Bytes are cells, and a buffer at an offset is a function from the cells *)
(* it covers to their values.  Every seek, read, write, flush, close and   *)
(* allocation may fail.  A flush that fails may or may not have reached    *)
(* the device.                                                             *)
(***************************************************************************)
EXTENDS Integers, Sequences, Functions

CONSTANTS
  Cells,       \* the device's bytes, numbered from 0
  BlockSize,   \* cells per device block (block_size)
  Values,      \* what a cell may hold
  Images,      \* what a device may hold at first
  Scripts,     \* the step sequences bios_install() may go through
  MaxEntries   \* UNINSTALL_DATA_MAX

BlockOf(c) == c \div BlockSize

BlockCells(b) == {c \in Cells : BlockOf(c) = b}

(***************************************************************************)
(* A step of an install.  "check": read some cells and decide whether to   *)
(* go on.  "read": device_read() into a buffer kept for later.  "write":   *)
(* device_write() of new data.  "putback": device_write() of the buffer.   *)
(***************************************************************************)
IsBuffer(f) == DOMAIN f \subseteq Cells /\ f \in [DOMAIN f -> Values]

IsStep(s) ==
  /\ s.kind \in {"check", "read", "write", "putback"}
  /\ s.cells \subseteq Cells /\ s.cells # {}
  /\ s.kind = "write" => IsBuffer(s.data) /\ DOMAIN s.data = s.cells

(* Every buffer a step puts back was saved, or is read by an earlier step *)
PutbackRead(script, buffer) ==
  \A i \in 1..Len(script) : script[i].kind = "putback" =>
    \A c \in script[i].cells :
      \/ c \in DOMAIN buffer
      \/ \E j \in 1..(i - 1) : script[j].kind = "read" /\ c \in script[j].cells

IsScript(s) == s \in Seq(Range(s)) /\ \A i \in 1..Len(s) : IsStep(s[i])

NoBlock == -1

EmptyBuffer == [c \in {} |-> 0]

ASSUME InstallerConstants ==
  /\ Cells \subseteq Nat
  /\ BlockSize \in Nat \ {0}
  /\ MaxEntries \in Nat
  /\ Images \subseteq [Cells -> Values]
  /\ \A s \in Scripts : IsScript(s) /\ PutbackRead(s, EmptyBuffer)

VARIABLES
  dev,      \* the device and its cache: [disk, cache, block, dirty]
  journal,  \* uninstall_data[0 .. uninstall_data_i - 1]
  pc,       \* where in bios_install() the process is
  todo,     \* the steps of the script still to perform
  cur,      \* the transfer in progress: [left, old]
  saved,    \* buffer of the last "read" steps (timestamp, orig_mbr)
  undo,     \* uninstall(): [i, retry, writeFail, flushFail]
  ok,       \* the exit status: TRUE is EXIT_SUCCESS
  udfile,   \* the uninstall data file: <<entries>> when complete, else << >>
  mode,     \* "install" or "uninstall" (--uninstall)
  orig,     \* history: the disk when the last install began
  torn      \* history: cells of a write that failed half way

vars == <<dev, journal, pc, todo, cur, saved, undo, ok, udfile, mode, orig, torn>>

Device(disk, cache, block, dirty) ==
  [disk |-> disk, cache |-> cache, block |-> block, dirty |-> dirty]

(* A transfer: the cells left, and the contents read so far *)
Transfer(left, old) == [left |-> left, old |-> old]

Idle == Transfer({}, EmptyBuffer)

(* f with the values of g wherever g is defined *)
Overlay(f, g) == [c \in DOMAIN f |-> IF c \in DOMAIN g THEN g[c] ELSE f[c]]

(* The buffers f and g, on disjoint cells, as one *)
(* reverse_uninstall_data(): undoing starts with the last entry *)
reverse_uninstall_data(s) == [k \in 1..Len(s) |-> s[Len(s) - k + 1]]

Join(f, g) == [c \in DOMAIN f \cup DOMAIN g |-> IF c \in DOMAIN f THEN f[c] ELSE g[c]]

-----------------------------------------------------------------------------
(* The block cache. A call's outcomes: a set of [ok, dev].                 *)

FlushedDisk(d) == Overlay(d.disk, d.cache)

(* Mutant: the block counts as written before the write is known to succeed *)
BugFlushMarksClean(d) ==
  IF ~d.dirty
  THEN {[ok |-> TRUE, dev |-> d]}
  ELSE {[ok |-> TRUE, dev |-> Device(FlushedDisk(d), d.cache, d.block, FALSE)],
        [ok |-> FALSE, dev |-> Device(d.disk, d.cache, d.block, FALSE)]}

device_flush_cache(d) ==
  IF ~d.dirty
  THEN {[ok |-> TRUE, dev |-> d]}
  ELSE {[ok |-> TRUE, dev |-> Device(FlushedDisk(d), d.cache, d.block, FALSE)],
        [ok |-> FALSE, dev |-> d],
        [ok |-> FALSE, dev |-> Device(FlushedDisk(d), d.cache, d.block, TRUE)]}

(* Seek to block b and read it into the cache, nothing being dirty *)
FillCache(d, b) ==
  {[ok |-> FALSE, dev |-> d],
   [ok |-> FALSE, dev |-> Device(d.disk, EmptyBuffer, NoBlock, FALSE)],
   [ok |-> TRUE,
    dev |-> Device(d.disk, Restrict(d.disk, BlockCells(b)), b, FALSE)]}

device_cache_block(d, b) ==
  IF d.block = b
  THEN {[ok |-> TRUE, dev |-> d]}
  ELSE UNION {IF f.ok THEN FillCache(f.dev, b) ELSE {f} : f \in device_flush_cache(d)}

(* uninstall() forgets whatever the cache holds *)
DropCache(d) == Device(d.disk, EmptyBuffer, NoBlock, FALSE)

(* Transfers go upwards: the next chunk of one is what is left of it in   *)
(* the block of its lowest cell.                                          *)
Lowest(left) == {c \in left : \A e \in left : c <= e}

Chunk(left, low) == left \cap BlockCells(BlockOf(low))

-----------------------------------------------------------------------------
(* bios_install(): the process starts, finds the block size and, for       *)
(* --uninstall, loads the uninstall data.                                  *)

UndoState(i, retry, writeFail, flushFail) ==
  [i |-> i, retry |-> retry, writeFail |-> writeFail, flushFail |-> flushFail]

NoUndo == UndoState(0, FALSE, FALSE, FALSE)

StartUndo == UndoState(1, FALSE, FALSE, FALSE)

DeviceInitFails ==
  /\ pc = "start"
  /\ pc' = "close"
  /\ ok' = FALSE
  /\ UNCHANGED <<dev, journal, todo, cur, saved, undo, udfile, mode, orig, torn>>

DeviceInit == Device(dev.disk, Restrict(dev.disk, BlockCells(0)), 0, FALSE)

StartInstall ==
  /\ pc = "start" /\ mode = "install"
  /\ dev' = DeviceInit
  /\ pc' = "run"
  /\ todo' \in Scripts
  /\ UNCHANGED <<journal, cur, saved, undo, ok, udfile, mode, orig, torn>>

LoadFails ==
  /\ pc = "start" /\ mode = "uninstall"
  /\ dev' = DeviceInit
  /\ pc' = "close"
  /\ ok' = FALSE
  /\ UNCHANGED <<journal, todo, cur, saved, undo, udfile, mode, orig, torn>>

(* load_uninstall_data() succeeds, and uninstall(false) begins *)
StartUninstall ==
  /\ pc = "start" /\ mode = "uninstall"
  /\ udfile # << >>
  /\ journal' = udfile[1]
  /\ dev' = DropCache(DeviceInit)
  /\ undo' = StartUndo
  /\ cur' = IF journal' = << >> THEN Idle ELSE Transfer(DOMAIN journal'[1], EmptyBuffer)
  /\ pc' = "undo"
  /\ UNCHANGED <<todo, saved, ok, udfile, mode, orig, torn>>
-----------------------------------------------------------------------------
(* bios_install(): the steps of an install.                                *)

Abort ==
  /\ pc' = "cleanup"
  /\ ok' = FALSE
  /\ todo' = << >>
  /\ cur' = Idle

BeginRead ==
  /\ pc = "run" /\ todo # << >>
  /\ Head(todo).kind \in {"check", "read"}
  /\ pc' = "read"
  /\ cur' = Transfer(Head(todo).cells, EmptyBuffer)
  /\ UNCHANGED <<dev, journal, todo, saved, undo, ok, udfile, mode, orig, torn>>

StepDone ==
  /\ pc' = "run"
  /\ todo' = Tail(todo)
  /\ cur' = Idle
  /\ UNCHANGED ok

(* One turn of the loop of device_read_raw() *)
ReadMore(chunk, r) ==
  /\ r.ok /\ cur.left # chunk
  /\ cur' = Transfer(cur.left \ chunk, Join(cur.old, Restrict(r.dev.cache, chunk)))
  /\ UNCHANGED <<pc, todo, ok, saved>>

ReadDone(chunk, r) ==
  /\ r.ok /\ cur.left = chunk /\ Head(todo).kind = "read"
  /\ saved' = Join(Join(cur.old, Restrict(r.dev.cache, chunk)), saved)
  /\ StepDone

(* The checks that read these cells find nothing wrong. Some of them take *)
(* a failed read for a negative answer and go on.                         *)
CheckPasses(chunk, r) ==
  /\ Head(todo).kind = "check" /\ (r.ok => cur.left = chunk)
  /\ StepDone
  /\ UNCHANGED saved

ReadFails(chunk, r) ==
  /\ ~r.ok \/ (Head(todo).kind = "check" /\ cur.left = chunk)
  /\ Abort
  /\ UNCHANGED saved

ReadChunk ==
  /\ pc = "read"
  /\ \E low \in Lowest(cur.left) : \E r \in device_cache_block(dev, BlockOf(low)) :
       LET chunk == Chunk(cur.left, low)
       IN  /\ dev' = r.dev
           /\ \/ ReadMore(chunk, r) \/ ReadDone(chunk, r)
              \/ CheckPasses(chunk, r) \/ ReadFails(chunk, r)
  /\ UNCHANGED <<journal, undo, udfile, mode, orig, torn>>

(* device_write_raw() gives up before touching the device: no room in     *)
(* uninstall_data, or no memory for the old contents.                     *)
WriteRefused ==
  /\ pc = "run" /\ todo # << >>
  /\ Head(todo).kind \in {"write", "putback"}
  /\ Abort
  /\ UNCHANGED <<dev, journal, saved, undo, udfile, mode, orig, torn>>

BeginWrite ==
  /\ pc = "run" /\ todo # << >>
  /\ Head(todo).kind \in {"write", "putback"}
  /\ Len(journal) < MaxEntries
  /\ pc' = "save"
  /\ cur' = Transfer(Head(todo).cells, EmptyBuffer)
  /\ UNCHANGED <<dev, journal, todo, saved, undo, ok, udfile, mode, orig, torn>>

(* device_write_raw(): one turn of reading the old contents *)
SaveMore(chunk, r) ==
  /\ r.ok
  /\ pc' = IF cur.left = chunk THEN "write" ELSE "save"
  /\ cur' = Transfer(IF cur.left = chunk THEN Head(todo).cells ELSE cur.left \ chunk,
                     Join(cur.old, Restrict(r.dev.cache, chunk)))
  /\ UNCHANGED <<todo, ok>>

SaveChunk ==
  /\ pc = "save"
  /\ \E low \in Lowest(cur.left) : \E r \in device_cache_block(dev, BlockOf(low)) :
       /\ dev' = r.dev
       /\ SaveMore(Chunk(cur.left, low), r) \/ (~r.ok /\ Abort)
  /\ UNCHANGED <<journal, saved, undo, udfile, mode, orig, torn>>

(* What the current device_write() puts into the cells *)
NewData ==
  IF Head(todo).kind = "write" THEN Head(todo).data ELSE Restrict(saved, Head(todo).cells)

PutChunk(d, data, chunk) ==
  Device(d.disk, Overlay(d.cache, Restrict(data, chunk)), d.block, TRUE)

(* device_write_raw(): one turn of the write loop. The entry counts only   *)
(* once the whole write is in; a failure frees it.                         *)
WriteMore(chunk, r) ==
  /\ r.ok /\ cur.left # chunk
  /\ dev' = PutChunk(r.dev, NewData, chunk)
  /\ cur' = Transfer(cur.left \ chunk, cur.old)
  /\ UNCHANGED <<pc, todo, ok, journal, torn>>

(* Mutant: uninstall_data_i is not advanced *)
BugWriteNotRecorded(chunk, r) ==
  /\ r.ok /\ cur.left = chunk
  /\ dev' = PutChunk(r.dev, NewData, chunk)
  /\ StepDone
  /\ UNCHANGED <<journal, torn>>

WriteDone(chunk, r) ==
  /\ r.ok /\ cur.left = chunk
  /\ dev' = PutChunk(r.dev, NewData, chunk)
  /\ journal' = Append(journal, cur.old)
  /\ StepDone
  /\ UNCHANGED torn

WriteFails(r) ==
  /\ ~r.ok
  /\ dev' = r.dev
  /\ torn' = torn \cup DOMAIN cur.old
  /\ Abort
  /\ UNCHANGED journal

WriteChunk ==
  /\ pc = "write"
  /\ \E low \in Lowest(cur.left) : \E r \in device_cache_block(dev, BlockOf(low)) :
       LET chunk == Chunk(cur.left, low)
       IN  WriteMore(chunk, r) \/ WriteDone(chunk, r) \/ WriteFails(r)
  /\ UNCHANGED <<saved, undo, udfile, mode, orig>>

(* Mutant: the result of the last flush is ignored *)
BugFinishIgnoresFlush ==
  /\ pc = "run" /\ todo = << >>
  /\ \E r \in device_flush_cache(dev) : dev' = r.dev
  /\ ok' = TRUE
  /\ pc' = "cleanup"
  /\ UNCHANGED <<journal, todo, cur, saved, undo, udfile, mode, orig, torn>>

(* The script is through: flush, then ok = EXIT_SUCCESS *)
FinishInstall ==
  /\ pc = "run" /\ todo = << >>
  /\ \E r \in device_flush_cache(dev) : dev' = r.dev /\ ok' = r.ok
  /\ pc' = "cleanup"
  /\ UNCHANGED <<journal, todo, cur, saved, undo, udfile, mode, orig, torn>>
-----------------------------------------------------------------------------
(* bios_install(), from the label cleanup.                                 *)

BeginUndo ==
  /\ pc' = "undo"
  /\ dev' = DropCache(dev)
  /\ undo' = StartUndo
  /\ cur' = IF journal' = << >> THEN Idle ELSE Transfer(DOMAIN journal'[1], EmptyBuffer)

(* Mutant: a failed install is undone oldest entry first *)
BugUndoOldestFirst ==
  /\ pc = "cleanup"
  /\ UNCHANGED journal
  /\ \/ ok /\ pc' = "close" /\ UNCHANGED <<dev, cur, undo>>
     \/ ~ok /\ BeginUndo
  /\ UNCHANGED <<ok, udfile, todo, saved, mode, orig, torn>>

(* reverse_uninstall_data(), store_uninstall_data() unless the install    *)
(* failed or no file was asked for, and uninstall(true) on failure.       *)
Cleanup ==
  /\ pc = "cleanup"
  /\ journal' = reverse_uninstall_data(journal)
  /\ \/ /\ ok                                   \* no file asked for
        /\ pc' = "close"
        /\ UNCHANGED <<dev, cur, undo, ok, udfile>>
     \/ /\ ok                                   \* the file is written
        /\ udfile' = <<journal'>>
        /\ pc' = "close"
        /\ UNCHANGED <<dev, cur, undo, ok>>
     \/ /\ ok                                   \* writing or closing the file failed
        /\ udfile' \in {<< >>, <<journal'>>}
        /\ ok' = FALSE
        /\ BeginUndo
     \/ /\ ~ok
        /\ BeginUndo
        /\ UNCHANGED <<ok, udfile>>
  /\ UNCHANGED <<todo, saved, mode, orig, torn>>

(* uninstall(): on to the next entry *)
NextEntry ==
  cur' = IF undo.i < Len(journal) THEN Transfer(DOMAIN journal[undo.i + 1], EmptyBuffer)
         ELSE Idle

(* uninstall(): one turn of device_write_raw()'s loop over entry undo.i.  *)
UndoMore(chunk, r) ==
  /\ r.ok /\ cur.left # chunk
  /\ dev' = PutChunk(r.dev, journal[undo.i], chunk)
  /\ cur' = Transfer(cur.left \ chunk, EmptyBuffer)
  /\ UNCHANGED undo

UndoEntryDone(chunk, r) ==
  /\ r.ok /\ cur.left = chunk
  /\ dev' = PutChunk(r.dev, journal[undo.i], chunk)
  /\ undo' = UndoState(undo.i + 1, FALSE, undo.writeFail, undo.flushFail)
  /\ NextEntry

(* Mutant: the flush before the retry fails unnoticed *)
BugRetryForgetsFlush(r) ==
  /\ ~r.ok /\ ~undo.retry
  /\ \E f \in device_flush_cache(r.dev) : dev' = DropCache(f.dev)
  /\ undo' = UndoState(undo.i, TRUE, undo.writeFail, undo.flushFail)
  /\ cur' = Transfer(DOMAIN journal[undo.i], EmptyBuffer)

(* Mutant: an entry is retried for as long as it fails *)
BugRetryForever(r) ==
  /\ ~r.ok
  /\ \E f \in device_flush_cache(r.dev) :
       /\ dev' = DropCache(f.dev)
       /\ undo' = UndoState(undo.i, TRUE, undo.writeFail, undo.flushFail \/ ~f.ok)
  /\ cur' = Transfer(DOMAIN journal[undo.i], EmptyBuffer)

(* The first failure flushes and drops the cache and starts the entry     *)
(* again                                                                   *)
UndoRetry(r) ==
  /\ ~r.ok /\ ~undo.retry
  /\ \E f \in device_flush_cache(r.dev) :
       /\ dev' = DropCache(f.dev)
       /\ undo' = UndoState(undo.i, TRUE, undo.writeFail, undo.flushFail \/ ~f.ok)
  /\ cur' = Transfer(DOMAIN journal[undo.i], EmptyBuffer)

(* the second gives the entry up *)
UndoGiveUp(r) ==
  /\ ~r.ok /\ undo.retry
  /\ dev' = r.dev
  /\ undo' = UndoState(undo.i + 1, FALSE, TRUE, undo.flushFail)
  /\ NextEntry

UndoChunk ==
  /\ pc = "undo" /\ undo.i <= Len(journal)
  /\ \E low \in Lowest(cur.left) : \E r \in device_cache_block(dev, BlockOf(low)) :
       LET chunk == Chunk(cur.left, low)
       IN  UndoMore(chunk, r) \/ UndoEntryDone(chunk, r) \/ UndoRetry(r) \/ UndoGiveUp(r)
  /\ UNCHANGED <<journal, pc, todo, saved, ok, udfile, mode, orig, torn>>

(* uninstall(): the last flush, and what it returns. Only --uninstall      *)
(* makes an exit status of it.                                             *)
FinishUndo ==
  /\ pc = "undo" /\ undo.i > Len(journal)
  /\ \E r \in device_flush_cache(dev) :
       /\ dev' = r.dev
       /\ undo' = UndoState(undo.i, undo.retry, undo.writeFail, undo.flushFail \/ ~r.ok)
       /\ ok' = IF mode = "install" THEN ok
                ELSE r.ok /\ ~undo.flushFail /\ ~undo.writeFail
  /\ pc' = "close"
  /\ UNCHANGED <<journal, todo, cur, saved, udfile, mode, orig, torn>>

(* fclose(device), whose failure fails the run, then exit *)
Close ==
  /\ pc = "close"
  /\ ok' \in {ok, FALSE}
  /\ pc' = "exit"
  /\ UNCHANGED <<dev, journal, todo, cur, saved, undo, udfile, mode, orig, torn>>

(* A later `--uninstall` process, as often as the user likes. (Another    *)
(* install is another behaviour, which starts from the disk it finds.)    *)
Rerun ==
  /\ pc = "exit" /\ udfile # << >>
  /\ mode' = "uninstall"
  /\ dev' = DropCache(dev)
  /\ journal' = << >> /\ todo' = << >> /\ cur' = Idle /\ saved' = EmptyBuffer
  /\ undo' = NoUndo /\ ok' = FALSE /\ pc' = "start"
  /\ UNCHANGED <<udfile, orig, torn>>
-----------------------------------------------------------------------------
Init ==
  /\ \E disk \in Images :
       dev = Device(disk, EmptyBuffer, NoBlock, FALSE)
  /\ orig = dev.disk
  /\ journal = << >> /\ todo = << >> /\ cur = Idle /\ saved = EmptyBuffer
  /\ undo = NoUndo /\ ok = FALSE /\ pc = "start"
  /\ udfile = << >> /\ mode = "install" /\ torn = {}

Work ==
  \/ DeviceInitFails \/ StartInstall \/ LoadFails \/ StartUninstall
  \/ BeginRead \/ ReadChunk \/ WriteRefused \/ BeginWrite \/ SaveChunk \/ WriteChunk
  \/ FinishInstall \/ Cleanup \/ UndoChunk \/ FinishUndo \/ Close

Next == Work \/ Rerun

Spec == Init /\ [][Next]_vars

(* The process runs on: nothing in it waits for anyone. Nobody has to     *)
(* start another.                                                         *)
FairSpec == Spec /\ WF_vars(Work)
-----------------------------------------------------------------------------
IsJournal(j) == j \in Seq(Range(j)) /\ \A k \in 1..Len(j) : IsBuffer(j[k])

(* The cache holds the cells of its block and, unless it is dirty, the    *)
(* device's values of them                                                *)
DeviceOK(d) ==
  /\ d \in [disk : [Cells -> Values], cache : [BlockCells(d.block) -> Values],
            block : Int, dirty : BOOLEAN]
  /\ d.dirty => d.block # NoBlock
  /\ ~d.dirty => \A c \in DOMAIN d.cache : d.cache[c] = d.disk[c]

IsTransfer(t) == t = Transfer(t.left, t.old) /\ t.left \subseteq Cells /\ IsBuffer(t.old)

(* The shape of the state, and the coherence of the one-block cache that   *)
(* device_flush_cache() and device_cache_block() maintain through every    *)
(* failure.                                                                *)
TypeOK ==
  /\ DeviceOK(dev)
  /\ IsJournal(journal)
  /\ pc \in {"start", "run", "read", "save", "write", "cleanup", "undo", "close", "exit"}
  /\ IsScript(todo) /\ PutbackRead(todo, saved)
  /\ IsTransfer(cur)
  /\ IsBuffer(saved)
  /\ undo \in [i : Nat, retry : BOOLEAN, writeFail : BOOLEAN, flushFail : BOOLEAN]
  /\ ok \in BOOLEAN
  /\ udfile = << >> \/ (Len(udfile) = 1 /\ IsJournal(udfile[1]))
  /\ mode \in {"install", "uninstall"}
  /\ orig \in [Cells -> Values]
  /\ torn \subseteq Cells

(* What a read of the cell through the cache would return *)
Logical(d, c) == IF c \in DOMAIN d.cache THEN d.cache[c] ELSE d.disk[c]

Covered(j) == UNION {DOMAIN j[k] : k \in 1..Len(j)}

(* In the order of the writes, the first entry of a cell has its original *)
FirstIsOrig(j) ==
  \A k \in 1..Len(j) : \A c \in DOMAIN j[k] :
    (\A m \in 1..(k - 1) : c \notin DOMAIN j[m]) => j[k][c] = orig[c]

(* Reversed, the last one has *)
LastIsOrig(j) ==
  \A k \in 1..Len(j) : \A c \in DOMAIN j[k] :
    (\A m \in (k + 1)..Len(j) : c \notin DOMAIN j[m]) => j[k][c] = orig[c]

(* Outside the cells S neither the device nor the cache was changed *)
Untouched(d, S) ==
  \A c \in Cells \ S : d.disk[c] = orig[c] /\ (c \in DOMAIN d.cache => d.cache[c] = orig[c])

InstallPhase == pc \in {"run", "read", "save", "write", "cleanup"}

InProgress == IF pc = "write" THEN DOMAIN cur.old ELSE {}

TransferInv ==
  /\ pc \in {"read", "save", "write"} => todo # << >> /\ cur.left # {}
  /\ pc = "read" => Head(todo).kind \in {"check", "read"}
  /\ pc \in {"save", "write"} => Head(todo).kind \in {"write", "putback"}
  /\ pc \in {"read", "save"} => /\ cur.left \cup DOMAIN cur.old = Head(todo).cells
                              /\ cur.left \cap DOMAIN cur.old = {}
  /\ pc = "write" => DOMAIN cur.old = Head(todo).cells /\ cur.left \subseteq Head(todo).cells
  /\ pc = "undo" => undo.i > 0
  /\ pc = "undo" /\ undo.i <= Len(journal) =>
       cur.left \subseteq DOMAIN journal[undo.i] /\ cur.left # {}
  /\ \A k \in 1..Len(journal) : DOMAIN journal[k] # {}
  /\ udfile # << >> => \A k \in 1..Len(udfile[1]) : DOMAIN udfile[1][k] # {}

InstallInv ==
  InstallPhase =>
    /\ mode = "install" /\ udfile = << >>
    /\ torn # {} => pc = "cleanup" /\ ~ok
    /\ undo = NoUndo
    /\ FirstIsOrig(journal)
    /\ Untouched(dev, Covered(journal) \cup torn \cup InProgress)
    /\ pc \in {"save", "write"} =>
         \A c \in DOMAIN cur.old \ Covered(journal) : cur.old[c] = orig[c]

FileInv ==
  udfile # << >> =>
    /\ torn = {}
    /\ LastIsOrig(udfile[1])
    /\ \A c \in Cells \ Covered(udfile[1]) : dev.disk[c] = orig[c]
    /\ pc = "undo" => journal = udfile[1]

(* Entries 1 .. undo.i - 1 are back, and so is the part of entry undo.i    *)
(* that is no longer left                                                  *)
UndoneSoFar ==
  /\ \A c \in Cells \ torn :
       (\A k \in undo.i..Len(journal) : c \notin DOMAIN journal[k]) => Logical(dev, c) = orig[c]
  /\ undo.i <= Len(journal) =>
       \A c \in DOMAIN journal[undo.i] \ cur.left : Logical(dev, c) = journal[undo.i][c]

UndoPhaseInv ==
  pc = "undo" =>
    /\ LastIsOrig(journal)
    /\ Untouched(dev, Covered(journal) \cup torn)
    /\ ~undo.writeFail /\ ~undo.flushFail => UndoneSoFar

StartInv ==
  pc = "start" =>
    /\ undo = NoUndo /\ journal = << >> /\ ~dev.dirty
    /\ mode = "install" => dev.disk = orig /\ torn = {} /\ udfile = << >>
    /\ mode = "uninstall" => udfile # << >>

(* Write-ahead: while an install runs, a cell of the device that differs   *)
(* from what the install found there has its old contents in               *)
(* uninstall_data, or belongs to the write in progress or to the one that  *)
(* failed.  device_write_raw() reads the old contents before it touches    *)
(* the cache, and the cache is flushed at any later transfer.              *)
WriteAhead ==
  InstallPhase =>
    \A c \in Cells : dev.disk[c] # orig[c] =>
      c \in Covered(journal) \cup torn \cup InProgress

UndoReturnedTrue ==
  /\ pc \in {"close", "exit"}
  /\ undo.i > 0 /\ ~undo.writeFail /\ ~undo.flushFail

(* If uninstall() returns true, undoing a failed install or run by a later *)
(* --uninstall (even one that follows uninstalls that failed half way),    *)
(* every cell is on the device as the install found it, except those of    *)
(* a write that failed between two of its blocks, whose entry is freed.    *)
UndoRestores == UndoReturnedTrue => \A c \in Cells \ torn : dev.disk[c] = orig[c]

(* The inductive invariant behind WriteAhead and UndoRestores: whatever    *)
(* is not yet undone can still be undone from uninstall_data, and whatever *)
(* the uninstall data file promises to restore can be restored from it.    *)
UndoInv ==
  /\ TransferInv /\ StartInv /\ InstallInv /\ UndoPhaseInv /\ FileInv
  /\ UndoRestores

(* The same without the exception: "Reverse the entire install procedure". *)
UndoRestoresAll == UndoReturnedTrue => dev.disk = orig

(* The disk and the buffer after a step, had it been atomic *)
ApplyStep(s, step) ==
  CASE step.kind = "check" -> s
    [] step.kind = "read" -> [s EXCEPT !.saved = Join(Restrict(s.disk, step.cells), @)]
    [] step.kind = "write" -> [s EXCEPT !.disk = Overlay(@, step.data)]
    [] step.kind = "putback" -> [s EXCEPT !.disk = Overlay(@, Restrict(s.saved, step.cells))]

Applied(script, disk) ==
  LET after[n \in 0..Len(script)] ==
        IF n = 0 THEN [disk |-> disk, saved |-> EmptyBuffer] ELSE ApplyStep(after[n - 1], script[n])
  IN  after[Len(script)].disk

(* An install that exits with success leaves on the device itself, not in  *)
(* the cache, exactly the effect of its reads and writes performed in      *)
(* order: bootsector, stage 2 and its location are there and the timestamp *)
(* and partition table are back.                                           *)
SuccessMeansInstalled ==
  pc = "exit" /\ ok /\ mode = "install" =>
    dev.disk \in {Applied(s, orig) : s \in Scripts}

(* Every run ends, however many of its transfers fail: uninstall() retries *)
(* an entry only once.                                                     *)
RunsEnd == pc # "exit" ~> pc = "exit"
=============================================================================
