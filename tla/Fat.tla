-------------------------------- MODULE Fat ---------------------------------
(***************************************************************************)
(* Files on FAT12, FAT16 and FAT32 volumes (common/fs/fat32.s2.c) behind   *)
(* fopen() and fread() (common/fs/file.s2.c): the geometry, the FAT and    *)
(* its chains, directories with their long names, and reads.               *)
(*                                                                         *)
(* A sector of the volume, and a directory entry, has EntrySize bytes; the *)
(* FAT is a sequence of hexadecimal digits, here of base Base.  A name is  *)
(* a sequence of pieces of 13 code units; a byte of data is told by its    *)
(* place on the volume.                                                    *)
(***************************************************************************)
EXTENDS Integers, SequencesExt, FiniteSetsExt

CONSTANTS
  Volumes,        \* records, see MCFat
  Requests,       \* paths: sequences of names
  Encodable,      \* pieces that fit a short name
  LowerOf,        \* lowercase of the pieces that have one
  StandsFor,      \* names that begin with 0xE5, of how they are stored
  SumOf,          \* checksums of short names
  Wide,           \* pieces that take more room in UTF-8 than the buffer keeps for one
  MaxLfn,         \* FAT32_LFN_MAX_ENTRIES
  MaxChain,       \* FAT32_MAX_CHAIN_LENGTH
  MaxDir,         \* bytes of the largest directory
  Fat12Clusters, Fat16Clusters,
  Counts          \* how many bytes an fread() asks for

VARIABLES
  vol,
  insensitive,    \* case_insensitive_fopen
  request, pc,    \* "init", "walk", "handle", "opened", "closed", "missing",
                  \* "label", "label given" or "panic"
  dir,            \* current_directory: an entry, or Root
  part,           \* the component that is looked up next; of an open file, where the last read began
  handle,         \* size and cluster_chain
  got             \* what the last call returned

vars == <<vol, insensitive, request, pc, dir, part, handle, got>>

(* Body of a value that is computed once                                   *)
With(value, Body(_)) == CHOOSE r \in {Body(v) : v \in {value}} : TRUE

EntrySize == 4
Base == 4
Root == [kind |-> "root", attr |-> "dir", cluster |-> 0, size |-> 0]
None == [kind |-> "none"]
Label == << <<"label">> >>    \* a request for the label

Init ==
  /\ vol \in Volumes /\ insensitive \in BOOLEAN
  /\ request \in Requests \cup {Label}
  /\ pc = "init" /\ dir = Root /\ part = 1 /\ handle = None /\ got = << >>
-----------------------------------------------------------------------------
(* Geometry                                                                *)
bpb == vol.bpb

RootSects == (bpb.root_entries * EntrySize + bpb.bps - 1) \div bpb.bps
TotalSects == IF bpb.sectors16 # 0 THEN bpb.sectors16 ELSE bpb.sectors32
MetadataSects == bpb.reserved + bpb.fats * (IF bpb.spf16 # 0 THEN bpb.spf16 ELSE bpb.spf32) + RootSects
ClustersCount == (TotalSects - MetadataSects) \div bpb.spc

Type == IF ClustersCount < Fat12Clusters THEN 12 ELSE IF ClustersCount < Fat16Clusters THEN 16 ELSE 32

SectorsPerFat == IF Type = 32 THEN bpb.spf32 ELSE bpb.spf16

Mirrored == Type # 32 \/ bpb.active = -1
FatStart == bpb.reserved + (IF Mirrored THEN 0 ELSE bpb.active * SectorsPerFat)
RootStart == bpb.reserved + bpb.fats * SectorsPerFat
DataStart == RootStart + (IF Type = 32 THEN 0 ELSE RootSects)
BlockSize == bpb.spc * bpb.bps

ContextSound ==
  /\ bpb.signature /\ bpb.spc \in {1, 2, 4, 8} /\ bpb.bps \in {4, 8}
  /\ bpb.fats \in 1 .. 4 /\ bpb.reserved # 0
  /\ MetadataSects < TotalSects
  /\ SectorsPerFat # 0
  /\ Type = 32 \/ bpb.root_entries # 0
  /\ Mirrored \/ bpb.active < bpb.fats

(* volume_read() of count bytes at loc                                     *)
Readable(loc, count) ==
  /\ vol.sectors = -1 \/ loc + count <= vol.sectors * EntrySize
  /\ ~\E b \in vol.bad : b \in loc .. loc + count - 1

fat32_init_context ==
  /\ pc = "init"
  /\ pc' = IF ~Readable(0, EntrySize) \/ ~ContextSound THEN "missing" ELSE IF request = Label THEN "label" ELSE "walk"
  /\ dir' = IF Type = 32 THEN [Root EXCEPT !.kind = "short", !.cluster = bpb.root_cluster] ELSE Root
  /\ UNCHANGED <<vol, insensitive, request, part, handle, got>>
-----------------------------------------------------------------------------
(* The FAT                                                                 *)
Digits(n, d) == FoldLeft(LAMBDA v, i : v * Base + vol.fat[2 * n + d - i + 1], 0, [i \in 1 .. d |-> i])

FatSize == SectorsPerFat * bpb.bps

(* The place of the digits of a cluster's entry: its byte, how many are    *)
(* read, and how many of these are dropped below and above                 *)
FatRead(cluster) ==
  CASE Type = 12 -> [at |-> cluster + cluster \div 2, digits |-> 4, low |-> cluster % 2, high |-> 1 - (cluster % 2)]
    [] Type = 16 -> [at |-> 2 * cluster, digits |-> 4, low |-> 0, high |-> 0]
    [] Type = 32 -> [at |-> 4 * cluster, digits |-> 8, low |-> 0, high |-> 1]

Error == -1

read_cluster_from_map(cluster) ==
  LET r == FatRead(cluster)
      at == FatStart * bpb.bps + r.at
  IN  IF r.at + r.digits \div 2 > FatSize \/ ~Readable(at, r.digits \div 2) THEN Error
      ELSE (Digits(at, r.digits) % Base^(r.digits - r.high)) \div Base^r.low

Places == CASE Type = 12 -> 3 [] Type = 16 -> 4 [] Type = 32 -> 7
ClusterLimit == Base^Places - 1 - Base
FatEntries == CASE Type = 12 -> (FatSize * 2) \div 3 [] Type = 16 -> FatSize \div 2 [] Type = 32 -> FatSize \div 4
MaxClusters == Min({ClusterLimit - 1, MaxChain, FatEntries})

DataClusters == LET s == (vol.sectors * EntrySize) \div bpb.bps
                IN  IF s > DataStart THEN (s - DataStart) \div bpb.spc ELSE 0

ReadableLimit == IF vol.sectors = -1 THEN ClusterLimit ELSE Min({ClusterLimit, DataClusters + 1})

Ends(c) == c < 2 \/ c > ClusterLimit

(* The chain from a cluster, or << >> for none: one walk counts, another   *)
(* reads the entries again, of which those that are worn now fail          *)
Follow(st) ==
  IF st.done THEN st
  ELSE LET Step(next) == IF next = Error THEN [st EXCEPT !.done = TRUE, !.chain = << >>]
                         ELSE [at |-> next, done |-> Ends(next), chain |-> Append(st.chain, st.at)]
       IN  With(IF st.at > ReadableLimit THEN Error ELSE read_cluster_from_map(st.at), Step)

ChainStep(st, i) == With(st, Follow)

Reread(cluster) == FatStart * bpb.bps + FatRead(cluster).at \notin vol.worn

Walked(walk) == IF walk.done /\ \A i \in DOMAIN walk.chain : Reread(walk.chain[i]) THEN walk.chain ELSE << >>

cache_cluster_chain(first) ==
  IF Ends(first) THEN << >>
  ELSE With(FoldLeft(ChainStep, [at |-> first, done |-> FALSE, chain |-> << >>], [i \in 1 .. MaxClusters |-> i]), Walked)

(* Where read_cluster_chain() takes the byte at a location from            *)
ClusterBase(cluster) == (DataStart + (cluster - 2) * bpb.spc) * bpb.bps
ByteAt(chain, loc) == ClusterBase(chain[(loc \div BlockSize) + 1]) + (loc % BlockSize)

ChainReadable(chain, loc, count) ==
  \A l \in loc .. loc + count - 1 :
    l \div BlockSize < Len(chain) /\ chain[(l \div BlockSize) + 1] >= 2 /\ Readable(ByteAt(chain, l), 1)
-----------------------------------------------------------------------------
(* Directories                                                             *)
End == [kind |-> "end"]

RootBytes == ((bpb.root_entries * EntrySize + BlockSize - 1) \div BlockSize) * BlockSize
RootDirectory == [i \in 1 .. RootBytes \div EntrySize |-> IF i <= bpb.root_entries THEN vol.root[i] ELSE End]

(* The entries of the directory, or << >> when it cannot be read           *)
FromChain(chain) ==
  LET n == Len(chain) * BlockSize
  IN  IF n <= MaxDir /\ ChainReadable(chain, 0, n) THEN FlattenSeq([i \in DOMAIN chain |-> vol.dirs[chain[i]]]) ELSE << >>

DirectoryEntries ==
  IF dir.kind # "root" THEN With(cache_cluster_chain(dir.cluster), FromChain)
  ELSE IF RootBytes <= MaxDir /\ Readable(RootStart * bpb.bps, bpb.root_entries * EntrySize) THEN RootDirectory ELSE << >>

Lower(p) == IF p \in DOMAIN LowerOf THEN LowerOf[p] ELSE p
Folded(name) == [i \in DOMAIN name |-> Lower(name[i])]

NoPiece == "zero"
Spelled(lfn) == SelectSeq(lfn, LAMBDA p : p # NoPiece)
Fits(lfn) == \A i \in DOMAIN lfn : lfn[i] \notin Wide
LongMatches(lfn, name) ==
  IF insensitive THEN Folded(Spelled(lfn)) = Folded(name) ELSE Spelled(lfn) = name

(* The name in 11 characters, if it has one                                *)
Short83(name) == Len(name) = 1 /\ name[1] \in Encodable

(* 0x05 stands in for 0xE5 in the first byte of a name                     *)
Stored(p) == IF p \in DOMAIN StandsFor THEN StandsFor[p] ELSE p

fat32_sfn_matches(e, name) == Short83(name) /\ Lower(Stored(e.name)) = Lower(name[1])

fat32_lfn_checksum(e) == SumOf[e.name]

(* The entry after a complete set belongs to it                            *)
Belongs(entries, i, sum) ==
  /\ i + 1 <= Len(entries)
  /\ entries[i + 1].kind \notin {"end", "free", "lfn"}
  /\ fat32_lfn_checksum(entries[i + 1]) = sum

(* A bug: the entry after a set is taken for its own unseen                *)
BugAnyEntry(st, e, i, entries, name) ==
  LET last == e.last
      exp == IF last THEN e.seq ELSE st.exp
      sum == IF last THEN e.sum ELSE st.sum
      lfn == IF last THEN [j \in 1 .. MaxLfn |-> NoPiece] ELSE st.lfn
      kept == [lfn EXCEPT ![e.seq] = e.piece]
  IN  IF e.seq = 0 \/ e.seq # exp \/ e.sum # sum \/ e.seq > MaxLfn THEN [st EXCEPT !.exp = 0, !.sum = sum, !.lfn = lfn]
      ELSE [st EXCEPT !.exp = exp - 1, !.sum = sum, !.lfn = kept,
                      !.hit = IF e.seq = 1 /\ Fits(kept) /\ LongMatches(kept, name) /\ i < Len(entries) /\ entries[i + 1].kind = "short"
                              THEN i + 1 ELSE 0]

LongEntry(st, e, i, entries, name) ==
  LET last == e.last
      exp == IF last THEN e.seq ELSE st.exp
      sum == IF last THEN e.sum ELSE st.sum
      lfn == IF last THEN [j \in 1 .. MaxLfn |-> NoPiece] ELSE st.lfn
      kept == [lfn EXCEPT ![e.seq] = e.piece]
  IN  IF e.seq = 0 \/ e.seq # exp \/ e.sum # sum \/ e.seq > MaxLfn THEN [st EXCEPT !.exp = 0, !.sum = sum, !.lfn = lfn]
      ELSE [st EXCEPT !.exp = exp - 1, !.sum = sum, !.lfn = kept,
                      !.hit = IF e.seq = 1 /\ Fits(kept) /\ LongMatches(kept, name) /\ Belongs(entries, i, sum)
                              THEN i + 1 ELSE 0]

Scan(st, i, entries, name) ==
  LET e == entries[i]
  IN  IF st.hit # 0 \/ st.over THEN st
      ELSE IF name = Label[1] /\ e.kind \notin {"end", "free"}
           THEN IF e.kind = "label" THEN [st EXCEPT !.hit = i] ELSE st
      ELSE CASE e.kind = "end"   -> [st EXCEPT !.over = TRUE]
             [] e.kind = "free"  -> [st EXCEPT !.exp = 0]
             [] e.kind = "lfn"   -> LongEntry(st, e, i, entries, name)
             [] e.kind = "label" -> st
             [] e.kind = "short" -> IF fat32_sfn_matches(e, name) THEN [st EXCEPT !.hit = i] ELSE st

(* The entry of a name in the directory, or None                           *)
fat32_open_in(name) ==
  LET Found(entries) ==
        LET Step(st, i) == With(st, LAMBDA s : Scan(s, i, entries, name))
            Hit(st) == IF st.hit = 0 THEN None ELSE entries[st.hit]
        IN  With(FoldLeft(Step, [hit |-> 0, over |-> FALSE, exp |-> 0, sum |-> 0, lfn |-> [j \in 1 .. MaxLfn |-> NoPiece]],
                          [i \in DOMAIN entries |-> i]), Hit)
  IN  With(DirectoryEntries, Found)
-----------------------------------------------------------------------------
fat32_get_label ==
  /\ pc = "label"
  /\ \E e \in {fat32_open_in(Label[1])} :
       /\ got' = IF e = None THEN << >> ELSE <<e.name>>
       /\ pc' = IF e = None THEN "missing" ELSE "label given"
  /\ UNCHANGED <<vol, insensitive, request, dir, part, handle>>

(* One component of the path; the empty one, between two slashes, or after *)
(* the last, names nothing, and one too long for current_part is refused   *)
fat32_open ==
  /\ pc = "walk"
  /\ \E e \in {IF Len(request[part]) > MaxLfn THEN None ELSE fat32_open_in(request[part])} :
       IF e = None \/ (part < Len(request) /\ e.attr # "dir")
       THEN pc' = "missing" /\ UNCHANGED <<dir, part>>
       ELSE /\ dir' = e
            /\ part' = IF part < Len(request) THEN part + 1 ELSE part
            /\ pc' = IF part < Len(request) THEN "walk" ELSE "handle"
  /\ UNCHANGED <<vol, insensitive, request, handle, got>>

MakeHandle ==
  /\ pc = "handle"
  /\ \E chain \in {cache_cluster_chain(dir.cluster)} :
       IF dir.size > Len(chain) * BlockSize THEN pc' = "missing" /\ UNCHANGED handle
       ELSE pc' = "opened" /\ handle' = [size |-> dir.size, chain |-> chain]
  /\ UNCHANGED <<vol, insensitive, request, dir, part, got>>

fread ==
  /\ pc = "opened"
  /\ \E loc \in 0 .. handle.size, count \in Counts :
       /\ loc + count <= handle.size    \* a caller's duty, a panic otherwise
       /\ IF ChainReadable(handle.chain, loc, count)
          THEN got' = [i \in 1 .. count |-> ByteAt(handle.chain, loc + i - 1)] /\ pc' = "opened" /\ part' = loc
          ELSE pc' = "panic" /\ UNCHANGED <<got, part>>
  /\ UNCHANGED <<vol, insensitive, request, dir, handle>>

fclose ==
  /\ pc = "opened"
  /\ pc' = "closed" /\ handle' = None /\ got' = << >>
  /\ UNCHANGED <<vol, insensitive, request, dir, part>>

Next == fat32_init_context \/ fat32_get_label \/ fat32_open \/ MakeHandle \/ fread \/ fclose

Spec == Init /\ [][Next]_vars
-----------------------------------------------------------------------------
(* The file a path names in the tree the volume was made with              *)
Named(f, name) ==
  \/ f.long # << >> /\ (IF insensitive THEN Folded(f.long) = Folded(name) ELSE f.long = name)
  \/ Len(name) = 1 /\ f.short # "" /\ Lower(f.short) = Lower(name[1])

Nothing == [ok |-> FALSE]

Meant[n \in 0 .. 3] ==
  IF n = 0 THEN [ok |-> TRUE, dir |-> TRUE, id |-> 0]
  ELSE LET up == Meant[n - 1]
           here == SelectSeq(vol.tree, LAMBDA f : f.up = up.id /\ Named(f, request[n]))
       IN  IF ~up.ok \/ ~up.dir \/ here = << >> THEN Nothing ELSE here[1]

(* A path opens the file the volume's tree has under it, by its long name  *)
(* or its short one, whatever stale and free entries lie in between; its   *)
(* bytes are those of its clusters in order; and a file whose chain loops, *)
(* ends early, or leaves the FAT or the medium is not opened.              *)
FileExact ==
  /\ pc = "missing" /\ request # Label => ~Meant[Len(request)].ok \/ Meant[Len(request)].id \in vol.lost
  /\ pc = "opened" =>
       LET f == Meant[Len(request)]
       IN  /\ f.ok /\ f.id \notin vol.lost /\ handle.size = f.size /\ handle.chain = f.clusters
           /\ \A i \in DOMAIN got : got[i] = ClusterBase(f.clusters[((part + i - 1) \div BlockSize) + 1]) + ((part + i - 1) % BlockSize)
  /\ pc = "panic" => vol.bad # {}
  /\ pc = "label given" => got = <<vol.label>>
=============================================================================
