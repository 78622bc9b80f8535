----------------------------- MODULE Partitions -----------------------------
(***************************************************************************)
(* Partition tables (common/lib/part.s2.c): GPT with its backup header,    *)
(* MBR with extended partitions and their chains of EBRs, and the memos    *)
(* that carry work from one part_get() to the next, as disk_create_index() *)
(* (common/drivers/disk.s2.c) enumerates disk after disk.                  *)
(*                                                                         *)
(* Sectors of 512 bytes are numbered.  A disk says what its sectors hold:  *)
(* mbr, ebrs, headers (blocks with the GPT signature) and arrays (of GPT   *)
(* entries, in units of 128 bytes).  A checksum is right or wrong.         *)
(***************************************************************************)
EXTENDS Integers, SequencesExt, FiniteSetsExt

CONSTANTS
  Machines,     \* sequences of disks
  Guesses,      \* lb_guesses, in sectors
  MaxArray,     \* GPT_MAX_ARRAY_SIZE
  MaxGpt,       \* MAX_GPT_PARTITIONS
  MaxLogical,   \* MAX_LOGICAL_PARTITIONS
  MaxEbrs       \* MAX_EBRS

Unknown == -1   \* the sect_count of a disk of unknown size
None == [volume |-> 0]

VARIABLES
  disks,        \* the machine
  at,           \* the disk that is being indexed
  part,         \* the next partition to ask it for
  memo,         \* gpt_memo_*: the header last verified
  memo_none,    \* gpt_memo_none_*: the volume last found to have no GPT
  ebr,          \* ebr_part of every disk, with ebr_walk_*
  guid,         \* per disk, what gpt_get_guid() found
  index         \* volume_index

vars == <<disks, at, part, memo, memo_none, ebr, guid, index>>

Init ==
  /\ disks \in Machines
  /\ at = 1 /\ part = -1
  /\ memo = None /\ memo_none = None
  /\ ebr = [v \in DOMAIN disks |-> << >>]
  /\ guid = [v \in DOMAIN disks |-> << >>]
  /\ index = << >>

Readable(d, s) == s < d.device /\ s \notin d.bad /\ (d.sect_count # Unknown => s < d.sect_count)

(* The block at a sector, as far as it could be a GPT header               *)
Block(d, s) == IF s \in DOMAIN d.headers THEN d.headers[s] ELSE << >>

IsHeader(d, s) == Readable(d, s) /\ s \in DOMAIN d.headers

partition_range_valid(d, first, count) ==
  count > 0 /\ (d.sect_count # Unknown => first + count <= d.sect_count)
-----------------------------------------------------------------------------
ArraySize(h) == h.number * h.entry
ArrayEnd(h, g) == h.array_lba + (ArraySize(h) + 4 * g - 1) \div (4 * g)

(* The checks of gpt_verify_header() that come before the array is read    *)
HeaderSound(d, h, lba, g) ==
  /\ h.sane /\ h.my_lba = lba /\ h.crc
  /\ h.entry \in {2 ^ n : n \in 0 .. 8}
  /\ ArraySize(h) # 0 /\ ArraySize(h) <= MaxArray
  /\ h.first_usable <= h.last_usable
  /\ IF h.array_lba < h.first_usable THEN ArrayEnd(h, g) <= h.first_usable
     ELSE h.array_lba > h.last_usable /\ ArrayEnd(h, g) <= lba
  /\ d.sect_count # Unknown => ArrayEnd(h, g) <= d.sect_count \div g

ArraySound(d, h, g) ==
  /\ \A s \in h.array_lba * g .. ArrayEnd(h, g) * g - 1 : Readable(d, s)
  /\ h.array_lba * g \in DOMAIN d.arrays
  /\ d.arrays[h.array_lba * g].crc = h.array_crc

gpt_protective_mbr(d) == Readable(d, 0) /\ \E i \in 1 .. 4 : d.mbr.slots[i].type = "gpt"

(* Where a header is looked for with one block size: block 1, the last     *)
(* block, and the alternate that block 1 names                             *)
Candidates(d, g) ==
  LET blocks == d.sect_count \div g
      last == IF d.sect_count # Unknown /\ blocks >= 2 THEN <<blocks - 1>> ELSE << >>
      named == IF IsHeader(d, g) /\ d.headers[g].alternate > 1 THEN <<d.headers[g].alternate>> ELSE << >>
  IN  [i \in 1 .. 1 + Len(last) + (IF named = last THEN 0 ELSE Len(named)) |->
         [lba |-> (<<1>> \o last \o named)[i], g |-> g]]

(* The search: the first candidate that verifies, with a budget for the    *)
(* entry arrays it may read                                                *)
Search(d) ==
  LET cands == FlattenSeq([i \in DOMAIN Guesses |-> Candidates(d, Guesses[i])])
      Tried[i \in 0 .. Len(cands)] ==
        IF i = 0 THEN [found |-> << >>, budget |-> 2 * MaxArray]
        ELSE LET t == Tried[i - 1]
                 c == cands[i]
                 h == Block(d, c.lba * c.g)
             IN  IF \/ t.found # << >> \/ ~IsHeader(d, c.lba * c.g)
                    \/ ~HeaderSound(d, h, c.lba, c.g) \/ ArraySize(h) > t.budget
                 THEN t
                 ELSE [found |-> IF ArraySound(d, h, c.g) THEN <<c>> ELSE << >>,
                       budget |-> t.budget - ArraySize(h)]
  IN  Tried[Len(cands)].found

gpt_memo_hit(v) ==
  /\ memo.volume = v
  /\ Readable(disks[v], memo.at.lba * memo.at.g)
  /\ Block(disks[v], memo.at.lba * memo.at.g) = memo.header

(* A bug: the answer is kept for whatever volume comes next                *)
BugAnyVolume(v) ==
  /\ memo_none.volume # 0
  /\ IF Readable(disks[v], 1) THEN memo_none.readable /\ Block(disks[v], 1) = memo_none.block
     ELSE ~memo_none.readable

gpt_memo_none_hit(v) ==
  /\ memo_none.volume = v
  /\ IF Readable(disks[v], 1) THEN memo_none.readable /\ Block(disks[v], 1) = memo_none.block
     ELSE ~memo_none.readable

(* << >> or <<where the header of v is>>                                   *)
Located(v) ==
  IF gpt_memo_hit(v) THEN <<memo.at>>
  ELSE IF gpt_memo_none_hit(v) \/ ~gpt_protective_mbr(disks[v]) THEN << >>
  ELSE Search(disks[v])

gpt_locate_header(v) ==
  LET found == Located(v)
  IN  IF gpt_memo_hit(v) \/ gpt_memo_none_hit(v) \/ ~gpt_protective_mbr(disks[v])
      THEN UNCHANGED <<memo, memo_none>>
      ELSE IF found = << >>
      THEN /\ memo_none' = [volume |-> v, readable |-> Readable(disks[v], 1), block |-> Block(disks[v], 1)]
           /\ UNCHANGED memo
      ELSE /\ memo' = [volume |-> v, at |-> found[1],
                       header |-> Block(disks[v], found[1].lba * found[1].g)]
           /\ UNCHANGED memo_none

(* Entry p of the table whose header is at c                               *)
gpt_get_part(d, c, p) ==
  LET h == d.headers[c.lba * c.g]
      e == d.arrays[h.array_lba * c.g].entries[p + 1]
      first == e.first * c.g
      count == (e.last - e.first + 1) * c.g
  IN  IF p >= Min({h.number, MaxGpt}) \/ ~Readable(d, h.array_lba * c.g + (p * h.entry) \div 4)
      THEN [status |-> "end"]
      ELSE IF e.type = "empty" \/ e.last < e.first \/ ~partition_range_valid(d, first, count)
      THEN [status |-> "none"]
      ELSE [status |-> "ok", partition |-> p + 1, first |-> first, count |-> count]
-----------------------------------------------------------------------------
(* MBR entries count device blocks, except on optical media                *)
mbr_read_entry(d, e) == [type |-> e.type, first |-> e.first * d.mult, count |-> e.count * d.mult]

InDisk(d, first) == d.sect_count # Unknown => first < d.sect_count

mbr_cut_to_disk(d, first, count) ==
  IF d.sect_count = Unknown THEN count ELSE Min({count, d.sect_count - first})

(* The extended partitions from a slot on, in slot order                   *)
Extended(d, slot) ==
  LET all == [i \in 1 .. 4 |-> mbr_read_entry(d, d.mbr.slots[i])]
      Taken(i) == i > slot /\ all[i].type = "ext" /\ all[i].count > 0 /\ InDisk(d, all[i].first)
  IN  [n \in 1 .. Cardinality({i \in 1 .. 4 : Taken(i)}) |->
         LET i == CHOOSE i \in {j \in 1 .. 4 : Taken(j)} :
                    Cardinality({j \in 1 .. i : Taken(j)}) = n
         IN  [slot |-> i, first |-> all[i].first, declared |-> all[i].count,
              count |-> mbr_cut_to_disk(d, all[i].first, all[i].count)]]

Signed(d, x, sector) == 
  /\ sector < x.count /\ Readable(d, x.first + sector)
  /\ x.first + sector \in DOMAIN d.ebrs

mbr_logical_entry_contained(x, sector, e) == sector + e.first + e.count <= x.declared

Slots(d, x, sector) == [i \in 1 .. 4 |-> mbr_read_entry(d, d.ebrs[x.first + sector][i])]

(* The logical partitions an EBR numbers: whatever the first two slots     *)
(* hold, and what lies in both extents of the others                       *)
Numbered(d, x, sector, size) ==
  LET slots == Slots(d, x, sector)
      Counts(i) ==
        /\ slots[i].type # "ext" /\ slots[i].count > 0
        /\ i > 2 => /\ mbr_logical_entry_contained(x, sector, slots[i])
                    /\ slots[i].first + slots[i].count <= size
  IN  [n \in 1 .. Cardinality({i \in 1 .. 4 : Counts(i)}) |->
         slots[CHOOSE i \in {j \in 1 .. 4 : Counts(j)} : Cardinality({j \in 1 .. i : Counts(j)}) = n]]

Link(d, x, sector) ==
  SelectSeq(Slots(d, x, sector), LAMBDA e : e.type = "ext" /\ e.count > 0)

LogicalVolume(d, x, sector, e, p) ==
  LET first == x.first + sector + e.first
  IN  IF \/ d.sect_count = Unknown /\ ~mbr_logical_entry_contained(x, sector, e)
         \/ ~InDisk(d, first)
      THEN [status |-> "none"]
      ELSE [status |-> "ok", partition |-> p + 5, first |-> first,
            count |-> mbr_cut_to_disk(d, first, e.count)]

RECURSIVE mbr_get_logical_part(_, _, _, _)
(* The walk goes on from w: the chain of EBRs so far, the count before the *)
(* last one, and the extent the link to it declared                        *)
mbr_get_logical_part(d, x, w, p) ==
  LET sector == Last(w.chain)
      here == Numbered(d, x, sector, w.size)
      link == Link(d, x, sector)
      accepted == w.index + Len(here)
  IN  IF ~Signed(d, x, sector) THEN [status |-> "end", walk |-> w, accepted |-> w.index]
      ELSE IF p < accepted
      THEN LogicalVolume(d, x, sector, here[p - w.index + 1], p)
             @@ [walk |-> w, accepted |-> p]
      ELSE IF \/ link = << >> \/ link[1].first \in ToSet(w.chain)
              \/ Len(w.chain) = MaxEbrs \/ link[1].first >= x.count
      THEN [status |-> "end", walk |-> w, accepted |-> accepted]
      ELSE mbr_get_logical_part(d, x, [index |-> accepted, chain |-> Append(w.chain, link[1].first),
                                       size |-> link[1].count], p)

RECURSIVE WalkExtended(_, _, _, _)
(* The extended partitions xs, one after the other                         *)
WalkExtended(d, xs, p, accepted) ==
  LET x == Head(xs)
      r == mbr_get_logical_part(d, x, [index |-> accepted, chain |-> <<0>>, size |-> x.declared], p)
           @@ [ebr |-> x]
  IN  IF r.status # "end" \/ Len(xs) = 1 THEN r ELSE WalkExtended(d, Tail(xs), p, r.accepted)

(* The memo of a disk, and what probing for logical partition p finds and  *)
(* leaves behind                                                           *)
Probe(d, m, p) ==
  LET on == m # << >> /\ m.walk.index <= p
      r == mbr_get_logical_part(d, m.ebr, m.walk, p) @@ [ebr |-> m.ebr]
      xs == Extended(d, IF on THEN m.ebr.slot ELSE 0)
  IN  IF on /\ r.status # "end" THEN r
      ELSE IF xs # << >> THEN WalkExtended(d, xs, p, IF on THEN r.accepted ELSE 0)
      ELSE IF on THEN r ELSE [status |-> "end", nothing |-> TRUE]

Primary(d, p) ==
  LET e == mbr_read_entry(d, d.mbr.slots[p + 1])
  IN  IF e.type \in {"empty", "ext"} \/ e.count = 0 \/ ~InDisk(d, e.first) THEN [status |-> "none"]
      ELSE [status |-> "ok", partition |-> p + 1, first |-> e.first,
            count |-> mbr_cut_to_disk(d, e.first, e.count)]

(* The last thing read, the place of an ext superblock, is in sector 2     *)
is_valid_mbr(d) == Readable(d, 0) /\ d.mbr.valid /\ Readable(d, 2)

mbr_get_part(d, m, p) ==
  IF ~is_valid_mbr(d) THEN [status |-> "invalid"]
  ELSE IF p < 4 THEN Primary(d, p)
  ELSE IF p - 4 >= MaxLogical THEN [status |-> "end"]
  ELSE Probe(d, m, p - 4)
-----------------------------------------------------------------------------
(* disk_create_index(): the disk itself, and its GUID                      *)
gpt_get_guid ==
  /\ at \in DOMAIN disks /\ part = -1
  /\ gpt_locate_header(at)
  /\ guid' = [guid EXCEPT ![at] = Located(at)]
  /\ part' = 0
  /\ UNCHANGED <<disks, at, ebr, index>>

Entered(r) ==
  IF r.status = "ok"
  THEN Append(index, [disk |-> at, partition |-> r.partition, first |-> r.first, count |-> r.count])
  ELSE index

(* part_get(), and what the enumeration does with the answer               *)
part_get ==
  /\ at \in DOMAIN disks /\ part >= 0
  /\ gpt_locate_header(at)
  /\ LET live == Located(at) # << >>
         r == IF live THEN gpt_get_part(disks[at], Located(at)[1], part) ELSE mbr_get_part(disks[at], ebr[at], part)
     IN  /\ index' = Entered(r)
         /\ ebr' = IF ~live /\ "walk" \in DOMAIN r
                   THEN [ebr EXCEPT ![at] = [ebr |-> r.ebr, walk |-> r.walk]] ELSE ebr
         /\ IF r.status \in {"end", "invalid"} THEN at' = at + 1 /\ part' = -1
            ELSE part' = part + 1 /\ UNCHANGED at
  /\ UNCHANGED <<disks, guid>>

(* get_file() asks for the GUID of a disk again, after the index is        *)
(* complete                                                                *)
AskGuid(v) ==
  /\ at = Len(disks) + 1
  /\ gpt_locate_header(v)
  /\ guid' = [guid EXCEPT ![v] = Located(v)]
  /\ UNCHANGED <<disks, at, part, ebr, index>>

Next == gpt_get_guid \/ part_get \/ \E v \in DOMAIN disks : AskGuid(v)

Spec == Init /\ [][Next]_vars
-----------------------------------------------------------------------------
(* The header a disk's GPT is read through, without memos                  *)
Live(d) == IF gpt_protective_mbr(d) THEN Search(d) ELSE << >>

(* All EBRs of an extended partition, each with the extent of its link     *)
Chain(d, x) ==
  LET From[n \in 0 .. MaxEbrs] ==
        IF n = 0 THEN IF Signed(d, x, 0) THEN <<[x |-> x, sector |-> 0, size |-> x.declared]>> ELSE << >>
        ELSE LET c == From[n - 1]
                 next == IF c = << >> THEN << >> ELSE Link(d, x, Last(c).sector)
             IN  IF \/ next = << >> \/ Len(c) # n \/ Len(c) = MaxEbrs
                    \/ next[1].first \in {c[i].sector : i \in DOMAIN c}
                    \/ ~Signed(d, x, next[1].first)
                 THEN c
                 ELSE Append(c, [x |-> x, sector |-> next[1].first, size |-> next[1].count])
  IN  From[MaxEbrs]

(* The logical partitions of a disk in the order they are numbered         *)
Logical(d) ==
  LET xs == Extended(d, 0)
      all == FlattenSeq([i \in DOMAIN xs |-> Chain(d, xs[i])])
      Of(c) == LET n == Numbered(d, c.x, c.sector, c.size)
               IN  [i \in DOMAIN n |-> [at |-> c, entry |-> n[i]]]
  IN  FlattenSeq([i \in DOMAIN all |-> Of(all[i])])

(* What a disk's partitions are                                            *)
Expected(v) ==
  LET d == disks[v]
      l == Logical(d)
      Volume(i) == IF i <= 4 THEN Primary(d, i - 1)
                   ELSE LogicalVolume(d, l[i - 4].at.x, l[i - 4].at.sector, l[i - 4].entry, i - 5)
      h == d.headers[Live(d)[1].lba * Live(d)[1].g]
      all == IF Live(d) # << >> THEN [i \in 1 .. Min({h.number, MaxGpt}) |-> gpt_get_part(d, Live(d)[1], i - 1)]
             ELSE IF ~is_valid_mbr(d) THEN << >>
             ELSE [i \in 1 .. 4 + Min({Len(l), MaxLogical}) |-> Volume(i)]
  IN  SelectSeq(all, LAMBDA r : r.status = "ok")

(* Enumerating the disks, one part_get() at a time with what the memos     *)
(* carry over, finds just the partitions a walk of the whole table finds,  *)
(* in the order and under the numbers the running system gives them, none  *)
(* of them reaching past its disk; and a GPT header is found for a disk    *)
(* exactly if it has a live one, whichever disk was searched before.       *)
EnumerationExact ==
  \A v \in DOMAIN disks :
    /\ at > v =>
         LET found == SelectSeq(index, LAMBDA r : r.disk = v)
         IN  /\ Len(found) = Len(Expected(v))
             /\ \A i \in DOMAIN found :
                  /\ found[i].partition = Expected(v)[i].partition
                  /\ found[i].first = Expected(v)[i].first
                  /\ found[i].count = Expected(v)[i].count
                  /\ partition_range_valid(disks[v], found[i].first, found[i].count)
    /\ (at > v \/ (at = v /\ part >= 0)) => guid[v] = Live(disks[v])
=============================================================================
