-------------------------------- MODULE Iso ---------------------------------
(***************************************************************************)
(* Files on ISO 9660 volumes (common/fs/iso9660.s2.c): the primary volume  *)
(* descriptor, directories that fill sectors, names of ISO 9660 and of     *)
(* Rock Ridge with their continuation areas, files of several extents, and *)
(* the cache of roots.                                                     *)
(*                                                                         *)
(* A directory is its size and the records at their offsets; what is not   *)
(* a record is zero.  A system use area is a sequence of entries, of which *)
(* "bad" is one whose length is not possible.  A byte of data is told by   *)
(* its place on the volume.                                                *)
(***************************************************************************)
EXTENDS Integers, SequencesExt, FiniteSetsExt

CONSTANTS
  Discs,          \* records, see MCIso
  Requests,       \* paths: sequences of names
  TooLong,        \* the name that exceeds ROCK_RIDGE_MAX_FILENAME
  MaxOpens,
  MaxDescriptors, \* ISO9660_MAX_VOLUME_DESCRIPTORS
  MaxDir,         \* ISO9660_MAX_DIR_SIZE
  MaxHops,        \* ISO9660_MAX_CONTINUATIONS
  MaxName,        \* characters of the longest name load_name() returns
  MaxExtents,     \* ISO9660_MAX_EXTENT_COUNT
  Lower,          \* letters in lower case
  Counts          \* how many bytes a read asks for

VARIABLES
  disc,
  readable,       \* the medium can be read, as it can until it is removed
  insensitive,    \* case_insensitive_fopen
  request, pc,    \* "idle", "walk", "opened", "missing" or "panic"
  context,        \* the cached root, if any
  dir, part,      \* the extent of the directory and the component that are next
  handle, got, at,
  opens

vars == <<disc, readable, insensitive, request, pc, context, dir, part, handle, got, at, opens>>

(* Body of a value that is computed once                                   *)
With(value, Body(_)) == CHOOSE r \in {Body(v) : v \in {value}} : TRUE

Sector == 16
MinLen == 2        \* sizeof(struct iso9660_directory_entry)
None == << >>

Init ==
  /\ disc \in Discs /\ readable = TRUE /\ insensitive \in BOOLEAN
  /\ request = None /\ pc = "idle" /\ context = None /\ dir = None /\ part = 1
  /\ handle = None /\ got = << >> /\ at = 0 /\ opens = 0

(* volume_read() of a place                                                *)
Reads(place) == readable /\ place \notin disc.bad
-----------------------------------------------------------------------------
(* The first primary descriptor, or None                                   *)
iso9660_find_PVD ==
  LET stops == {i \in 1 .. MaxDescriptors :
                  i > Len(disc.descriptors) \/ ~disc.descriptors[i].cd001 \/ disc.descriptors[i].type \in {"primary", "terminator"}}
      d == disc.descriptors[Min(stops)]
  IN  IF stops = {} \/ Min(stops) > Len(disc.descriptors) \/ ~d.cd001 \/ d.type # "primary" \/ d.version # 1
      THEN None ELSE d

DirectorySound(size) == size \in 1 .. MaxDir /\ size % Sector = 0

RecordAt(d, o) == d.recs[o]
IsZero(d, o) == o \notin DOMAIN d.recs

(* The entries of an area and of the areas it continues in                 *)
Usable(area) ==
  LET stop == {i \in DOMAIN area : area[i].sig \in {"bad", "ST"}}
  IN  IF stop = {} THEN area ELSE SubSeq(area, 1, Min(stop) - 1)

Continued(area) == SelectSeq(Usable(area), LAMBDA e : e.sig = "CE")

Hop(st) ==
  LET ces == Continued(st.area)
      ce == ces[Len(ces)]
  IN  IF st.over THEN st
      ELSE IF ces = << >> \/ ~ce.fits \/ ~Reads(ce.to)
      THEN [st EXCEPT !.out = @ \o Usable(st.area), !.over = TRUE]
      ELSE [out |-> st.out \o Usable(st.area), area |-> disc.areas[ce.to], over |-> FALSE]

HopStep(st, i) == With(st, Hop)

SuspEntries(area) ==
  LET Rest(st) == IF st.over THEN st.out ELSE st.out \o Usable(st.area)
  IN  With(FoldLeft(HopStep, [out |-> << >>, area |-> area, over |-> FALSE], [i \in 1 .. MaxHops |-> i]), Rest)

iso9660_susp_skip(root) ==
  IF IsZero(root, 0) THEN -1
  ELSE LET e == RecordAt(root, 0)
       IN  IF e.name # <<"self">> \/ e.susp = << >> \/ e.susp[1].sig # "SP" THEN -1
           ELSE IF \E i \in DOMAIN SuspEntries(e.susp) : SuspEntries(e.susp)[i].sig = "ER" THEN e.susp[1].skip ELSE -1

iso9660_cache_root(d) ==
  d # None /\ d.block = Sector /\ DirectorySound(d.size) /\ Reads(d.root)

iso9660_get_context(d) ==
  IF context # None THEN context
  ELSE IF iso9660_cache_root(d) THEN [root |-> d.root, skip |-> iso9660_susp_skip(disc.dirs[d.root])]
  ELSE None

Signed == readable /\ disc.descriptors[1].cd001

iso9660_open ==
  /\ pc = "idle" /\ opens < MaxOpens
  /\ opens' = opens + 1
  /\ request' \in Requests
  /\ \E c \in {IF Signed THEN iso9660_get_context(iso9660_find_PVD) ELSE None} :
       IF c = None THEN pc' = "missing" /\ UNCHANGED <<context, dir>>
       ELSE pc' = "walk" /\ context' = c /\ dir' = c.root
  /\ part' = 1
  /\ UNCHANGED <<disc, readable, insensitive, handle, got, at>>
-----------------------------------------------------------------------------
(* Names                                                                   *)
IsoLength(name) ==
  LET cuts == {j \in DOMAIN name : name[j] = ";" \/ (name[j] = "." /\ j < Len(name) /\ name[j + 1] = ";")}
  IN  IF cuts = {} THEN Len(name) ELSE Min(cuts) - 1

IsoName(e) ==
  LET held == IF e.len < MinLen + Len(e.name) THEN SubSeq(e.name, 1, IF e.len <= MinLen THEN 0 ELSE e.len - MinLen) ELSE e.name
  IN  [rr |-> FALSE, name |-> SubSeq(held, 1, IsoLength(held))]

(* The room a record has behind its name and the byte that pads it         *)
SysArea(e) == e.len - MinLen - Len(e.name) - (IF Len(e.name) % 2 = 0 THEN 1 ELSE 0)

NameMarks(susp) == SelectSeq(susp, LAMBDA s : s.sig = "NM")

(* A bug: the name is its first part                                       *)
BugFirstPart(susp) == SubSeq(NameMarks(susp), 1, Min({1, Len(NameMarks(susp))}))

(* NM entries up to the first that does not go on                          *)
NameParts(susp) ==
  LET nms == NameMarks(susp)
      last == {i \in DOMAIN nms : ~nms[i].goes_on}
  IN  IF last = {} THEN nms ELSE SubSeq(nms, 1, Min(last))

RockRidge(e, susp) ==
  LET name == FlattenSeq([i \in DOMAIN NameParts(susp) |-> NameParts(susp)[i].name])
  IN  IF NameParts(susp) = << >> \/ Len(name) > MaxName THEN IsoName(e) ELSE [rr |-> TRUE, name |-> name]

load_name(e) ==
  IF context.skip < 0 \/ SysArea(e) < 0 \/ context.skip > SysArea(e) THEN IsoName(e)
  ELSE With(SuspEntries(e.susp), LAMBDA susp : RockRidge(e, susp))
-----------------------------------------------------------------------------
(* Directories                                                             *)
NextSector(o) == ((o \div Sector) + 1) * Sector

(* strcasecmp() and strcmp()                                               *)
Folded(name) == [i \in DOMAIN name |-> IF name[i] \in DOMAIN Lower THEN Lower[name[i]] ELSE name[i]]

Same(n, name) == IF n.rr /\ ~insensitive THEN n.name = name ELSE Folded(n.name) = Folded(name)

(* The offset of the record that has a name, or -1                         *)
iso9660_find(d, name) ==
  LET find[o \in 0 .. d.size] ==
        IF o = d.size THEN -1
        ELSE IF IsZero(d, o) THEN IF d.size - o <= Sector THEN -1 ELSE find[NextSector(o)]
        ELSE LET e == RecordAt(d, o)
             IN  IF e.len > d.size - o \/ e.len < MinLen THEN -1
                 ELSE IF e.name \notin {<<"self">>, <<"parent">>} /\ Same(load_name(e), name) THEN o
                 ELSE find[o + e.len]
  IN  find[0]

(* The offset of the record after one, or -1                               *)
iso9660_next_entry(d, o) ==
  LET after == o + RecordAt(d, o).len
      next == IF IsZero(d, after) THEN NextSector(after) ELSE after
  IN  IF after >= d.size \/ next >= d.size \/ IsZero(d, next) THEN -1
      ELSE IF RecordAt(d, next).len < MinLen \/ RecordAt(d, next).len > d.size - next THEN -1
      ELSE next

(* The records of a file that has several extents                          *)
Extend(d, first, st) ==
  LET e == RecordAt(d, st.o)
      next == iso9660_next_entry(d, st.o)
      base == load_name(RecordAt(d, first)).name
  IN  IF st.over \/ ~e.multi \/ Len(st.extents) >= MaxExtents \/ next = -1 THEN [st EXCEPT !.over = TRUE]
      ELSE IF base = << >> \/ base # load_name(RecordAt(d, next)).name THEN [st EXCEPT !.over = TRUE]
      ELSE [over |-> FALSE, o |-> next, extents |-> Append(st.extents, next)]

Extents(d, first) ==
  LET Step(st, i) == With(st, LAMBDA s : Extend(d, first, s))
  IN  FoldLeft(Step, [over |-> FALSE, o |-> first, extents |-> <<first>>], [i \in 1 .. MaxExtents |-> i])

Sections(d, x) == [i \in DOMAIN x.extents |-> LET e == RecordAt(d, x.extents[i]) IN [lba |-> e.extent + e.xattr, size |-> e.size]]

Refused(d, x) == RecordAt(d, x.o).multi \/ \E i \in DOMAIN x.extents : RecordAt(d, x.extents[i]).interleaved

Size(extents) == FoldLeft(LAMBDA n, e : n + e.size, 0, extents)

Walk ==
  /\ pc = "walk"
  /\ IF part > Len(request) THEN pc' = "missing" /\ UNCHANGED <<dir, part, handle>>
     ELSE IF request[part] = TooLong THEN pc' = "panic" /\ UNCHANGED <<dir, part, handle>>
     ELSE \E o \in {iso9660_find(disc.dirs[dir], request[part])} :
          LET here == disc.dirs[dir]
              e == RecordAt(here, o)
              lba == e.extent + e.xattr
          IN  IF o = -1 THEN pc' = "missing" /\ UNCHANGED <<dir, part, handle>>
              ELSE IF part = Len(request)
              THEN \E x \in {Extents(here, o)} :
                     /\ IF Refused(here, x) THEN pc' = "missing" /\ UNCHANGED handle
                        ELSE pc' = "opened" /\ handle' = Sections(here, x)
                     /\ UNCHANGED <<dir, part>>
              ELSE /\ IF ~e.dir \/ ~DirectorySound(e.size) \/ ~Reads(lba) THEN pc' = "missing" /\ UNCHANGED dir
                      ELSE pc' = "walk" /\ dir' = lba
                   /\ part' = part + 1
                   /\ UNCHANGED handle
  /\ UNCHANGED <<disc, readable, insensitive, request, context, got, at, opens>>
-----------------------------------------------------------------------------
(* Reads that run over extents: those a read meets, and what it takes      *)
Take(st, x, loc, count) ==
  LET from == IF loc > st.start THEN loc - st.start ELSE 0
      wanted == count - Len(st.out)
      n == Min({wanted, x.size - from})
  IN  IF wanted = 0 \/ loc >= st.start + x.size THEN [st EXCEPT !.start = @ + x.size]
      ELSE [start |-> st.start + x.size, out |-> st.out \o [i \in 1 .. n |-> x.lba * Sector + from + i - 1]]

iso9660_read(loc, count) ==
  LET Step(st, x) == With(st, LAMBDA s : Take(s, x, loc, count))
  IN  FoldLeft(Step, [start |-> 0, out |-> << >>], handle).out

Read ==
  /\ pc = "opened"
  /\ \E loc \in 0 .. Size(handle), count \in Counts :
       /\ loc + count <= Size(handle)
       /\ \E bytes \in {iso9660_read(loc, count)} :
            IF Len(bytes) < count \/ \E i \in DOMAIN bytes : ~Reads(bytes[i] \div Sector)
            THEN pc' = "panic" /\ UNCHANGED <<got, at>>
            ELSE got' = bytes /\ at' = loc /\ UNCHANGED pc
  /\ UNCHANGED <<disc, readable, insensitive, request, context, dir, part, handle, opens>>

Idle ==
  /\ pc' = "idle" /\ request' = None /\ dir' = None /\ part' = 1 /\ handle' = None /\ got' = << >> /\ at' = 0
  /\ UNCHANGED <<disc, readable, insensitive, context, opens>>

iso9660_close == pc = "opened" /\ Idle
Return == pc = "missing" /\ Idle

Eject ==
  /\ readable /\ pc = "idle" /\ readable' = FALSE
  /\ UNCHANGED <<disc, insensitive, request, pc, context, dir, part, handle, got, at, opens>>

Next == iso9660_open \/ Walk \/ Read \/ iso9660_close \/ Return \/ Eject

Spec == Init /\ [][Next]_vars
-----------------------------------------------------------------------------
(* The file a path names in the tree the disc was made from                *)
Matches(f, name) ==
  IF f.rr # << >> /\ disc.rockridge THEN IF insensitive THEN Folded(f.rr) = Folded(name) ELSE f.rr = name
  ELSE Folded(f.iso) = Folded(name)

Meant[n \in 0 .. 3] ==
  IF n = 0 THEN [ok |-> TRUE, dir |-> TRUE, id |-> 0]
  ELSE LET up == Meant[n - 1]
           here == SelectSeq(disc.tree, LAMBDA f : f.up = up.id /\ Matches(f, request[n]))
       IN  IF ~up.ok \/ ~up.dir \/ here = << >> THEN [ok |-> FALSE] ELSE here[1]

Bytes(f) == FlattenSeq([i \in DOMAIN f.sections |-> [j \in 1 .. f.sections[i].size |-> f.sections[i].lba * Sector + j - 1]])

(* A path opens the file the disc was made with under the name the disc    *)
(* gives it, in whatever sector, continuation area or extents its records  *)
(* lie, and a read anywhere gives its bytes; what is recorded in a way     *)
(* the reader does not know is not opened, nor mistaken for another file.  *)
DiscExact ==
  /\ pc = "missing" /\ readable /\ request # None => Len(request) = 0 \/ ~Meant[Len(request)].ok \/ Meant[Len(request)].id \in disc.lost
  /\ pc = "opened" =>
       LET f == Meant[Len(request)]
       IN  /\ f.ok /\ f.id \notin disc.lost /\ handle = f.sections
           /\ got = SubSeq(Bytes(f), at + 1, at + Len(got))
  /\ pc = "panic" => ~readable \/ disc.bad # {} \/ \E i \in DOMAIN request : request[i] = TooLong
=============================================================================
