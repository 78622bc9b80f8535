------------------------------- MODULE MCFat --------------------------------
(***************************************************************************)
(* Volumes of each FAT type with one tree: a file with a long name, a      *)
(* directory with a file, an empty file and one whose short name begins    *)
(* with the mark of a free entry; with stale entries before them, and with *)
(* damage to the FAT, the geometry or the medium.                          *)
(***************************************************************************)
EXTENDS Fat

MCLower == [X |-> "x", Y |-> "y", d |-> "d", D |-> "d", c |-> "c", C |-> "c"]
MCStandsFor == [k |-> "ek"]
MCSums == [xa |-> 1, q |-> 2, D |-> 3, z |-> 4, c |-> 5, k |-> 6, v |-> 0]

MCRequests ==
  {<< <<"x", "y">> >>, << <<"X", "Y">> >>, << <<"x">> >>, << <<"xa">> >>, << <<"d">>, <<"z">> >>, << <<"D">>, <<"Z">> >>,
   << <<"d">>, <<"c">> >>, << <<"C">> >>, << <<"ek">> >>, << <<"c">>, <<"z">> >>, << <<"w">> >>, << <<"d">>, << >> >>,
   << <<"q">> >>, << <<"x", "y", "x", "y">> >>}

Free == [kind |-> "free"]
VolLabel == [kind |-> "label", name |-> "v"]
Lfn(seq, last, sum, piece) == [kind |-> "lfn", seq |-> seq, last |-> last, sum |-> sum, piece |-> piece]
Entry(name, attr, cluster, size) == [kind |-> "short", name |-> name, attr |-> attr, cluster |-> cluster, size |-> size]

Noises ==
  {<< >>, <<Free>>, <<Lfn(2, TRUE, 1, "x"), Free>>, <<Lfn(2, TRUE, 1, "y"), Lfn(1, FALSE, 2, "x")>>,
   <<Lfn(1, TRUE, 1, "x")>>, <<Lfn(0, TRUE, 1, "x")>>, <<Lfn(3, TRUE, 1, "x"), Lfn(2, FALSE, 1, "y")>>,
   <<Lfn(4, TRUE, 1, "x")>>, <<Lfn(1, TRUE, 1, "w")>>,
   <<Lfn(2, TRUE, 2, "y"), Lfn(1, FALSE, 2, "x"), Free>>, <<Lfn(2, TRUE, 1, "y"), Lfn(1, FALSE, 1, "x"), Entry("q", "file", 0, 0)>>}

RootOf(noise, size) ==
  LET set == <<VolLabel>> \o noise \o <<Lfn(2, TRUE, 1, "y"), Lfn(1, FALSE, 1, "x"), Entry("xa", "file", 5, size),
               Entry("D", "dir", 4, 0), Entry("c", "file", 0, 0), Entry("k", "file", 0, 0)>>
  IN  [i \in 1 .. 11 |-> IF i <= Len(set) THEN set[i] ELSE End]

File(id, up, isdir, long, short, clusters, size) ==
  [ok |-> TRUE, id |-> id, up |-> up, dir |-> isdir, long |-> long, short |-> short, clusters |-> clusters, size |-> size]

Tree(noise, size) ==
  (IF noise # << >> /\ noise[Len(noise)].kind = "short" THEN <<File(9, 0, FALSE, << >>, "q", << >>, 0)>> ELSE << >>)
  \o <<File(1, 0, FALSE, <<"x", "y">>, "xa", <<5, 3>>, size), File(2, 0, TRUE, << >>, "D", <<4>>, 0),
       File(3, 2, FALSE, <<"Z">>, "z", << >>, 0), File(4, 0, FALSE, << >>, "c", << >>, 0),
       File(5, 0, FALSE, << >>, "ek", << >>, 0)>>

(* Geometries, two sectors to a cluster                                    *)
Geometry(type) ==
  LET spf == CASE type = 12 -> 4 [] type = 16 -> 6 [] type = 32 -> 14
      n == CASE type = 12 -> 7 [] type = 16 -> 9 [] type = 32 -> 12
      root == IF type = 32 THEN 0 ELSE 11
      total == 1 + 2 * spf + root + 2 * n
  IN  [signature |-> TRUE, spc |-> 2, bps |-> 4, fats |-> 2, reserved |-> 1, root_entries |-> root,
       sectors16 |-> IF type = 12 THEN total ELSE 0, sectors32 |-> total,
       spf16 |-> IF type = 32 THEN 0 ELSE spf, spf32 |-> spf,
       root_cluster |-> IF type = 32 THEN 2 ELSE 0, active |-> IF type = 32 THEN 1 ELSE -1]

Width(type) == CASE type = 12 -> 3 [] type = 16 -> 4 [] type = 32 -> 8

(* The value of each entry, with the file's last cluster leading to after  *)
Value(type, c, after) ==
  CASE c = 5 -> 3
    [] c = 3 -> after
    [] c = 4 -> Base^(IF type = 32 THEN 7 ELSE Width(type)) - 1
    [] type = 32 /\ c \in {2, 6, 7, 8, 9} -> IF c = 2 THEN 6 ELSE IF c = 9 THEN Base^7 - 1 ELSE c + 1
    [] OTHER -> 0

FatStarts(type) == LET g == Geometry(type) IN (g.reserved + (IF type = 32 THEN g.spf32 ELSE 0)) * g.bps

FatDigits(type, after) ==
  LET w == Width(type)
      at == 2 * FatStarts(type)
      n == 2 * Geometry(type).spf32 * 4
  IN  [p \in 1 .. at + n |-> IF p <= at THEN 0
       ELSE IF (p - at - 1) % w = 7 THEN 1 ELSE (Value(type, (p - at - 1) \div w, after) \div Base^((p - at - 1) % w)) % Base]

Volume(type, noise, after, size) ==
  LET root == RootOf(noise, size)
      sub == <<Lfn(1, TRUE, 4, "Z"), Entry("z", "file", 0, 0)>>
  IN  [bpb |-> Geometry(type), sectors |-> Geometry(type).sectors32, bad |-> {}, worn |-> {}, lost |-> {},
       fat |-> FatDigits(type, after), root |-> root, label |-> "v",
       dirs |-> [c \in {4, 2, 6, 7, 8, 9} |->
                   IF c = 4 THEN sub ELSE LET i == IF c = 2 THEN 1 ELSE 2 * c - 9 IN <<root[i], root[i + 1]>>],
       tree |-> Tree(noise, size)]

Last32(type) == Base^(IF type = 32 THEN 7 ELSE Width(type)) - 1
Whole(type) == Volume(type, << >>, Last32(type), 10)

Types == {12, 16, 32}
AllFiles == {1, 2, 3, 4, 5, 9}

Sound == {Volume(t, noise, Last32(t), 10) : t \in Types, noise \in Noises} \cup {[Whole(t) EXCEPT !.sectors = -1] : t \in Types}

Chains ==
  {[Volume(t, << >>, after, 10) EXCEPT !.lost = {1}] : t \in Types, after \in {5, 3, 15, 59}}
  \cup {[Volume(t, << >>, 5, 10) EXCEPT !.sectors = -1, !.lost = {1}] : t \in Types}
  \cup {[Volume(t, << >>, after, 10) EXCEPT !.lost = {}] : t \in Types, after \in {0, 1}}
  \cup {[Volume(t, << >>, Last32(t), 17) EXCEPT !.lost = {1}] : t \in Types}

DataAt(t, c) == LET g == Geometry(t) IN (g.reserved + 2 * g.spf32 + g.root_entries + 2 * (c - 2)) * g.bps

Media ==
  {[Whole(t) EXCEPT !.sectors = (DataAt(t, 5) \div EntrySize), !.lost = IF t = 32 THEN AllFiles ELSE {1}] : t \in Types}
  \cup {[Whole(t) EXCEPT !.sectors = (DataAt(t, 2) \div EntrySize), !.lost = IF t = 32 THEN AllFiles ELSE {1, 2, 3}] : t \in Types}
  \cup {[Whole(t) EXCEPT !.bad = {DataAt(t, 3) + 1}] : t \in Types}
  \cup {[Whole(t) EXCEPT !.bad = {FatStarts(t) + (3 * Width(t)) \div 2}, !.lost = {1}] : t \in {16, 32}}
  \cup {[Whole(t) EXCEPT !.worn = {FatStarts(t) + (c * Width(t)) \div 2}, !.lost = IF c = 4 THEN {3} ELSE {1}] : t \in Types, c \in {3, 4, 5}}
  \cup {[Whole(t) EXCEPT !.bad = {DataAt(t, 2) - 1}, !.lost = AllFiles] : t \in {12, 16}}
  \cup {[Whole(t) EXCEPT !.bad = {0}, !.lost = AllFiles] : t \in Types}

Geometries ==
  {[Whole(t) EXCEPT !.bpb = g, !.lost = AllFiles] : t \in {12},
     g \in LET b == Geometry(12)
           IN  {[b EXCEPT !.signature = FALSE], [b EXCEPT !.spc = 3], [b EXCEPT !.bps = 5], [b EXCEPT !.fats = 0],
                [b EXCEPT !.fats = 5], [b EXCEPT !.reserved = 0], [b EXCEPT !.sectors16 = 10], [b EXCEPT !.spf16 = 0],
                [b EXCEPT !.root_entries = 0]}}
  \cup {[Whole(32) EXCEPT !.bpb.active = 2, !.lost = AllFiles], [Whole(32) EXCEPT !.bpb.active = -1, !.lost = AllFiles]}

MCVolumes == Sound \cup Chains \cup Media \cup Geometries
=============================================================================
