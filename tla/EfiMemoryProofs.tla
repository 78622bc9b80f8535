-------------------------- MODULE EfiMemoryProofs --------------------------
(***************************************************************************)
(* What the run of EfiMemory.tla checks of the ownership of memory under   *)
(* UEFI, for every memory size and whatever the firmware grants, refuses   *)
(* and changes meanwhile.                                                  *)
(***************************************************************************)
EXTENDS EfiMemory, WellFoundedInduction, TLAPS

\* Most leaves are first-order: Zenon is tried first, then SMT with more than its
\* default time for the arithmetic, and then both again with more time.
USE ZenonT(3), SMTT(20), ZenonT(30), SMTT(90)

Frame == [base: Nat, left: Nat, failed: Nat]

RegionSet == {r \in [base: Nat, top: Nat] : r.base < r.top /\ r.top <= NPages}

Cells(r) == r.base .. r.top - 1

TypeInv ==
  /\ fw \in [Pages -> EfiTypes] /\ granted \subseteq Pages /\ pool \subseteq Pages
  /\ memmap \in Map /\ untouched \in Map /\ recl \subseteq Pages /\ image \subseteq Pages
  /\ regions \subseteq RegionSet
  /\ claim \in Frame /\ outer \in Frame /\ inner \in Frame /\ chunk \in Nat \ {0}
  /\ DOMAIN exit = DOMAIN NoExit

(* The firmware's pages: what it granted, what holds pools and what the    *)
(* loader runs from are apart, and it counts all of them as the loader's   *)
FirmwareInv ==
  /\ \A p \in granted \cup pool \cup ImagePages : fw[p] = "loader"
  /\ granted \cap pool = {} /\ ImagePages \cap (granted \cup pool) = {}
  /\ granted \cap (StackPages \cup {0}) = {}

(* What a map tells of a page the loader does not have is still true, or   *)
(* leaves it to the firmware                                               *)
Told(m, p) ==
  \/ m[p] = "efi_reclaimable" /\ fw[p] # "none"
  \/ m[p] \in {"reserved", "acpi", "none"} /\ m[p] = our_type(fw[p])

Apart == \A r, s \in regions : r # s => Cells(r) \cap Cells(s) = {}

RegionPages == UNION {Cells(r) : r \in regions}

(* The claim is somewhere in an entry: below From it is settled            *)
From ==
  CASE pc = "claim" -> claim.base
    [] pc = "outer" -> outer.base - outer.failed
    [] pc = "inner" -> inner.base - inner.failed

Current == From .. claim.base + claim.left - 1

Unsettled == Current \cup RegionPages

OuterInv ==
  /\ claim.left > 0
  /\ claim.base <= outer.base - outer.failed
  /\ outer.base + outer.left = claim.base + ClaimChunk
  /\ outer.failed > 0 => outer.left = 0 \/ FallbackChunk = 1

InnerInv ==
  /\ outer.failed = 0 /\ OuterChunk > 1
  /\ outer.base <= inner.base - inner.failed
  /\ inner.base + inner.left = outer.base + OuterChunk

Position ==
  /\ claim.base + claim.left <= NPages
  /\ pc \in {"outer", "inner"} => OuterInv
  /\ pc = "inner" => InnerInv

(* Usable is what was granted and what is still to be asked for            *)
Content ==
  /\ Apart /\ Current \cap RegionPages = {}
  /\ granted \cap Unsettled = {}
  /\ {p \in Pages : memmap[p] = "usable"} = granted \cup Unsettled
  /\ \A p \in Pages : IF memmap[p] = "usable" THEN fw[p] # "none" ELSE Told(memmap, p)
  /\ image = {} /\ recl = {}
  /\ \A p \in StackPages \cup {0} : memmap[p] # "usable"

ClaimInv == pc \in {"claim", "outer", "inner"} => Position /\ Content

(* Once it owns memory, its own map and the one it will give back          *)
OwnInv ==
  pc \in Owning =>
    /\ granted = {p \in Pages : untouched[p] = "usable"} \cup image
    /\ \A p \in image : untouched[p] = "reserved"
    /\ pc # "path" => image = {}
    /\ recl \subseteq granted
    /\ \A p \in ImagePages \cup recl : memmap[p] = "bootloader"
    /\ \A p \in granted : memmap[p] \in {"usable", "bootloader", "reserved"}
    /\ \A p \in Pages \ granted :
         Told(untouched, p) /\ (p \notin ImagePages => Told(memmap, p))

ReleaseInv ==
  /\ pc # "freefail"
  /\ pc = "release" =>
       /\ granted = RegionPages \cup image /\ RegionPages \cap image = {}
       /\ Apart
  /\ pc = "started" => granted = image

(* The descriptors of the rebuilt map that describe a page                 *)
Describing(p) == {d \in exit.copy : d.base <= p /\ p < d.top}

Described(p) ==
  IF fw[p] = "none" THEN Describing(p) = {}
  ELSE \E d \in exit.copy :
         /\ Describing(p) = {d}
         /\ d.type = IF p \in granted THEN "conventional" ELSE fw[p]

RebuildInv ==
  /\ pc \in {"getmap", "grow", "growcopy", "leave"} => exit.cur = 0 /\ exit.copy = {}
  /\ pc = "leave" /\ exit.fresh => exit.mmap = fw
  /\ pc = "rebuild" =>
       /\ exit.mmap = fw /\ exit.cur \in 0 .. NPages
       /\ \A p \in Pages : IF p < exit.cur THEN Described(p) ELSE Describing(p) = {}
  /\ pc \in {"exited", "mapped", "raw"} => \A p \in Pages : Described(p)

PublishedInv ==
  \A p \in Pages :
    /\ pc = "mapped" =>
         /\ memmap[p] # "efi_reclaimable"
         /\ p \notin granted \cup ImagePages =>
              memmap[p] \in CASE fw[p] = "conventional" /\ p # 0 -> {"usable"}
                              [] fw[p] = "conventional" /\ p = 0 -> {"usable", "none"}
                              [] fw[p] \in {"loader", "boot"} -> {"bootloader"}
                              [] OTHER -> {our_type(fw[p])}
         /\ p \in ImagePages \cup recl => memmap[p] = "bootloader"
    /\ pc = "raw" =>
         untouched[p] = IF fw[p] \in {"conventional", "loader", "boot"} THEN "usable"
                        ELSE our_type(fw[p])

StartInv ==
  pc = "init" => granted = {} /\ image = {} /\ recl = {} /\ claim = NoFrame

EfiInv ==
  /\ TypeInv /\ StartInv /\ FirmwareInv /\ ClaimInv /\ OwnInv /\ ReleaseInv /\ RebuildInv /\ PublishedInv

-----------------------------------------------------------------------------
(* Least and greatest elements                                             *)

(* A set of naturals has a least element                                   *)
LEMMA Least ==
  ASSUME NEW S \in SUBSET Nat, S # {}
  PROVE  \E x \in S : \A y \in S : x <= y
<1> DEFINE R == OpToRel(<, Nat)
<1>1. IsWellFoundedOn(R, Nat) BY NatLessThanWellFounded
<1>2. PICK x \in S : \A y \in S : ~ (<<y, x>> \in R)
  <2> HIDE DEF R
  <2> QED BY <1>1, WFMin
<1>3. \A y \in S : ~ (y < x)
  <2> SUFFICES ASSUME NEW y \in S, y < x PROVE FALSE OBVIOUS
  <2>1. <<y, x>> \in Nat \X Nat /\ <<y, x>>[1] = y /\ <<y, x>>[2] = x OBVIOUS
  <2>2. <<y, x>> \in R BY <2>1 DEF OpToRel
  <2> QED BY <2>2, <1>2
<1> QED BY <1>3

(* which Min finds                                                         *)
LEMMA MinIs ==
  ASSUME NEW S \in SUBSET Nat, S # {}
  PROVE  Min(S) \in S /\ \A y \in S : Min(S) <= y
BY Least DEF Min

(* Max finds the greatest of a bounded set                                 *)
LEMMA MaxIs ==
  ASSUME NEW S \in SUBSET Nat, NEW n \in Nat, \A x \in S : x <= n, S # {}
  PROVE  Max(S) \in S /\ \A y \in S : y <= Max(S)
<1> DEFINE T == {x \in Nat : \A y \in S : y <= x}
<1>1. T \in SUBSET Nat /\ n \in T OBVIOUS
<1>2. PICK t \in T : \A y \in T : t <= y
  <2> HIDE DEF T
  <2> QED BY <1>1, Least
<1>3. t \in S
  <2> SUFFICES ASSUME t \notin S PROVE FALSE OBVIOUS
  <2>1. \A y \in S : y < t BY <1>2
  <2>2. PICK y \in S : TRUE OBVIOUS
  <2>3. t - 1 \in Nat /\ \A z \in S : z <= t - 1 BY <2>1, <2>2, <1>2
  <2>4. t - 1 \in T BY <2>3
  <2> QED BY <2>4, <1>2
<1>4. \A y \in S : t >= y BY <1>2
<1> QED BY <1>3, <1>4 DEF Max

(* The lesser of two                                                       *)
LEMMA MinPair ==
  ASSUME NEW a \in Int, NEW b \in Int
  PROVE  Min({a, b}) = IF a <= b THEN a ELSE b
BY DEF Min

(* The greater of two                                                      *)
LEMMA MaxPair ==
  ASSUME NEW a \in Int, NEW b \in Int
  PROVE  Max({a, b}) = IF a >= b THEN a ELSE b
BY DEF Max

(* The pages are numbered from 0                                           *)
LEMMA PagesAre == NPages \in Nat \ {0} /\ 0 \in Pages /\ Pages \subseteq Nat /\ \A p : p \in Pages <=> p \in Nat /\ p < NPages
BY EfiMemoryConstants DEF Pages
-----------------------------------------------------------------------------
(* Marking pages of a map                                                  *)

(* Marking pages changes those pages only                                  *)
LEMMA MarkIs ==
  ASSUME NEW m, NEW S, NEW type, NEW p \in Pages
  PROVE  Mark(m, S, type)[p] = IF p \in S THEN type ELSE m[p]
BY DEF Mark

(* and makes a map of the same types                                       *)
LEMMA MarkMap ==
  ASSUME NEW T, NEW m \in [Pages -> T], NEW S, NEW type \in T
  PROVE  Mark(m, S, type) \in [Pages -> T]
BY DEF Mark

(* The run of pages of one type from p on                                  *)
LEMMA RunIs ==
  ASSUME NEW m, NEW p \in Pages
  PROVE  /\ RunTop(m, p) \in Nat /\ p < RunTop(m, p) /\ RunTop(m, p) <= NPages
         /\ \A q \in p .. RunTop(m, p) - 1 : m[q] = m[p]
         /\ RunTop(m, p) < NPages => m[RunTop(m, p)] # m[p]
<1> DEFINE S == {q \in p + 1 .. NPages : q = NPages \/ m[q] # m[p]}
<1>1. p \in Nat /\ NPages \in Nat /\ p < NPages BY PagesAre
<1>2. S \in SUBSET Nat /\ NPages \in S BY <1>1
<1>3. Min(S) \in S /\ \A y \in S : Min(S) <= y
  <2> HIDE DEF S
  <2> QED BY <1>2, MinIs
<1>4. RunTop(m, p) = Min(S) BY DEF RunTop
<1> DEFINE t == Min(S)
<1>5. t \in p + 1 .. NPages /\ (t < NPages => m[t] # m[p]) BY <1>3
<1>6. \A q \in p + 1 .. NPages : q < t => m[q] = m[p] BY <1>3, <1>5, <1>1
<1> HIDE DEF t
<1>7. \A q \in p .. t - 1 : m[q] = m[p] BY <1>6, <1>5, <1>1
<1> QED BY <1>4, <1>5, <1>7, <1>1 DEF t

(* The entries of a type are apart, and together all its pages             *)
LEMMA RegionsAre ==
  ASSUME NEW m, NEW type
  PROVE  /\ Regions(m, type) \subseteq RegionSet
         /\ \A r \in Regions(m, type) : \A p \in Cells(r) : p \in Pages /\ m[p] = type
         /\ \A p \in Pages : m[p] = type => \E r \in Regions(m, type) : p \in Cells(r)
         /\ \A r, s \in Regions(m, type) : r # s => Cells(r) \cap Cells(s) = {}
<1> DEFINE First == {p \in Pages : m[p] = type /\ (p = 0 \/ m[p - 1] # type)}
           At(b) == [base |-> b, top |-> RunTop(m, b)]
<1>0. Regions(m, type) = {At(b) : b \in First} BY DEF Regions
<1>1. ASSUME NEW b \in First
      PROVE  /\ b \in Pages /\ m[b] = type
             /\ At(b) \in RegionSet /\ At(b).base = b /\ At(b).top = RunTop(m, b)
             /\ \A p \in Cells(At(b)) : p \in Pages /\ m[p] = type
  <2>1. b \in Pages /\ b \in Nat /\ m[b] = type BY PagesAre
  <2>2. /\ RunTop(m, b) \in Nat /\ b < RunTop(m, b) /\ RunTop(m, b) <= NPages
        /\ \A q \in b .. RunTop(m, b) - 1 : m[q] = m[b]
    BY <2>1, RunIs
  <2>3. At(b) \in [base: Nat, top: Nat] /\ At(b).base = b /\ At(b).top = RunTop(m, b) BY <2>1, <2>2
  <2>4. At(b) \in RegionSet BY <2>2, <2>3 DEF RegionSet
  <2>5. \A p \in Cells(At(b)) : p \in b .. RunTop(m, b) - 1 BY <2>3 DEF Cells
  <2> HIDE DEF At
  <2>6. \A p \in b .. RunTop(m, b) - 1 : p \in Pages /\ m[p] = type BY <2>1, <2>2, PagesAre
  <2> QED BY <2>1, <2>3, <2>4, <2>5, <2>6
<1>2. ASSUME NEW p \in Pages, m[p] = type
      PROVE  \E b \in First : p \in Cells(At(b))
  <2> DEFINE S == {b \in Pages : b <= p /\ \A q \in b .. p : m[q] = type}
  <2>1. p \in Nat /\ S \in SUBSET Nat /\ p \in S BY <1>2, PagesAre
  <2>2. PICK b \in S : \A y \in S : b <= y
    <3> HIDE DEF S
    <3> QED BY <2>1, Least
  <2>3. b \in Pages /\ b \in Nat /\ b <= p /\ (\A q \in b .. p : m[q] = type) BY <2>2, PagesAre
  <2>4. m[b] = type BY <2>1, <2>3
  <2>5. b # 0 => m[b - 1] # type
    <3> SUFFICES ASSUME b # 0, m[b - 1] = type PROVE FALSE OBVIOUS
    <3>1. b - 1 \in Pages /\ b - 1 <= p BY <2>3, <2>1, PagesAre
    <3>2. \A q \in b - 1 .. p : q = b - 1 \/ q \in b .. p BY <2>1, <2>3
    <3>3. \A q \in b - 1 .. p : m[q] = type BY <3>2, <2>3
    <3>4. b - 1 \in S BY <3>1, <3>3
    <3> QED BY <3>4, <2>2, <2>3
  <2>6. b \in First BY <2>3, <2>4, <2>5
  <2>7. /\ RunTop(m, b) \in Nat /\ b < RunTop(m, b) /\ RunTop(m, b) <= NPages
        /\ RunTop(m, b) < NPages => m[RunTop(m, b)] # m[b]
    BY <2>3, RunIs
  <2>8. p < RunTop(m, b)
    <3> SUFFICES ASSUME RunTop(m, b) <= p PROVE FALSE BY <2>1, <2>7
    <3>1. RunTop(m, b) \in b .. p /\ RunTop(m, b) < NPages BY <2>1, <2>3, <2>7, PagesAre
    <3> QED BY <3>1, <2>3, <2>4, <2>7
  <2>9. p \in Cells(At(b)) BY <2>8, <2>1, <2>3, <2>7 DEF Cells
  <2> QED BY <2>6, <2>9
<1>3. ASSUME NEW b \in First, NEW c \in First, b < c PROVE Cells(At(b)) \cap Cells(At(c)) = {}
  <2>1. b \in Nat /\ c \in Nat /\ c \in Pages /\ c # 0 /\ m[c - 1] # type BY <1>3, PagesAre
  <2>2. /\ RunTop(m, b) \in Nat /\ RunTop(m, c) \in Nat
        /\ \A q \in b .. RunTop(m, b) - 1 : m[q] = m[b]
    BY RunIs
  <2>3. RunTop(m, b) <= c
    <3> SUFFICES ASSUME c < RunTop(m, b) PROVE FALSE BY <2>1, <2>2
    <3>1. c - 1 \in b .. RunTop(m, b) - 1 BY <2>1, <2>2, <1>3
    <3> QED BY <3>1, <2>1, <2>2
  <2> QED BY <2>1, <2>2, <2>3 DEF Cells
<1>4. \A b, c \in First : b \in Nat /\ c \in Nat BY PagesAre
<1>5. \A b, c \in First : b # c => Cells(At(b)) \cap Cells(At(c)) = {}
  <2> SUFFICES ASSUME NEW b \in First, NEW c \in First, b # c PROVE Cells(At(b)) \cap Cells(At(c)) = {}
    OBVIOUS
  <2> HIDE DEF First, At
  <2>1. b < c \/ c < b BY <1>4
  <2>2. CASE b < c BY <2>2, <1>3
  <2>3. CASE c < b BY <2>3, <1>3
  <2> QED BY <2>1, <2>2, <2>3
<1> HIDE DEF First, At
<1>6. Regions(m, type) \subseteq RegionSet BY <1>0, <1>1
<1>7. \A r \in Regions(m, type) : \A p \in Cells(r) : p \in Pages /\ m[p] = type BY <1>0, <1>1
<1>8. \A p \in Pages : m[p] = type => \E r \in Regions(m, type) : p \in Cells(r) BY <1>0, <1>2
<1>9. \A r, s \in Regions(m, type) : r # s => Cells(r) \cap Cells(s) = {} BY <1>0, <1>5
<1> QED BY <1>6, <1>7, <1>8, <1>9

(* An allocation takes usable pages                                        *)
LEMMA AllocIs ==
  ASSUME NEW m, NEW n \in {1, 2}, AllocBases(m, n) # {}
  PROVE  /\ AllocSpan(m, n) \subseteq Pages /\ AllocSpan(m, n) # {}
         /\ \A p \in AllocSpan(m, n) : m[p] = "usable"
<1> DEFINE B == AllocBases(m, n)
           Cut(r) == Min({r.top, Low})
<1>0. Low \in Nat /\ NPages \in Nat BY EfiMemoryConstants
<1>1. ASSUME NEW b \in B
      PROVE  b \in Nat /\ b <= NPages /\ \A p \in b .. b + n - 1 : p \in Pages /\ m[p] = "usable"
  <2>1. PICK r \in Regions(m, "usable") : b = Cut(r) - n /\ r.base <= Cut(r) - n BY DEF AllocBases
  <2>2. r \in RegionSet /\ \A p \in Cells(r) : p \in Pages /\ m[p] = "usable" BY RegionsAre
  <2>3. r.base \in Nat /\ r.top \in Nat /\ r.top <= NPages BY <2>2 DEF RegionSet
  <2>4. Cut(r) = IF r.top <= Low THEN r.top ELSE Low BY <2>3, <1>0, MinPair
  <2> HIDE DEF Cut
  <2>5. Cut(r) \in Nat /\ Cut(r) <= r.top BY <2>3, <2>4, <1>0
  <2>6. b \in Nat /\ b <= NPages /\ r.base <= b /\ b + n <= r.top BY <2>1, <2>3, <2>5, <1>0
  <2>7. \A p \in b .. b + n - 1 : p \in Cells(r) BY <2>6, <2>3 DEF Cells
  <2> QED BY <2>2, <2>6, <2>7
<1>2. B \in SUBSET Nat /\ \A x \in B : x <= NPages BY <1>1
<1>3. Max(B) \in B
  <2> HIDE DEF B
  <2>1. B # {} BY DEF B
  <2> QED BY <1>2, <2>1, <1>0, MaxIs
<1>4. AllocSpan(m, n) = Max(B) .. Max(B) + n - 1 BY DEF AllocSpan, Span
<1> HIDE DEF B
<1>5. Max(B) \in Nat /\ \A p \in Max(B) .. Max(B) + n - 1 : p \in Pages /\ m[p] = "usable" BY <1>1, <1>3
<1>6. Max(B) \in Max(B) .. Max(B) + n - 1 BY <1>5
<1> QED BY <1>4, <1>5, <1>6

-----------------------------------------------------------------------------
(* init_memmap(): the map before anything is claimed                       *)

Good(m) ==
  /\ m \in Map
  /\ \A p \in Pages : m[p] = Imported[p] \/ (m[p] = "efi_reclaimable" /\ Imported[p] = "usable")

(* The map init_memmap() reads has the firmware's types, but page 0 and    *)
(* the firmware's stack are never usable                                   *)
LEMMA ImportedIs ==
  ASSUME fw \in [Pages -> EfiTypes]
  PROVE  /\ Imported \in Map
         /\ \A p \in Pages : \/ Imported[p] = our_type(fw[p])
                             \/ Imported[p] = "efi_reclaimable" /\ our_type(fw[p]) = "usable"
         /\ \A p \in StackPages \cup {0} : Imported[p] # "usable"
<1> DEFINE typed == [p \in Pages |-> our_type(fw[p])]
           null == IF typed[0] = "usable" THEN Mark(typed, {0}, "efi_reclaimable") ELSE typed
           spare == {p \in StackPages : null[p] = "usable"}
<1>1. \A p \in Pages : our_type(fw[p]) \in Types BY DEF our_type, Types, EfiTypes
<1>2. typed \in Map /\ \A p \in Pages : typed[p] = our_type(fw[p]) BY <1>1 DEF Map
<1> HIDE DEF typed
<1>3. 0 \in Pages /\ StackPages \subseteq Pages BY PagesAre, EfiMemoryConstants
<1>4. Mark(typed, {0}, "efi_reclaimable") \in Map BY <1>2, MarkMap DEF Map, Types
<1>5. \A p \in Pages : Mark(typed, {0}, "efi_reclaimable")[p] = IF p = 0 THEN "efi_reclaimable" ELSE typed[p]
  BY MarkIs
<1>6. /\ null \in Map /\ null[0] # "usable"
      /\ \A p \in Pages : null[p] = typed[p] \/ (null[p] = "efi_reclaimable" /\ typed[p] = "usable")
  BY <1>2, <1>3, <1>4, <1>5
<1>7. Imported = Mark(null, spare, "efi_reclaimable") BY DEF Imported, pmm_spare_firmware_stack, typed
<1> HIDE DEF null
<1>8. Imported \in Map BY <1>6, <1>7, MarkMap DEF Map, Types
<1>9. \A p \in Pages : Imported[p] = IF p \in spare THEN "efi_reclaimable" ELSE null[p] BY <1>7, MarkIs
<1> QED BY <1>2, <1>3, <1>6, <1>8, <1>9

(* What is left of the map after the pages for the firmware were set aside *)
LEMMA LeftIs ==
  ASSUME fw \in [Pages -> EfiTypes]
  PROVE  LeftToFirmware = << >> \/ Good(LeftToFirmware)
<1> DEFINE Step(m) == IF m = << >> \/ AllocBases(m, 1) = {} THEN << >>
                      ELSE Mark(m, AllocSpan(m, 1), "efi_reclaimable")
           Is(f, k) == f = [n \in 0 .. k |-> IF n = 0 THEN Imported ELSE Step(f[n - 1])]
           Left == CHOOSE f : Is(f, Reserve)
<1>0. Reserve \in Nat BY EfiMemoryConstants
<1>1. LeftToFirmware = Left[Reserve] BY DEF LeftToFirmware
<1> HIDE DEF Step
<1>2. \A k \in Nat : \E f : Is(f, k)
  <2> DEFINE Bad == {k \in Nat : ~ \E f : Is(f, k)}
  <2> SUFFICES ASSUME Bad # {} PROVE FALSE OBVIOUS
  <2>1. PICK k \in Bad : \A j \in Bad : k <= j
    <3>1. Bad \in SUBSET Nat OBVIOUS
    <3> HIDE DEF Bad
    <3> QED BY <3>1, Least
  <2>2. k \in Nat /\ ~ \E f : Is(f, k) OBVIOUS
  <2>3. k # 0
    <3> SUFFICES ASSUME k = 0 PROVE FALSE OBVIOUS
    <3> DEFINE f == [n \in 0 .. 0 |-> Imported]
    <3>1. Is(f, 0) OBVIOUS
    <3> QED BY <3>1, <2>2
  <2>4. PICK f : Is(f, k - 1)
    <3>1. k - 1 \in Nat /\ ~ (k <= k - 1) BY <2>2, <2>3
    <3>2. k - 1 \notin Bad BY <3>1, <2>1
    <3> QED BY <3>1, <3>2
  <2> DEFINE g == [n \in 0 .. k |-> IF n < k THEN f[n] ELSE Step(f[k - 1])]
  <2>5. \A n \in 0 .. k - 1 : f[n] = IF n = 0 THEN Imported ELSE Step(f[n - 1]) BY <2>4
  <2>6. \A n \in 0 .. k : n # 0 => g[n - 1] = f[n - 1] BY <2>2
  <2>7. \A n \in 0 .. k : g[n] = IF n = 0 THEN Imported ELSE Step(g[n - 1])
    <3> SUFFICES ASSUME NEW n \in 0 .. k PROVE g[n] = IF n = 0 THEN Imported ELSE Step(g[n - 1]) OBVIOUS
    <3>1. CASE n < k
      <4>1. n \in 0 .. k - 1 /\ g[n] = f[n] BY <3>1, <2>2
      <4> HIDE DEF g
      <4> QED BY <4>1, <2>5, <2>6
    <3>2. CASE n = k
      <4>1. n # 0 /\ g[n] = Step(f[n - 1]) BY <3>2, <2>2, <2>3
      <4> HIDE DEF g
      <4> QED BY <4>1, <2>6
    <3> QED BY <3>1, <3>2, <2>2
  <2>8. Is(g, k)
    <3>1. g = [n \in 0 .. k |-> g[n]] OBVIOUS
    <3> HIDE DEF g
    <3> QED BY <3>1, <2>7
  <2> QED BY <2>8, <2>2
<1>3. Is(Left, Reserve)
  <2>1. \E f : Is(f, Reserve) BY <1>2, <1>0
  <2> HIDE DEF Is
  <2> QED BY <2>1
<1> HIDE DEF Left
<1>4. \A n \in 0 .. Reserve : Left[n] = IF n = 0 THEN Imported ELSE Step(Left[n - 1]) BY <1>3
<1> HIDE DEF Is
<1>5. Good(Imported) BY ImportedIs DEF Good
<1>6. ASSUME NEW m, Good(m) PROVE Step(m) = << >> \/ Good(Step(m))
  <2> SUFFICES ASSUME Step(m) # << >> PROVE Good(Step(m)) OBVIOUS
  <2>1. AllocBases(m, 1) # {} /\ Step(m) = Mark(m, AllocSpan(m, 1), "efi_reclaimable") BY DEF Step
  <2>2. \A p \in AllocSpan(m, 1) : m[p] = "usable" BY <2>1, AllocIs
  <2>3. m \in Map BY <1>6 DEF Good
  <2>4. Mark(m, AllocSpan(m, 1), "efi_reclaimable") \in Map BY <2>3, MarkMap DEF Map, Types
  <2>8. Step(m) \in Map BY <2>1, <2>4
  <2>5. \A p \in Pages : Step(m)[p] = IF p \in AllocSpan(m, 1) THEN "efi_reclaimable" ELSE m[p] BY <2>1, MarkIs
  <2> QED BY <1>6, <2>2, <2>8, <2>5 DEF Good
<1>7. \A n \in 0 .. Reserve : Left[n] = << >> \/ Good(Left[n])
  <2> DEFINE Bad == {n \in 0 .. Reserve : ~ (Left[n] = << >> \/ Good(Left[n]))}
  <2> SUFFICES ASSUME Bad # {} PROVE FALSE OBVIOUS
  <2>1. PICK n \in Bad : \A j \in Bad : n <= j
    <3>1. Bad \in SUBSET Nat BY <1>0
    <3> HIDE DEF Bad
    <3> QED BY <3>1, Least
  <2>2. n \in 0 .. Reserve /\ n \in Nat /\ ~ (Left[n] = << >> \/ Good(Left[n])) BY <1>0
  <2>3. n # 0 BY <2>2, <1>4, <1>5
  <2>4. n - 1 \in 0 .. Reserve /\ ~ (n <= n - 1) BY <2>2, <2>3, <1>0
  <2>5. Left[n - 1] = << >> \/ Good(Left[n - 1]) BY <2>4, <2>1
  <2>6. Left[n] = Step(Left[n - 1]) BY <1>4, <2>2, <2>3
  <2>7. Step(<< >>) = << >> BY DEF Step
  <2> HIDE DEF Bad
  <2> QED BY <2>2, <2>5, <2>6, <2>7, <1>6
<1>8. Reserve \in 0 .. Reserve BY <1>0
<1> QED BY <1>1, <1>7, <1>8

-----------------------------------------------------------------------------
(* The invariant holds before the map is read                              *)
LEMMA InitInv == Init => EfiInv
<1> SUFFICES ASSUME Init PROVE EfiInv OBVIOUS
<1> USE DEF Init
<1>1. TypeInv
  <2>1. fw \in [Pages -> EfiTypes] /\ {BufferPage} \subseteq Pages /\ MaxChunk \in Nat \ {0} BY EfiMemoryConstants
  <2>2. NoFrame \in Frame BY DEF NoFrame, Frame
  <2>3. memmap \in Map BY DEF Map, Types
  <2> QED BY <2>1, <2>2, <2>3 DEF TypeInv
<1>2. StartInv /\ ClaimInv /\ OwnInv /\ ReleaseInv /\ RebuildInv /\ PublishedInv
  BY DEF StartInv, ClaimInv, OwnInv, ReleaseInv, RebuildInv, PublishedInv, Owning
<1>3. FirmwareInv BY EfiMemoryConstants DEF FirmwareInv
<1> QED BY <1>1, <1>2, <1>3 DEF EfiInv

(* What the invariant is about once pc is known *)

(* What is known of one stage says nothing outside of it                   *)
LEMMA ElsewhereNext ==
         /\ pc' \notin {"claim", "outer", "inner"} => ClaimInv'
         /\ pc' \notin Owning => OwnInv'
         /\ pc' # "init" => StartInv'
         /\ pc' \notin {"release", "started", "freefail"} => ReleaseInv'
         /\ pc' \notin {"getmap", "grow", "growcopy", "leave", "rebuild", "exited", "mapped", "raw"} => RebuildInv'
         /\ pc' \notin {"mapped", "raw"} => PublishedInv'
BY DEF ClaimInv, OwnInv, StartInv, ReleaseInv, RebuildInv, PublishedInv

(* With its map read and some pages left to the firmware, the loader has   *)
(* all usable entries to claim and nothing granted                         *)
LEMMA ReadMapInv == EfiInv /\ ReadMap => EfiInv'
<1> SUFFICES ASSUME EfiInv, ReadMap PROVE EfiInv' OBVIOUS
<1> DEFINE m == LeftToFirmware
<1>0. TypeInv /\ StartInv /\ FirmwareInv BY DEF EfiInv
<1>1. fw \in [Pages -> EfiTypes] BY <1>0 DEF TypeInv
<1>2. pc = "init" /\ UNCHANGED <<fw, granted, pool, moves, loans, recl, image, claim, outer, inner, chunk, exit>>
  BY DEF ReadMap
<1>3. FirmwareInv' BY <1>0, <1>2 DEF FirmwareInv
<1>4. CASE m = << >>
  <2>1. pc' = "panic" /\ UNCHANGED <<memmap, untouched, regions>> BY <1>4 DEF ReadMap
  <2>2. TypeInv' BY <1>0, <1>2, <2>1 DEF TypeInv
  <2> QED BY <2>1, <2>2, <1>3, ElsewhereNext DEF EfiInv, Owning
<1>5. CASE m # << >>
  <2>1. pc' = "claim" /\ memmap' = m /\ untouched' = m /\ regions' = Regions(m, "usable")
    BY <1>5 DEF ReadMap, UsableEntries
  <2>2. Good(m) BY <1>1, <1>5, LeftIs
  <2> HIDE DEF m
  <2>3. /\ Regions(m, "usable") \subseteq RegionSet
        /\ \A r \in Regions(m, "usable") : \A p \in Cells(r) : p \in Pages /\ m[p] = "usable"
        /\ \A p \in Pages : m[p] = "usable" => \E r \in Regions(m, "usable") : p \in Cells(r)
        /\ \A r, s \in Regions(m, "usable") : r # s => Cells(r) \cap Cells(s) = {}
    BY RegionsAre
  <2>4. TypeInv' BY <1>0, <1>2, <2>1, <2>2, <2>3 DEF TypeInv, Good
  <2>5. granted' = {} /\ image' = {} /\ recl' = {} /\ claim' = NoFrame BY <1>0, <1>2 DEF StartInv
  <2>6. Position'
    <3>1. claim'.base = 0 /\ claim'.left = 0 BY <2>5 DEF NoFrame
    <3>2. NPages \in Nat BY PagesAre
    <3> QED BY <3>1, <3>2, <2>1 DEF Position
  <2>7. Content'
    <3>1. Current' = {}
      <4>1. claim'.base = 0 /\ claim'.left = 0 BY <2>5 DEF NoFrame
      <4>2. From' = 0 BY <2>1, <4>1 DEF From
      <4> QED BY <4>1, <4>2 DEF Current
    <3>2. RegionPages' = {p \in Pages : m[p] = "usable"} BY <2>1, <2>3 DEF RegionPages
    <3>3. Apart' BY <2>1, <2>3 DEF Apart
    <3>4. \A p \in Pages : IF m[p] = "usable" THEN fw[p] # "none" ELSE Told(memmap, p)'
      <4>1. \A p \in Pages : \/ Imported[p] = our_type(fw[p])
                             \/ Imported[p] = "efi_reclaimable" /\ our_type(fw[p]) = "usable"
        BY <1>1, ImportedIs
      <4>2. \A p \in Pages : m[p] = Imported[p] \/ (m[p] = "efi_reclaimable" /\ Imported[p] = "usable")
        BY <2>2 DEF Good
      <4>3. \A p \in Pages : \/ m[p] = our_type(fw[p])
                             \/ m[p] = "efi_reclaimable" /\ our_type(fw[p]) = "usable"
        BY <4>1, <4>2
      <4>4. \A p \in Pages : fw[p] \in EfiTypes BY <1>1
      <4> QED BY <4>3, <4>4, <2>1, <1>2 DEF Told, our_type, EfiTypes
    <3>5. \A p \in StackPages \cup {0} : m[p] # "usable"
      <4>1. StackPages \cup {0} \subseteq Pages BY PagesAre, EfiMemoryConstants
      <4> QED BY <4>1, <1>1, <2>2, ImportedIs DEF Good
    <3> QED BY <3>1, <3>2, <3>3, <3>4, <3>5, <2>1, <2>5, <1>2 DEF Content, Unsettled
  <2>8. ClaimInv' BY <2>6, <2>7 DEF ClaimInv
  <2> QED BY <2>1, <2>4, <2>8, <1>3, ElsewhereNext DEF EfiInv, Owning
<1> QED BY <1>4, <1>5

(* A step of the claim settles pages of the current entry: G are granted,  *)
(* B are left to the firmware                                              *)
LEMMA Settles ==
  ASSUME TypeInv, FirmwareInv, Content,
         pc \in {"claim", "outer", "inner"}, pc' \in {"claim", "outer", "inner"},
         NEW G, NEW B, G \subseteq Current, B \subseteq Current, G \cap B = {},
         \A p \in G : fw[p] = "conventional",
         fw' = Mark(fw, G, "loader"), granted' = granted \cup G,
         memmap' = Mark(memmap, B, "efi_reclaimable"),
         Current' = Current \ (G \cup B),
         UNCHANGED <<pool, untouched, recl, image, regions>>,
         claim' \in Frame, outer' \in Frame, inner' \in Frame, chunk' \in Nat \ {0},
         DOMAIN exit' = DOMAIN NoExit
  PROVE  TypeInv' /\ FirmwareInv' /\ Content'
<1>1. G \subseteq Pages /\ B \subseteq Pages /\ \A p \in G \cup B : memmap[p] = "usable" /\ p \in Unsettled
  BY DEF Content, Unsettled
<1>2. fw \in [Pages -> EfiTypes] /\ memmap \in Map /\ granted \subseteq Pages /\ pool \subseteq Pages BY DEF TypeInv
<1>3. fw' \in [Pages -> EfiTypes] /\ memmap' \in Map
  BY <1>2, MarkMap DEF Map, Types, EfiTypes
<1>4. /\ \A p \in Pages : fw'[p] = IF p \in G THEN "loader" ELSE fw[p]
      /\ \A p \in Pages : memmap'[p] = IF p \in B THEN "efi_reclaimable" ELSE memmap[p]
  BY MarkIs
<1>5. TypeInv' BY <1>1, <1>2, <1>3 DEF TypeInv
<1>6. FirmwareInv'
  <2>0. ImagePages \subseteq Pages BY EfiMemoryConstants
  <2>1. G \cap pool = {} /\ G \cap ImagePages = {} BY DEF FirmwareInv
  <2>2. G \cap (StackPages \cup {0}) = {} BY <1>1 DEF Content
  <2> QED BY <2>0, <2>1, <2>2, <1>1, <1>2, <1>4 DEF FirmwareInv
<1>7. Content'
  <2>1. RegionPages' = RegionPages /\ Apart' BY DEF RegionPages, Apart, Content
  <2>2. Current' \cap RegionPages = {} /\ G \cap RegionPages = {} /\ B \cap RegionPages = {} BY DEF Content
  <2>3. granted' \cap Unsettled' = {} BY <2>1, <2>2 DEF Content, Unsettled
  <2>4. {p \in Pages : memmap[p] = "usable"} = granted \cup Unsettled BY DEF Content
  <2>5. granted \cap B = {} BY <1>1 DEF Content
  <2>6. {p \in Pages : memmap'[p] = "usable"} = {p \in Pages : memmap[p] = "usable"} \ B BY <1>4
  <2>7. {p \in Pages : memmap'[p] = "usable"} = granted' \cup Unsettled'
    BY <2>1, <2>2, <2>4, <2>5, <2>6 DEF Unsettled
  <2>8. \A p \in Pages : IF memmap'[p] = "usable" THEN fw'[p] # "none" ELSE Told(memmap, p)'
    <3> SUFFICES ASSUME NEW p \in Pages
                 PROVE  IF memmap'[p] = "usable" THEN fw'[p] # "none" ELSE Told(memmap, p)' OBVIOUS
    <3>1. IF memmap[p] = "usable" THEN fw[p] # "none" ELSE Told(memmap, p) BY DEF Content
    <3>2. p \in G \cup B => memmap[p] = "usable" BY <1>1
    <3> QED BY <3>1, <3>2, <1>4 DEF Told
  <2>9. \A p \in StackPages \cup {0} : memmap'[p] # "usable"
    <3>1. StackPages \cup {0} \subseteq Pages BY PagesAre, EfiMemoryConstants
    <3> QED BY <3>1, <1>4 DEF Content
  <2> QED BY <2>1, <2>2, <2>3, <2>7, <2>8, <2>9 DEF Content
<1> QED BY <1>5, <1>6, <1>7

(* Marking nothing changes nothing                                         *)
LEMMA NoMark ==
  ASSUME NEW T, NEW m \in [Pages -> T], NEW type
  PROVE  Mark(m, {}, type) = m
BY DEF Mark

(* The next entry to be claimed is apart from the others and was not       *)
(* touched yet                                                             *)
LEMMA NextRegionInv == EfiInv /\ NextRegion => EfiInv'
<1> SUFFICES ASSUME EfiInv, NextRegion PROVE EfiInv' OBVIOUS
<1> DEFINE r == CHOOSE x \in regions : \A o \in regions : x.base <= o.base
<1>0. /\ TypeInv /\ FirmwareInv /\ Position /\ Content /\ pc = "claim" /\ pc' = "claim"
      /\ claim.left = 0 /\ regions # {}
      /\ regions' = regions \ {r}
      /\ claim' = [base |-> r.base, left |-> r.top - r.base, failed |-> 0]
      /\ UNCHANGED <<fw, granted, pool, moves, memmap, untouched, loans, recl, image, outer, inner, chunk, exit>>
  BY DEF EfiInv, ClaimInv, NextRegion, loader
<1>1. regions \subseteq RegionSet BY <1>0 DEF TypeInv
<1>2. r \in regions
  <2> DEFINE S == {o.base : o \in regions}
  <2>1. S \in SUBSET Nat /\ S # {} BY <1>0, <1>1 DEF RegionSet
  <2>2. PICK b \in S : \A y \in S : b <= y
    <3> HIDE DEF S
    <3> QED BY <2>1, Least
  <2>3. \E x \in regions : \A o \in regions : x.base <= o.base BY <2>2
  <2> QED BY <2>3
<1> HIDE DEF r
<1>3. r.base \in Nat /\ r.top \in Nat /\ r.base < r.top /\ r.top <= NPages BY <1>1, <1>2 DEF RegionSet
<1>4. NPages \in Nat BY PagesAre
<1>5. claim' \in Frame /\ claim'.base = r.base /\ claim'.left = r.top - r.base
  BY <1>0, <1>3 DEF Frame
<1>6. TypeInv' BY <1>0, <1>1, <1>5 DEF TypeInv
<1>7. Position' BY <1>0, <1>3, <1>4, <1>5 DEF Position
<1>8. Current = {} /\ Current' = Cells(r)
  <2>1. claim.base \in Nat BY <1>0 DEF TypeInv, Frame
  <2>2. From = claim.base /\ From' = r.base BY <1>0, <1>5 DEF From
  <2> QED BY <2>1, <2>2, <1>0, <1>3, <1>5 DEF Current, Cells
<1>9. RegionPages = Cells(r) \cup RegionPages' /\ Cells(r) \cap RegionPages' = {}
  <2>1. \A s \in regions' : Cells(r) \cap Cells(s) = {} BY <1>0, <1>2 DEF Content, Apart
  <2> QED BY <2>1, <1>0, <1>2 DEF RegionPages
<1>10. Apart' BY <1>0 DEF Content, Apart
<1>11. Unsettled' = Unsettled BY <1>8, <1>9 DEF Unsettled
<1>12. \A p : Told(memmap, p)' <=> Told(memmap, p) BY <1>0 DEF Told
<1>13. Content' BY <1>0, <1>8, <1>9, <1>10, <1>11, <1>12 DEF Content
<1>14. FirmwareInv' BY <1>0 DEF FirmwareInv
<1> QED BY <1>0, <1>6, <1>7, <1>13, <1>14, ElsewhereNext DEF EfiInv, ClaimInv, Owning

(* The chunk asked for is not empty and in the entry                       *)
LEMMA ClaimChunkIs ==
  ASSUME TypeInv, claim.left > 0
  PROVE  ClaimChunk \in Nat /\ 1 <= ClaimChunk /\ ClaimChunk <= claim.left
<1>1. claim.left \in Nat /\ chunk \in Nat \ {0} BY DEF TypeInv, Frame
<1>2. ClaimChunk = IF claim.left <= chunk THEN claim.left ELSE chunk BY <1>1, MinPair DEF ClaimChunk
<1> QED BY <1>1, <1>2

(* So is the chunk of the fallback                                         *)
LEMMA OuterChunkIs ==
  ASSUME TypeInv, outer.left > 0
  PROVE  /\ OuterChunk \in Nat /\ 1 <= OuterChunk /\ OuterChunk <= outer.left
         /\ OuterChunk <= FallbackChunk
         /\ OuterChunk = outer.left \/ OuterChunk = FallbackChunk
<1>1. outer.left \in Nat /\ FallbackChunk \in Nat \ {0} BY EfiMemoryConstants DEF TypeInv, Frame
<1>2. OuterChunk = IF outer.left <= FallbackChunk THEN outer.left ELSE FallbackChunk
  BY <1>1, MinPair DEF OuterChunk
<1> QED BY <1>1, <1>2

(* A loop over pages that goes on keeps its end                            *)
LEMMA FrameSteps ==
  ASSUME NEW f \in Frame, NEW n \in Nat, n <= f.left
  PROVE  /\ Advance(f, n) \in Frame /\ AfterGrant(f, n) \in Frame
         /\ Advance(f, n).base = f.base + n /\ Advance(f, n).left = f.left - n /\ Advance(f, n).failed = f.failed
         /\ AfterGrant(f, n).base = f.base + n /\ AfterGrant(f, n).left = f.left - n /\ AfterGrant(f, n).failed = 0
         /\ n = 1 => /\ AfterRefusal(f) \in Frame
                     /\ AfterRefusal(f).base = f.base + 1 /\ AfterRefusal(f).left = f.left - 1
                     /\ AfterRefusal(f).failed = f.failed + 1
<1>1. f.base \in Nat /\ f.left \in Nat /\ f.failed \in Nat BY DEF Frame
<1>2. f.base + n \in Nat /\ f.left - n \in Nat BY <1>1
<1> DEFINE g == Advance(f, n)
<1>3. g \in Frame /\ g.base = f.base + n /\ g.left = f.left - n /\ g.failed = f.failed
  <2>1. g = [[f EXCEPT !.base = f.base + n] EXCEPT !.left = f.left - n] BY DEF Advance, Frame
  <2> DEFINE h == [f EXCEPT !.base = f.base + n]
  <2>2. h \in Frame /\ h.base = f.base + n /\ h.left = f.left /\ h.failed = f.failed BY <1>1, <1>2 DEF Frame
  <2>3. g = [h EXCEPT !.left = f.left - n] BY <2>1
  <2> HIDE DEF g, h
  <2> QED BY <2>2, <2>3, <1>1, <1>2 DEF Frame
<1>4. AfterGrant(f, n) = [g EXCEPT !.failed = 0] BY DEF AfterGrant
<1>5. n = 1 => AfterRefusal(f) = [g EXCEPT !.failed = f.failed + 1] BY <1>3 DEF AfterRefusal, Frame
<1> HIDE DEF g
<1>6. LET h == AfterGrant(f, n) IN h \in Frame /\ h.base = g.base /\ h.left = g.left /\ h.failed = 0
  BY <1>3, <1>4 DEF Frame
<1>7. n = 1 => LET h == AfterRefusal(f)
               IN  h \in Frame /\ h.base = g.base /\ h.left = g.left /\ h.failed = f.failed + 1
  BY <1>1, <1>3, <1>5 DEF Frame
<1> QED BY <1>3, <1>6, <1>7 DEF g

(* The pieces of a range are apart                                         *)
LEMMA Intervals ==
  ASSUME NEW a \in Int, NEW b \in Int, NEW c \in Int, NEW d \in Int, a <= b, b <= c, c <= d
  PROVE  /\ b .. c - 1 \subseteq a .. d - 1 /\ a .. b - 1 \subseteq a .. d - 1
         /\ (b .. c - 1) \cap (a .. b - 1) = {}
         /\ c .. d - 1 = (a .. d - 1) \ ((b .. c - 1) \cup (a .. b - 1))
OBVIOUS

(* A granted chunk is settled; a refused one is halved or handed to the    *)
(* fallback                                                                *)
LEMMA ClaimPagesInv == EfiInv /\ ClaimPages => EfiInv'
<1> SUFFICES ASSUME EfiInv, ClaimPages PROVE EfiInv' OBVIOUS
<1> DEFINE c == ClaimChunk
           S == Span(claim.base, c)
<1>0. /\ TypeInv /\ FirmwareInv /\ Position /\ Content /\ pc = "claim" /\ claim.left > 0
      /\ UNCHANGED <<pool, moves, untouched, loans, recl, image, regions, inner, exit>> /\ memmap' = memmap
  BY DEF EfiInv, ClaimInv, ClaimPages, loader
<1>1. c \in Nat /\ 1 <= c /\ c <= claim.left BY <1>0, ClaimChunkIs
<1> HIDE DEF c
<1>2. claim \in Frame /\ outer \in Frame /\ inner \in Frame /\ chunk \in Nat \ {0} /\ DOMAIN exit = DOMAIN NoExit
  BY <1>0 DEF TypeInv
<1>3. claim.base \in Nat /\ claim.left \in Nat BY <1>2 DEF Frame
<1>4. NPages \in Nat BY PagesAre
<1>5. fw = Mark(fw, {}, "loader") /\ memmap = Mark(memmap, {}, "efi_reclaimable")
  BY <1>0, NoMark DEF TypeInv, Map
<1>6. Current = claim.base .. claim.base + claim.left - 1 BY <1>0 DEF Current, From
<1>7. CASE AllocatePages(S) /\ claim' = Advance(claim, c) /\ UNCHANGED <<pc, outer, chunk>>
  <2>1. claim' \in Frame /\ claim'.base = claim.base + c /\ claim'.left = claim.left - c
    BY <1>1, <1>2, <1>7, FrameSteps
  <2>2. Position' BY <2>1, <1>0, <1>1, <1>3, <1>4, <1>7 DEF Position
  <2>3. Current' = claim.base + c .. claim.base + claim.left - 1
    <3>1. From' = claim.base + c BY <1>0, <1>7, <2>1 DEF From
    <3>2. claim'.base + claim'.left - 1 = claim.base + claim.left - 1 BY <2>1, <1>1, <1>3
    <3> QED BY <3>1, <3>2 DEF Current
  <2>4. S \subseteq Current /\ Current' = Current \ (S \cup {}) BY <2>3, <1>1, <1>3, <1>6 DEF Span
  <2>5. (\A p \in S : fw[p] = "conventional") /\ fw' = Mark(fw, S, "loader") /\ granted' = granted \cup S
    BY <1>7 DEF AllocatePages, Grantable
  <2> HIDE DEF S
  <2>6. TypeInv' /\ FirmwareInv' /\ Content'
    BY <1>0, <1>2, <1>5, <1>7, <2>1, <2>4, <2>5, Settles
  <2> QED BY <1>0, <1>7, <2>2, <2>6, ElsewhereNext DEF EfiInv, ClaimInv, Owning
<1>8. CASE UNCHANGED <<fw, granted>> /\ chunk' = Halved /\ UNCHANGED <<pc, claim, outer>>
  <2>1. chunk' \in Nat \ {0}
    <3>1. MinChunk \in Nat \ {0} BY EfiMemoryConstants
    <3>2. ClaimChunk \in Nat BY <1>1 DEF c
    <3>3. ClaimChunk \div 2 \in Nat BY <3>2
    <3>4. Max({ClaimChunk \div 2, MinChunk}) = IF ClaimChunk \div 2 >= MinChunk THEN ClaimChunk \div 2 ELSE MinChunk
      BY <3>1, <3>3, MaxPair
    <3>5. Max({ClaimChunk \div 2, MinChunk}) \in Nat \ {0} BY <3>1, <3>3, <3>4
    <3>6. Halved = IF chunk <= Max({ClaimChunk \div 2, MinChunk}) THEN chunk ELSE Max({ClaimChunk \div 2, MinChunk})
      BY <1>2, <3>5, MinPair DEF Halved
    <3> QED BY <1>8, <1>2, <3>5, <3>6
  <2>2. Position' BY <1>0, <1>8 DEF Position
  <2>3. Current' = Current \ ({} \cup {}) BY <1>0, <1>8 DEF Current, From
  <2>4. TypeInv' /\ FirmwareInv' /\ Content'
    <3>1. granted' = granted \cup {} /\ fw' = Mark(fw, {}, "loader") /\ memmap' = Mark(memmap, {}, "efi_reclaimable")
      BY <1>0, <1>5, <1>8
    <3>2. claim' \in Frame /\ outer' \in Frame /\ inner' \in Frame /\ DOMAIN exit' = DOMAIN NoExit BY <1>0, <1>2, <1>8
    <3>3. pc' \in {"claim", "outer", "inner"} BY <1>0, <1>8
    <3> QED BY <1>0, <2>1, <2>3, <3>1, <3>2, <3>3, Settles
  <2> QED BY <1>0, <1>8, <2>2, <2>4, ElsewhereNext DEF EfiInv, ClaimInv, Owning
<1>9. CASE /\ UNCHANGED <<fw, granted>> /\ outer' = [base |-> claim.base, left |-> c, failed |-> 0]
           /\ pc' = "outer" /\ UNCHANGED <<claim, chunk>>
  <2>1. outer' \in Frame /\ outer'.base = claim.base /\ outer'.left = c /\ outer'.failed = 0
    BY <1>1, <1>3, <1>9 DEF Frame
  <2>2. ClaimChunk' = c BY <1>9 DEF c, ClaimChunk
  <2>3. Position' BY <2>1, <2>2, <1>0, <1>3, <1>9 DEF Position, OuterInv
  <2>4. Current' = Current \ ({} \cup {})
    <3>1. From' = claim.base BY <1>9, <2>1, <1>3 DEF From
    <3> QED BY <3>1, <1>6, <1>9 DEF Current
  <2>5. TypeInv' /\ FirmwareInv' /\ Content'
    <3>1. granted' = granted \cup {} /\ fw' = Mark(fw, {}, "loader") /\ memmap' = Mark(memmap, {}, "efi_reclaimable")
      BY <1>0, <1>5, <1>9
    <3>2. claim' \in Frame /\ inner' \in Frame /\ chunk' \in Nat \ {0} /\ DOMAIN exit' = DOMAIN NoExit BY <1>0, <1>2, <1>9
    <3>3. pc' \in {"claim", "outer", "inner"} BY <1>9
    <3> QED BY <1>0, <2>1, <2>4, <3>1, <3>2, <3>3, Settles
  <2> QED BY <1>9, <2>3, <2>5, ElsewhereNext DEF EfiInv, ClaimInv, Owning
<1> QED BY <1>7, <1>8, <1>9 DEF ClaimPages, Refuse, c

(* A granted chunk of the fallback settles it and the pages refused before *)
(* it; a refused one is asked for page by page                             *)
LEMMA FallbackInv == EfiInv /\ Fallback => EfiInv'
<1> SUFFICES ASSUME EfiInv, Fallback PROVE EfiInv' OBVIOUS
<1> DEFINE c == OuterChunk
           S == Span(outer.base, c)
           F == Failed(outer)
<1>0. /\ TypeInv /\ FirmwareInv /\ Position /\ Content /\ pc = "outer" /\ outer.left > 0
      /\ UNCHANGED <<pool, moves, untouched, loans, recl, image, regions, claim, chunk, exit>>
  BY DEF EfiInv, ClaimInv, Fallback
<1>1. c \in Nat /\ 1 <= c /\ c <= outer.left /\ c <= FallbackChunk /\ (c = outer.left \/ c = FallbackChunk) BY <1>0, OuterChunkIs
<1>2. claim \in Frame /\ outer \in Frame /\ inner \in Frame /\ chunk \in Nat \ {0} /\ DOMAIN exit = DOMAIN NoExit
  BY <1>0 DEF TypeInv
<1>3. /\ claim.base \in Nat /\ claim.left \in Nat /\ outer.base \in Nat /\ outer.left \in Nat /\ outer.failed \in Nat
      /\ NPages \in Nat /\ FallbackChunk \in Nat
  BY <1>2, PagesAre, EfiMemoryConstants DEF Frame
<1>4. ClaimChunk \in Nat /\ 1 <= ClaimChunk /\ ClaimChunk <= claim.left BY <1>0, ClaimChunkIs DEF Position, OuterInv
<1>5. fw = Mark(fw, {}, "loader") /\ memmap = Mark(memmap, {}, "efi_reclaimable")
  BY <1>0, NoMark DEF TypeInv, Map
<1>6. Current = outer.base - outer.failed .. claim.base + claim.left - 1 BY <1>0 DEF Current, From
<1>7. /\ claim.left > 0 /\ claim.base <= outer.base - outer.failed
      /\ outer.base + outer.left = claim.base + ClaimChunk
      /\ outer.failed > 0 => outer.left = 0 \/ FallbackChunk = 1
      /\ claim.base + claim.left <= NPages
  BY <1>0 DEF Position, OuterInv
<1>8. ClaimChunk' = ClaimChunk BY <1>0 DEF ClaimChunk
<1> HIDE DEF c
<1>9. CASE /\ AllocatePages(S) /\ memmap' = Mark(memmap, F, "efi_reclaimable")
           /\ outer' = AfterGrant(outer, c) /\ UNCHANGED <<pc, inner>>
  <2>1. outer' \in Frame /\ outer'.base = outer.base + c /\ outer'.left = outer.left - c /\ outer'.failed = 0
    BY <1>1, <1>2, <1>9, FrameSteps
  <2>2. OuterInv'
    <3>1. claim' = claim BY <1>0
    <3> QED BY <2>1, <3>1, <1>1, <1>3, <1>4, <1>7, <1>8 DEF OuterInv
  <2>3. Position' BY <2>2, <1>0, <1>9 DEF Position
  <2>4. Current' = outer.base + c .. claim.base + claim.left - 1
    <3>1. From' = outer.base + c BY <1>0, <1>9, <2>1, <1>1, <1>3 DEF From
    <3> QED BY <3>1, <1>0 DEF Current
  <2>5. S \subseteq Current /\ F \subseteq Current /\ S \cap F = {} /\ Current' = Current \ (S \cup F)
    <3>1. S = outer.base .. (outer.base + c - 1) /\ F = (outer.base - outer.failed) .. (outer.base - 1)
      BY <1>3 DEF Span, Failed
    <3>2. outer.base + c <= claim.base + claim.left BY <1>1, <1>3, <1>4, <1>7
    <3>3. outer.base - outer.failed \in Nat BY <1>3, <1>7
    <3>4. outer.base - outer.failed <= outer.base /\ outer.base <= outer.base + c BY <1>1, <1>3
    <3>5. outer.base - outer.failed \in Int /\ outer.base + c \in Int /\ claim.base + claim.left \in Int
      BY <1>1, <1>3
    <3> DEFINE u == outer.base - outer.failed
               v == outer.base
               w == outer.base + c
               x == claim.base + claim.left
    <3>6. u \in Int /\ v \in Int /\ w \in Int /\ x \in Int /\ u <= v /\ v <= w /\ w <= x BY <3>2, <3>4, <3>5, <1>3
    <3>a. S = v .. w - 1 BY <3>1, <1>1, <1>3
    <3>b. F = u .. v - 1 BY <3>1
    <3>c. Current = u .. x - 1 BY <1>6, <1>3
    <3>d. Current' = w .. x - 1 BY <2>4, <1>1, <1>3
    <3> HIDE DEF S, F, u, v, w, x
    <3>7. S = v .. w - 1 /\ F = u .. v - 1 /\ Current = u .. x - 1 /\ Current' = w .. x - 1 BY <3>a, <3>b, <3>c, <3>d
    <3>8. /\ v .. w - 1 \subseteq u .. x - 1 /\ u .. v - 1 \subseteq u .. x - 1
          /\ (v .. w - 1) \cap (u .. v - 1) = {}
          /\ w .. x - 1 = (u .. x - 1) \ ((v .. w - 1) \cup (u .. v - 1))
      BY <3>6, Intervals
    <3> QED BY <3>7, <3>8
  <2>6. (\A p \in S : fw[p] = "conventional") /\ fw' = Mark(fw, S, "loader") /\ granted' = granted \cup S
    BY <1>9 DEF AllocatePages, Grantable
  <2> HIDE DEF S, F
  <2>7. TypeInv' /\ FirmwareInv' /\ Content'
    <3>1. claim' \in Frame /\ inner' \in Frame /\ chunk' \in Nat \ {0} /\ DOMAIN exit' = DOMAIN NoExit BY <1>0, <1>2, <1>9
    <3>2. pc' \in {"claim", "outer", "inner"} BY <1>0, <1>9
    <3> QED BY <1>0, <1>9, <2>1, <2>5, <2>6, <3>1, <3>2, Settles
  <2> QED BY <1>0, <1>9, <2>3, <2>7, ElsewhereNext DEF EfiInv, ClaimInv, Owning
<1>10. ASSUME UNCHANGED <<fw, granted, memmap>>, outer' \in Frame, inner' \in Frame, Position', Current' = Current,
              pc' \in {"outer", "inner"}
       PROVE  EfiInv'
  <2>1. TypeInv' /\ FirmwareInv' /\ Content'
    <3>1. claim' \in Frame /\ chunk' \in Nat \ {0} /\ DOMAIN exit' = DOMAIN NoExit BY <1>0, <1>2
    <3>2. granted' = granted \cup {} /\ fw' = Mark(fw, {}, "loader") /\ memmap' = Mark(memmap, {}, "efi_reclaimable")
      BY <1>5, <1>10
    <3>3. Current' = Current \ ({} \cup {}) BY <1>10
    <3> QED BY <1>0, <1>10, <3>1, <3>2, <3>3, Settles
  <2> QED BY <1>10, <2>1, ElsewhereNext DEF EfiInv, ClaimInv, Owning
<1>11. CASE /\ UNCHANGED <<fw, granted>> /\ c > 1 /\ inner' = [base |-> outer.base, left |-> c, failed |-> 0]
            /\ pc' = "inner" /\ UNCHANGED <<memmap, outer>>
  <2>1. inner' \in Frame /\ inner'.base = outer.base /\ inner'.left = c /\ inner'.failed = 0
    BY <1>1, <1>3, <1>11 DEF Frame
  <2>2. OuterChunk' = c
    <3>1. outer' = outer BY <1>11
    <3> QED BY <3>1 DEF c, OuterChunk
  <2>3. outer.failed = 0 BY <1>1, <1>3, <1>7, <1>11
  <2>4. InnerInv' BY <2>1, <2>2, <2>3, <1>1, <1>3, <1>11 DEF InnerInv
  <2>5. OuterInv' BY <1>0, <1>7, <1>8, <1>11 DEF OuterInv
  <2>6. Position' BY <2>4, <2>5, <1>0, <1>7 DEF Position
  <2>7. Current' = Current
    <3>1. From' = outer.base BY <1>11, <2>1, <1>3 DEF From
    <3> QED BY <3>1, <2>3, <1>0, <1>3, <1>6 DEF Current
  <2> QED BY <2>1, <2>6, <2>7, <1>2, <1>10, <1>11
<1>12. CASE UNCHANGED <<fw, granted>> /\ c = 1 /\ outer' = AfterRefusal(outer) /\ UNCHANGED <<pc, memmap, inner>>
  <2>1. /\ outer' \in Frame /\ outer'.base = outer.base + 1 /\ outer'.left = outer.left - 1
        /\ outer'.failed = outer.failed + 1
    BY <1>1, <1>2, <1>12, FrameSteps
  <2>2. OuterInv'
    <3>1. claim' = claim BY <1>0
    <3> QED BY <2>1, <3>1, <1>1, <1>3, <1>4, <1>7, <1>8, <1>12 DEF OuterInv
  <2>3. Position' BY <2>2, <1>0, <1>7, <1>12 DEF Position
  <2>4. Current' = Current
    <3>1. From' = outer.base - outer.failed BY <1>0, <1>12, <2>1, <1>3 DEF From
    <3> QED BY <3>1, <1>0, <1>6 DEF Current
  <2> QED BY <2>1, <2>3, <2>4, <1>0, <1>2, <1>10, <1>12
<1> QED BY <1>9, <1>11, <1>12 DEF Fallback, Refuse, c, pmm_mark_uefi_pages_unclaimed

(* So does a granted page; refused pages pile up in front of the next      *)
LEMMA FallbackByPageInv == EfiInv /\ FallbackByPage => EfiInv'
<1> SUFFICES ASSUME EfiInv, FallbackByPage PROVE EfiInv' OBVIOUS
<1> DEFINE S == {inner.base}
           F == Failed(inner)
<1>0. /\ TypeInv /\ FirmwareInv /\ Position /\ Content /\ pc = "inner" /\ pc' = "inner" /\ inner.left > 0
      /\ UNCHANGED <<pool, moves, untouched, loans, recl, image, regions, claim, outer, chunk, exit>>
  BY DEF EfiInv, ClaimInv, FallbackByPage
<1>1. claim \in Frame /\ outer \in Frame /\ inner \in Frame /\ chunk \in Nat \ {0} /\ DOMAIN exit = DOMAIN NoExit
  BY <1>0 DEF TypeInv
<1>2. /\ claim.base \in Nat /\ claim.left \in Nat /\ outer.base \in Nat /\ outer.left \in Nat /\ outer.failed \in Nat
      /\ inner.base \in Nat /\ inner.left \in Nat /\ inner.failed \in Nat /\ NPages \in Nat
  BY <1>1, PagesAre DEF Frame
<1>3. OuterInv /\ InnerInv /\ claim.base + claim.left <= NPages BY <1>0 DEF Position
<1>4. ClaimChunk \in Nat /\ 1 <= ClaimChunk /\ ClaimChunk <= claim.left BY <1>0, <1>3, ClaimChunkIs DEF OuterInv
<1>5. outer.left > 0
  <2>1. CASE outer.left = 0
    <3>1. FallbackChunk \in Nat \ {0} BY EfiMemoryConstants
    <3>2. OuterChunk = 0 BY <2>1, <3>1, MinPair DEF OuterChunk
    <3> QED BY <3>2, <1>3 DEF InnerInv
  <2> QED BY <2>1, <1>2
<1>6. OuterChunk \in Nat /\ OuterChunk <= outer.left BY <1>0, <1>5, OuterChunkIs
<1>7. /\ outer.base <= inner.base - inner.failed /\ inner.base + inner.left = outer.base + OuterChunk
      /\ outer.base + outer.left = claim.base + ClaimChunk
  BY <1>3 DEF InnerInv, OuterInv
<1>8. ClaimChunk' = ClaimChunk /\ OuterChunk' = OuterChunk BY <1>0 DEF ClaimChunk, OuterChunk
<1>9. OuterInv' BY <1>0, <1>3, <1>8 DEF OuterInv
<1>10. Current = inner.base - inner.failed .. claim.base + claim.left - 1 BY <1>0 DEF Current, From
<1>11. inner.left \in Nat /\ 1 \in Nat /\ 1 <= inner.left BY <1>0, <1>2
<1>12. CASE AllocatePages(S) /\ memmap' = Mark(memmap, F, "efi_reclaimable") /\ inner' = AfterGrant(inner, 1)
  <2>1. inner' \in Frame /\ inner'.base = inner.base + 1 /\ inner'.left = inner.left - 1 /\ inner'.failed = 0
    BY <1>1, <1>11, <1>12, FrameSteps
  <2>2. InnerInv'
    <3>1. outer' = outer BY <1>0
    <3>2. outer.failed = 0 /\ OuterChunk > 1 BY <1>3 DEF InnerInv
    <3> QED BY <2>1, <3>1, <3>2, <1>2, <1>6, <1>7, <1>8 DEF InnerInv
  <2>3. Position' BY <2>2, <1>9, <1>0, <1>3 DEF Position
  <2>4. Current' = inner.base + 1 .. claim.base + claim.left - 1
    <3>1. From' = inner.base + 1 BY <1>0, <2>1, <1>2 DEF From
    <3> QED BY <3>1, <1>0 DEF Current
  <2>5. S \subseteq Current /\ F \subseteq Current /\ S \cap F = {} /\ Current' = Current \ (S \cup F)
    <3> DEFINE u == inner.base - inner.failed
               v == inner.base
               w == inner.base + 1
               x == claim.base + claim.left
    <3>1. u \in Int /\ v \in Int /\ w \in Int /\ x \in Int /\ u <= v /\ v <= w /\ w <= x
      BY <1>2, <1>4, <1>6, <1>7, <1>11
    <3>2. S = v .. w - 1 BY <1>2
    <3>3. F = u .. v - 1 BY <1>2 DEF Failed, Span
    <3>4. Current = u .. x - 1 BY <1>10, <1>2
    <3>5. Current' = w .. x - 1 BY <2>4, <1>2
    <3> HIDE DEF S, F, u, v, w, x
    <3>6. /\ v .. w - 1 \subseteq u .. x - 1 /\ u .. v - 1 \subseteq u .. x - 1
          /\ (v .. w - 1) \cap (u .. v - 1) = {}
          /\ w .. x - 1 = (u .. x - 1) \ ((v .. w - 1) \cup (u .. v - 1))
      BY <3>1, Intervals
    <3> QED BY <3>2, <3>3, <3>4, <3>5, <3>6
  <2>6. (\A p \in S : fw[p] = "conventional") /\ fw' = Mark(fw, S, "loader") /\ granted' = granted \cup S
    BY <1>12 DEF AllocatePages, Grantable
  <2> HIDE DEF S, F
  <2>7. TypeInv' /\ FirmwareInv' /\ Content'
    <3>1. claim' \in Frame /\ outer' \in Frame /\ chunk' \in Nat \ {0} /\ DOMAIN exit' = DOMAIN NoExit BY <1>0, <1>1
    <3>2. pc' \in {"claim", "outer", "inner"} BY <1>0
    <3> QED BY <1>0, <1>12, <2>1, <2>5, <2>6, <3>1, <3>2, Settles
  <2> QED BY <1>0, <2>3, <2>7, ElsewhereNext DEF EfiInv, ClaimInv, Owning
<1>13. CASE UNCHANGED <<fw, granted, memmap>> /\ inner' = AfterRefusal(inner)
  <2>1. /\ inner' \in Frame /\ inner'.base = inner.base + 1 /\ inner'.left = inner.left - 1
        /\ inner'.failed = inner.failed + 1
    BY <1>1, <1>11, <1>13, FrameSteps
  <2>2. InnerInv'
    <3>1. outer' = outer BY <1>0
    <3>2. outer.failed = 0 /\ OuterChunk > 1 BY <1>3 DEF InnerInv
    <3> QED BY <2>1, <3>1, <3>2, <1>2, <1>6, <1>7, <1>8 DEF InnerInv
  <2>3. Position' BY <2>2, <1>9, <1>0, <1>3 DEF Position
  <2>4. Current' = Current \ ({} \cup {})
    <3>1. From' = inner.base - inner.failed BY <1>0, <2>1, <1>2 DEF From
    <3> QED BY <3>1, <1>0, <1>10 DEF Current
  <2>5. TypeInv' /\ FirmwareInv' /\ Content'
    <3>1. claim' \in Frame /\ outer' \in Frame /\ chunk' \in Nat \ {0} /\ DOMAIN exit' = DOMAIN NoExit BY <1>0, <1>1
    <3>2. fw = Mark(fw, {}, "loader") /\ memmap = Mark(memmap, {}, "efi_reclaimable")
      BY <1>0, NoMark DEF TypeInv, Map
    <3>3. granted' = granted \cup {} /\ fw' = Mark(fw, {}, "loader") /\ memmap' = Mark(memmap, {}, "efi_reclaimable")
      BY <1>13, <3>2
    <3>4. pc' \in {"claim", "outer", "inner"} BY <1>0
    <3> QED BY <1>0, <2>1, <2>4, <3>1, <3>3, <3>4, Settles
  <2> QED BY <1>0, <2>3, <2>5, ElsewhereNext DEF EfiInv, ClaimInv, Owning
<1> QED BY <1>12, <1>13 DEF FallbackByPage, Refuse, pmm_mark_uefi_pages_unclaimed

(* The pages refused last go back to the firmware when the loop over pages *)
(* ends                                                                    *)
LEMMA FallbackByPageReturnsInv == EfiInv /\ FallbackByPageReturns => EfiInv'
<1> SUFFICES ASSUME EfiInv, FallbackByPageReturns PROVE EfiInv' OBVIOUS
<1> DEFINE F == Failed(inner)
<1>0. /\ TypeInv /\ FirmwareInv /\ Position /\ Content /\ pc = "inner" /\ pc' = "outer" /\ inner.left = 0
      /\ memmap' = Mark(memmap, F, "efi_reclaimable") /\ inner' = NoFrame /\ outer' = Advance(outer, OuterChunk)
      /\ UNCHANGED <<fw, granted, pool, moves, untouched, loans, recl, image, regions, claim, chunk, exit>>
  BY DEF EfiInv, ClaimInv, FallbackByPageReturns, LastRefused, pmm_mark_uefi_pages_unclaimed
<1>1. claim \in Frame /\ outer \in Frame /\ inner \in Frame /\ chunk \in Nat \ {0} /\ DOMAIN exit = DOMAIN NoExit
  BY <1>0 DEF TypeInv
<1>2. /\ claim.base \in Nat /\ claim.left \in Nat /\ outer.base \in Nat /\ outer.left \in Nat /\ outer.failed \in Nat
      /\ inner.base \in Nat /\ inner.left \in Nat /\ inner.failed \in Nat /\ NPages \in Nat
  BY <1>1, PagesAre DEF Frame
<1>3. OuterInv /\ InnerInv /\ claim.base + claim.left <= NPages BY <1>0 DEF Position
<1>4. ClaimChunk \in Nat /\ 1 <= ClaimChunk /\ ClaimChunk <= claim.left BY <1>0, <1>3, ClaimChunkIs DEF OuterInv
<1>5. outer.left > 0
  <2>1. CASE outer.left = 0
    <3>1. FallbackChunk \in Nat \ {0} BY EfiMemoryConstants
    <3>2. OuterChunk = 0 BY <2>1, <3>1, MinPair DEF OuterChunk
    <3> QED BY <3>2, <1>3 DEF InnerInv
  <2> QED BY <2>1, <1>2
<1>6. OuterChunk \in Nat /\ OuterChunk <= outer.left BY <1>0, <1>5, OuterChunkIs
<1>7. /\ outer.base <= inner.base - inner.failed /\ inner.base = outer.base + OuterChunk
      /\ outer.base + outer.left = claim.base + ClaimChunk /\ outer.failed = 0 /\ claim.base <= outer.base
  BY <1>0, <1>2, <1>3 DEF InnerInv, OuterInv
<1>8. ClaimChunk' = ClaimChunk BY <1>0 DEF ClaimChunk
<1>9. /\ outer' \in Frame /\ outer'.base = outer.base + OuterChunk /\ outer'.left = outer.left - OuterChunk
      /\ outer'.failed = 0
  BY <1>0, <1>1, <1>6, <1>7, FrameSteps
<1>10. OuterInv'
  <2>1. claim' = claim BY <1>0
  <2>2. claim.left > 0 BY <1>3 DEF OuterInv
  <2> QED BY <2>1, <2>2, <1>2, <1>4, <1>6, <1>7, <1>8, <1>9 DEF OuterInv
<1>11. Position' BY <1>10, <1>0, <1>3 DEF Position
<1>12. F \subseteq Current /\ Current' = Current \ ({} \cup F)
  <2> DEFINE u == inner.base - inner.failed
             v == inner.base
             x == claim.base + claim.left
  <2>1. u \in Int /\ v \in Int /\ x \in Int /\ u <= v /\ v <= x BY <1>2, <1>4, <1>6, <1>7
  <2>2. F = u .. v - 1 BY <1>2 DEF Failed, Span
  <2>3. Current = u .. x - 1 BY <1>0, <1>2 DEF Current, From
  <2>4. From' = inner.base BY <1>0, <1>2, <1>6, <1>7, <1>9 DEF From
  <2>5. Current' = v .. x - 1 BY <2>4, <1>0, <1>2 DEF Current
  <2> HIDE DEF F, u, v, x
  <2>6. u .. v - 1 \subseteq u .. x - 1 /\ v .. x - 1 = (u .. x - 1) \ ({} \cup (u .. v - 1)) BY <2>1
  <2> QED BY <2>2, <2>3, <2>5, <2>6
<1>13. TypeInv' /\ FirmwareInv' /\ Content'
  <2>1. /\ claim' \in Frame /\ inner' \in Frame /\ chunk' \in Nat \ {0} /\ DOMAIN exit' = DOMAIN NoExit
    BY <1>0, <1>1 DEF NoFrame, Frame
  <2>2. fw' = Mark(fw, {}, "loader") /\ granted' = granted \cup {} BY <1>0, NoMark DEF TypeInv
  <2>3. pc' \in {"claim", "outer", "inner"} BY <1>0
  <2> HIDE DEF F
  <2> QED BY <1>0, <1>9, <1>12, <2>1, <2>2, <2>3, Settles
<1> QED BY <1>0, <1>11, <1>13, ElsewhereNext DEF EfiInv, ClaimInv, Owning

(* and when the fallback ends, from where the claim goes on behind its     *)
(* chunk                                                                   *)
LEMMA FallbackReturnsInv == EfiInv /\ FallbackReturns => EfiInv'
<1> SUFFICES ASSUME EfiInv, FallbackReturns PROVE EfiInv' OBVIOUS
<1> DEFINE F == Failed(outer)
<1>0. /\ TypeInv /\ FirmwareInv /\ Position /\ Content /\ pc = "outer" /\ pc' = "claim" /\ outer.left = 0
      /\ memmap' = Mark(memmap, F, "efi_reclaimable") /\ outer' = NoFrame /\ claim' = Advance(claim, ClaimChunk)
      /\ UNCHANGED <<fw, granted, pool, moves, untouched, loans, recl, image, regions, inner, chunk, exit>>
  BY DEF EfiInv, ClaimInv, FallbackReturns, LastRefused, pmm_mark_uefi_pages_unclaimed
<1>1. claim \in Frame /\ outer \in Frame /\ inner \in Frame /\ chunk \in Nat \ {0} /\ DOMAIN exit = DOMAIN NoExit
  BY <1>0 DEF TypeInv
<1>2. /\ claim.base \in Nat /\ claim.left \in Nat /\ outer.base \in Nat /\ outer.left \in Nat /\ outer.failed \in Nat
      /\ NPages \in Nat
  BY <1>1, PagesAre DEF Frame
<1>3. OuterInv /\ claim.base + claim.left <= NPages BY <1>0 DEF Position
<1>4. ClaimChunk \in Nat /\ 1 <= ClaimChunk /\ ClaimChunk <= claim.left BY <1>0, <1>3, ClaimChunkIs DEF OuterInv
<1>5. claim.base <= outer.base - outer.failed /\ outer.base = claim.base + ClaimChunk
  BY <1>0, <1>2, <1>3 DEF OuterInv
<1>6. claim' \in Frame /\ claim'.base = claim.base + ClaimChunk /\ claim'.left = claim.left - ClaimChunk
  BY <1>0, <1>1, <1>4, FrameSteps
<1>7. Position' BY <1>0, <1>2, <1>3, <1>4, <1>6 DEF Position
<1>8. F \subseteq Current /\ Current' = Current \ ({} \cup F)
  <2> DEFINE u == outer.base - outer.failed
             v == outer.base
             x == claim.base + claim.left
  <2>1. u \in Int /\ v \in Int /\ x \in Int /\ u <= v /\ v <= x BY <1>2, <1>4, <1>5
  <2>2. F = u .. v - 1 BY <1>2 DEF Failed, Span
  <2>3. Current = u .. x - 1 BY <1>0, <1>2 DEF Current, From
  <2>4. From' = outer.base BY <1>0, <1>2, <1>5, <1>6 DEF From
  <2>5. claim'.base + claim'.left - 1 = x - 1 BY <1>2, <1>4, <1>6
  <2>6. Current' = v .. x - 1 BY <2>4, <2>5 DEF Current
  <2> HIDE DEF F, u, v, x
  <2>7. u .. v - 1 \subseteq u .. x - 1 /\ v .. x - 1 = (u .. x - 1) \ ({} \cup (u .. v - 1)) BY <2>1
  <2> QED BY <2>2, <2>3, <2>6, <2>7
<1>9. TypeInv' /\ FirmwareInv' /\ Content'
  <2>1. /\ outer' \in Frame /\ inner' \in Frame /\ chunk' \in Nat \ {0} /\ DOMAIN exit' = DOMAIN NoExit
    BY <1>0, <1>1 DEF NoFrame, Frame
  <2>2. fw' = Mark(fw, {}, "loader") /\ granted' = granted \cup {} BY <1>0, NoMark DEF TypeInv
  <2>3. pc' \in {"claim", "outer", "inner"} BY <1>0
  <2> HIDE DEF F
  <2> QED BY <1>0, <1>6, <1>8, <2>1, <2>2, <2>3, Settles
<1> QED BY <1>0, <1>7, <1>9, ElsewhereNext DEF EfiInv, ClaimInv, Owning

(* When everything is claimed, what the map calls usable is what was       *)
(* granted, and the loader's image is its own                              *)
LEMMA OwnImageInv == EfiInv /\ OwnImage => EfiInv'
<1> SUFFICES ASSUME EfiInv, OwnImage PROVE EfiInv' OBVIOUS
<1> DEFINE own == Mark(memmap, ImagePages, "bootloader")
           S == AllocSpan(own, 1)
<1>0. /\ TypeInv /\ FirmwareInv /\ Position /\ Content /\ pc = "claim" /\ claim.left = 0 /\ regions = {}
      /\ untouched' = memmap /\ claim' = NoFrame
      /\ UNCHANGED <<fw, granted, pool, moves, loans, image, regions, outer, inner, chunk, exit>>
  BY DEF EfiInv, ClaimInv, OwnImage
<1>1. FirmwareInv' BY <1>0 DEF FirmwareInv
<1>2. own \in Map /\ memmap \in Map BY <1>0, MarkMap DEF TypeInv, Map, Types
<1>3. \A p \in Pages : own[p] = IF p \in ImagePages THEN "bootloader" ELSE memmap[p] BY MarkIs
<1>4. NoFrame \in Frame BY DEF NoFrame, Frame
<1> HIDE DEF own
<1>5. CASE AllocBases(own, 1) = {}
  <2>1. pc' = "panic" /\ memmap' = own /\ UNCHANGED recl BY <1>5 DEF OwnImage, own
  <2>2. TypeInv' BY <1>0, <1>2, <1>4, <2>1 DEF TypeInv
  <2> QED BY <1>1, <2>1, <2>2, ElsewhereNext DEF EfiInv, Owning
<1>6. CASE AllocBases(own, 1) # {}
  <2>1. pc' = "run" /\ recl' = S /\ memmap' = Mark(own, S, "bootloader") BY <1>6 DEF OwnImage, own
  <2>2. S \subseteq Pages /\ \A p \in S : own[p] = "usable" BY <1>6, AllocIs
  <2> HIDE DEF S
  <2>15. Mark(own, S, "bootloader") \in Map BY <1>2, MarkMap DEF Map, Types
  <2>3. memmap' \in Map BY <2>1, <2>15
  <2>4. TypeInv' BY <1>0, <1>2, <1>4, <2>1, <2>2, <2>3 DEF TypeInv
  <2>5. \A p \in Pages : memmap'[p] = IF p \in S THEN "bootloader" ELSE own[p] BY <2>1, MarkIs
  <2>6. granted = {p \in Pages : memmap[p] = "usable"} /\ image = {}
    <3>1. claim.base \in Nat BY <1>0 DEF TypeInv, Frame
    <3>2. From = claim.base BY <1>0 DEF From
    <3>3. Current = {} BY <3>1, <3>2, <1>0 DEF Current
    <3>4. RegionPages = {} BY <1>0 DEF RegionPages
    <3> QED BY <3>3, <3>4, <1>0 DEF Content, Unsettled
  <2>7. ImagePages \cap granted = {} /\ ImagePages \subseteq Pages BY <1>0, EfiMemoryConstants DEF FirmwareInv
  <2>8. S \subseteq granted /\ S \cap ImagePages = {} BY <2>2, <2>6, <1>3
  <2>9. \A p \in Pages \ granted : Told(memmap, p) BY <1>0, <2>6 DEF Content
  <2>10. \A p \in Pages \ granted : Told(untouched, p)' /\ (p \notin ImagePages => Told(memmap, p)')
    BY <2>5, <2>8, <2>9, <1>0, <1>3 DEF Told
  <2>11. \A p \in granted : memmap'[p] \in {"usable", "bootloader", "reserved"}
    BY <2>5, <2>6, <2>7, <1>3
  <2>12. \A p \in ImagePages \cup S : memmap'[p] = "bootloader" BY <2>2, <2>5, <2>7, <1>3
  <2>13. OwnInv' BY <1>0, <2>1, <2>6, <2>8, <2>10, <2>11, <2>12 DEF OwnInv
  <2> QED BY <1>1, <2>1, <2>4, <2>13, ElsewhereNext DEF EfiInv, Owning
<1> QED BY <1>5, <1>6

-----------------------------------------------------------------------------
(* What happens out of the memory that was claimed                         *)

(* What the loader may use is granted or its image                         *)
LEMMA UsableIsGranted ==
  ASSUME OwnInv, pc \in Owning, NEW p \in Pages, memmap[p] \in {"usable", "bootloader"}, p \notin ImagePages
  PROVE  p \in granted
BY DEF OwnInv, Told

(* The loader marks pages it was granted, not those of its image           *)
LEMMA MarksOwn ==
  ASSUME EfiInv, pc \in Owning, pc' = pc, NEW S, S \subseteq granted, S \cap recl = {},
         NEW type \in {"usable", "bootloader", "reserved"},
         memmap' = Mark(memmap, S, type),
         UNCHANGED <<fw, granted, pool, untouched, recl, image, claiming, exit>>
  PROVE  EfiInv'
<1>0. TypeInv /\ FirmwareInv /\ OwnInv /\ RebuildInv BY DEF EfiInv
<1>1. memmap' \in Map
  <2>1. memmap \in [Pages -> Types] /\ type \in Types BY <1>0 DEF TypeInv, Map, Types
  <2> QED BY <2>1, MarkMap DEF Map
<1>2. \A p \in Pages : memmap'[p] = IF p \in S THEN type ELSE memmap[p] BY MarkIs
<1>3. granted \subseteq Pages /\ ImagePages \subseteq Pages /\ ImagePages \cap granted = {} /\ recl \subseteq Pages
  BY <1>0, EfiMemoryConstants DEF TypeInv, FirmwareInv
<1>4. TypeInv' BY <1>0, <1>1 DEF TypeInv, claiming
<1>5. FirmwareInv' BY <1>0 DEF FirmwareInv
<1>6. OwnInv'
  <2>1. \A p \in Pages \ granted : Told(untouched, p)' /\ (p \notin ImagePages => Told(memmap, p)')
    BY <1>0, <1>2 DEF OwnInv, Told
  <2>2. \A p \in granted : memmap'[p] \in {"usable", "bootloader", "reserved"} BY <1>0, <1>2, <1>3 DEF OwnInv
  <2>3. \A p \in ImagePages \cup recl : memmap'[p] = "bootloader" BY <1>0, <1>2, <1>3 DEF OwnInv
  <2> QED BY <1>0, <2>1, <2>2, <2>3 DEF OwnInv
<1>7. RebuildInv'
  <2>1. \A p : Described(p)' <=> Described(p) BY DEF Described, Describing
  <2>2. \A p : Describing(p)' = Describing(p) BY DEF Describing
  <2> QED BY <1>0, <2>1, <2>2 DEF RebuildInv
<1> QED BY <1>4, <1>5, <1>6, <1>7, ElsewhereNext DEF EfiInv, Owning

(* pmm_alloc() takes granted pages                                         *)
LEMMA AllocInv ==
  ASSUME EfiInv, NEW n \in {1, 2}, NEW type \in {"bootloader", "reserved"}, Alloc(n, type)
  PROVE  EfiInv'
<1> DEFINE S == AllocSpan(memmap, n)
<1>1. /\ pc \in Owning /\ pc' = pc /\ AllocBases(memmap, n) # {} /\ memmap' = Mark(memmap, S, type)
      /\ UNCHANGED <<fw, granted, pool, untouched, recl, image, claiming, exit>>
  BY DEF Alloc, Owning
<1>2. S \subseteq Pages /\ \A p \in S : memmap[p] = "usable" BY <1>1, AllocIs
<1> HIDE DEF S
<1>3. OwnInv /\ \A p \in ImagePages \cup recl : memmap[p] = "bootloader" BY <1>1 DEF EfiInv, OwnInv
<1>4. S \subseteq granted /\ S \cap recl = {} BY <1>1, <1>2, <1>3, UsableIsGranted
<1> QED BY <1>1, <1>4, MarksOwn

(* pmm_free() gives back what was granted                                  *)
LEMMA FreeInv ==
  ASSUME EfiInv, NEW p \in Pages, pmm_free(p)
  PROVE  EfiInv'
<1>1. /\ pc \in Owning /\ pc' = pc /\ memmap' = Mark(memmap, {p}, "usable")
      /\ memmap[p] = "bootloader" /\ p \notin ImagePages /\ p \notin recl
      /\ UNCHANGED <<fw, granted, pool, untouched, recl, image, claiming, exit>>
  BY DEF pmm_free, Owning
<1>2. OwnInv BY DEF EfiInv
<1>3. p \in granted BY <1>1, <1>2, UsableIsGranted
<1>4. {p} \subseteq granted /\ {p} \cap recl = {} BY <1>1, <1>3
<1> QED BY <1>1, <1>4, MarksOwn

(* The image to be chainloaded is put into granted pages, which leave both *)
(* maps                                                                    *)
LEMMA ChainloadReadInv ==
  ASSUME EfiInv, NEW n \in {1, 2}, ChainloadRead(n)
  PROVE  EfiInv'
<1> DEFINE S == AllocSpan(memmap, n)
<1>0. /\ TypeInv /\ FirmwareInv /\ OwnInv /\ pc = "run" /\ AllocBases(memmap, n) # {} /\ image' = S
      /\ memmap' = Mark(memmap, S, "reserved")
      /\ UNCHANGED <<fw, granted, pool, moves, loans, recl, claiming, exit>>
      /\ \/ pc' = "path" /\ untouched' = Mark(untouched, S, "reserved")
         \/ pc' = "panic" /\ UNCHANGED untouched
  BY DEF EfiInv, ChainloadRead, KeepImage
<1>1. S \subseteq Pages /\ \A p \in S : memmap[p] = "usable" BY <1>0, AllocIs
<1> HIDE DEF S
<1>2. memmap' \in Map /\ untouched' \in Map
  <2>1. memmap \in [Pages -> Types] /\ untouched \in [Pages -> Types] /\ "reserved" \in Types
    BY <1>0 DEF TypeInv, Map, Types
  <2>2. Mark(memmap, S, "reserved") \in Map /\ Mark(untouched, S, "reserved") \in Map BY <2>1, MarkMap DEF Map
  <2> QED BY <1>0, <2>2 DEF TypeInv
<1>3. TypeInv' BY <1>0, <1>1, <1>2 DEF TypeInv, claiming
<1>4. FirmwareInv' BY <1>0 DEF FirmwareInv
<1>5. CASE pc' = "panic" BY <1>3, <1>4, <1>5, ElsewhereNext DEF EfiInv, Owning
<1>6. CASE pc' = "path" /\ untouched' = Mark(untouched, S, "reserved")
  <2>1. \A p \in Pages : memmap'[p] = IF p \in S THEN "reserved" ELSE memmap[p] BY <1>0, MarkIs
  <2>2. \A p \in Pages : untouched'[p] = IF p \in S THEN "reserved" ELSE untouched[p] BY <1>6, MarkIs
  <2>3. /\ granted = {p \in Pages : untouched[p] = "usable"} /\ recl \subseteq granted
        /\ \A p \in ImagePages \cup recl : memmap[p] = "bootloader"
        /\ \A p \in granted : memmap[p] \in {"usable", "bootloader", "reserved"}
        /\ \A p \in Pages \ granted : Told(untouched, p) /\ (p \notin ImagePages => Told(memmap, p))
        /\ pc \in Owning
    BY <1>0 DEF OwnInv, Owning
  <2>4. S \subseteq granted /\ S \cap recl = {} BY <1>0, <1>1, <2>3, UsableIsGranted
  <2>5. ImagePages \cap granted = {} /\ granted \subseteq Pages /\ ImagePages \subseteq Pages
    BY <1>0, EfiMemoryConstants DEF TypeInv, FirmwareInv
  <2>6. granted' = {p \in Pages : untouched'[p] = "usable"} \cup S BY <1>0, <2>2, <2>3, <2>4
  <2>7. \A p \in S : untouched'[p] = "reserved" BY <1>1, <2>2
  <2>8. \A p \in ImagePages \cup recl : memmap'[p] = "bootloader" BY <2>1, <2>3, <2>4, <2>5
  <2>9. \A p \in granted : memmap'[p] \in {"usable", "bootloader", "reserved"} BY <2>1, <2>3, <2>5
  <2>10. \A p \in Pages \ granted : Told(untouched, p)' /\ (p \notin ImagePages => Told(memmap, p)')
    <3> SUFFICES ASSUME NEW p \in Pages, p \notin granted
                 PROVE  Told(untouched, p)' /\ (p \notin ImagePages => Told(memmap, p)')
      OBVIOUS
    <3>1. untouched'[p] = untouched[p] /\ memmap'[p] = memmap[p] /\ fw' = fw BY <1>0, <2>1, <2>2, <2>4
    <3>2. Told(untouched, p) /\ (p \notin ImagePages => Told(memmap, p)) BY <2>3
    <3> QED BY <3>1, <3>2 DEF Told
  <2>11. OwnInv' BY <1>0, <1>6, <2>3, <2>6, <2>7, <2>8, <2>9, <2>10 DEF OwnInv
  <2> QED BY <1>3, <1>4, <1>6, <2>11, ElsewhereNext DEF EfiInv, Owning
<1> QED BY <1>0, <1>5, <1>6

-----------------------------------------------------------------------------
(* The firmware changes what it does not have for good                     *)
Shifts(p) == fw'[p] = fw[p] \/ (fw[p] \in {"conventional", "boot", "loader"} /\ fw'[p] # "none")


(* The firmware may change its own pages meanwhile, none of which is       *)
(* granted                                                                 *)
LEMMA FirmwareShifts ==
  ASSUME EfiInv, fw' \in [Pages -> EfiTypes], \A p \in Pages : Shifts(p),
         UNCHANGED <<granted, memmap, untouched, recl, image, claim, outer, inner, chunk>>
  PROVE  /\ pc' = pc /\ regions' = regions => ClaimInv'
         /\ pc \in Owning /\ pc' \in Owning \ {"path"} /\ pc # "path" => OwnInv'
         /\ pc' = pc => OwnInv'
<1>0. TypeInv /\ FirmwareInv /\ ClaimInv /\ OwnInv BY DEF EfiInv
<1>1. \A p \in Pages : /\ Told(memmap, p) => Told(memmap, p)'
                       /\ Told(untouched, p) => Told(untouched, p)'
                       /\ fw[p] # "none" => fw'[p] # "none"
  BY DEF Shifts, Told, our_type
<1>2. ASSUME pc' = pc, regions' = regions PROVE ClaimInv'
  <2> SUFFICES ASSUME pc \in {"claim", "outer", "inner"} PROVE Position' /\ Content' BY <1>2 DEF ClaimInv
  <2>1. Position /\ Content BY <1>0 DEF ClaimInv
  <2>2. Position' BY <2>1, <1>2 DEF Position, OuterInv, InnerInv, ClaimChunk, OuterChunk
  <2>3. Current' = Current /\ RegionPages' = RegionPages /\ (Apart <=> Apart')
    BY <1>2 DEF Current, From, RegionPages, Apart
  <2>4. Content' BY <2>1, <2>3, <1>1 DEF Content, Unsettled
  <2> QED BY <2>2, <2>4
<1>3. ASSUME pc \in Owning, pc' \in Owning, pc' # "path" => image = {} PROVE OwnInv'
  BY <1>0, <1>1, <1>3 DEF OwnInv
<1>4. pc \in Owning /\ pc # "path" => image = {} BY <1>0 DEF OwnInv
<1>5. pc \notin Owning /\ pc' = pc => OwnInv' BY DEF OwnInv
<1> QED BY <1>2, <1>3, <1>4, <1>5

(* The fields of the state of the exit                                     *)
LEMMA FieldsAre == DOMAIN NoExit = {"retries", "fresh", "want", "mmap_alloc", "copy_alloc", "mmap", "cur", "copy"}
BY DEF NoExit

(* Whatever the firmware does between two steps of the loader keeps the    *)
(* invariant                                                               *)
LEMMA FirmwareMovesInv == EfiInv /\ Firmware => EfiInv'
<1> SUFFICES ASSUME EfiInv, Firmware PROVE EfiInv' OBVIOUS
<1>0. /\ TypeInv /\ FirmwareInv /\ ReleaseInv /\ RebuildInv /\ StartInv
      /\ pc \notin {"rebuild", "exited", "mapped", "raw", "exhausted"} /\ pc' = pc
      /\ exit' = [exit EXCEPT !.fresh = FALSE]
      /\ UNCHANGED <<granted, pool, memmap, untouched, loans, recl, image, regions, claim, outer, inner, chunk>>
  BY DEF EfiInv, Firmware, loader, claiming
<1>1. PICK p \in Pages : \E type \in EfiTypes \ {"none", "loader"} :
                           fw[p] \in {"conventional", "boot"} /\ fw' = Mark(fw, {p}, type)
  BY DEF Firmware, Free, EfiTypes
<1>2. PICK type \in EfiTypes \ {"none", "loader"} : fw[p] \in {"conventional", "boot"} /\ fw' = Mark(fw, {p}, type)
  BY <1>1
<1>3. fw' \in [Pages -> EfiTypes] BY <1>0, <1>2, MarkMap DEF TypeInv
<1>4. \A q \in Pages : fw'[q] = IF q = p THEN type ELSE fw[q] BY <1>2, MarkIs
<1>5. \A q \in Pages : Shifts(q) BY <1>2, <1>4 DEF Shifts
<1>6. FirmwareInv'
  <2>1. granted \cup pool \cup ImagePages \subseteq Pages BY <1>0, EfiMemoryConstants DEF TypeInv
  <2> QED BY <2>1, <1>0, <1>2, <1>4 DEF FirmwareInv
<1>7. DOMAIN exit' = DOMAIN exit /\ exit'.cur = exit.cur /\ exit'.copy = exit.copy /\ exit'.fresh = FALSE
  BY <1>0, FieldsAre DEF TypeInv
<1>8. TypeInv' BY <1>0, <1>3, <1>7 DEF TypeInv
<1>9. ClaimInv' /\ OwnInv' BY <1>0, <1>3, <1>5, FirmwareShifts
<1>10. ReleaseInv' BY <1>0 DEF ReleaseInv, RegionPages, Apart
<1>11. RebuildInv' BY <1>0, <1>7 DEF RebuildInv
<1>12. PublishedInv' BY <1>0, ElsewhereNext
<1>13. StartInv' BY <1>0 DEF StartInv
<1> QED BY <1>6, <1>8, <1>9, <1>10, <1>11, <1>12, <1>13 DEF EfiInv

(* Pages become pools, and pools become free pages                         *)
LEMMA PoolTaken ==
  ASSUME TypeInv, FirmwareInv, NEW p \in Free(fw), fw' = Mark(fw, {p}, "loader"), pool' = pool \cup {p}, granted' = granted
  PROVE  fw' \in [Pages -> EfiTypes] /\ pool' \subseteq Pages /\ FirmwareInv' /\ \A q \in Pages : Shifts(q)
<1>1. p \in Pages /\ fw[p] = "conventional" BY DEF Free
<1>2. fw' \in [Pages -> EfiTypes] BY MarkMap DEF TypeInv, EfiTypes
<1>3. \A q \in Pages : fw'[q] = IF q = p THEN "loader" ELSE fw[q] BY MarkIs
<1>4. granted \cup pool \cup ImagePages \subseteq Pages BY EfiMemoryConstants DEF TypeInv
<1>5. FirmwareInv' BY <1>1, <1>3, <1>4 DEF FirmwareInv
<1> QED BY <1>1, <1>2, <1>3, <1>4, <1>5 DEF Shifts

(* Freeing the pools gives their pages to the firmware and no others       *)
LEMMA PoolFreed ==
  ASSUME TypeInv, FirmwareInv, FreePool, granted' = granted
  PROVE  fw' \in [Pages -> EfiTypes] /\ pool' \subseteq Pages /\ FirmwareInv' /\ \A q \in Pages : Shifts(q)
<1>1. fw' = Mark(fw, pool, "conventional") /\ pool' = {} BY DEF FreePool
<1>2. fw' \in [Pages -> EfiTypes] BY <1>1, MarkMap DEF TypeInv, EfiTypes
<1>3. \A q \in Pages : fw'[q] = IF q \in pool THEN "conventional" ELSE fw[q] BY <1>1, MarkIs
<1>4. granted \cup pool \cup ImagePages \subseteq Pages BY EfiMemoryConstants DEF TypeInv
<1>5. \A q \in pool : fw[q] = "loader" BY DEF FirmwareInv
<1>6. FirmwareInv' BY <1>1, <1>3, <1>4 DEF FirmwareInv
<1> QED BY <1>1, <1>2, <1>3, <1>5, <1>6 DEF Shifts

(* A call of AllocatePool(), whichever way it ends                         *)
LEMMA PoolCall ==
  ASSUME TypeInv, FirmwareInv, NEW next, NEW nomem, AllocatePool(next, nomem), granted' = granted
  PROVE  /\ pc' = next \/ pc' = nomem
         /\ fw' \in [Pages -> EfiTypes] /\ pool' \subseteq Pages /\ FirmwareInv' /\ \A q \in Pages : Shifts(q)
<1>1. CASE \E p \in Free(fw) : fw' = Mark(fw, {p}, "loader") /\ pool' = pool \cup {p} /\ pc' = next
  BY <1>1, PoolTaken
<1>2. CASE UNCHANGED <<fw, pool>> /\ pc' = nomem
  BY <1>2 DEF TypeInv, FirmwareInv, Shifts
<1> QED BY <1>1, <1>2 DEF AllocatePool

(* The device path for the chainloaded image comes from a pool, which      *)
(* takes no granted page                                                   *)
LEMMA ChainloadPathInv == EfiInv /\ ChainloadPath => EfiInv'
<1> SUFFICES ASSUME EfiInv, ChainloadPath PROVE EfiInv' OBVIOUS
<1>0. /\ TypeInv /\ FirmwareInv /\ OwnInv /\ pc = "path" /\ AllocatePool("release", "panic")
      /\ regions' = Regions(untouched, "usable")
      /\ UNCHANGED <<granted, memmap, untouched, loans, recl, image, claim, outer, inner, chunk, exit>>
  BY DEF EfiInv, ChainloadPath, loader
<1>1. /\ pc' = "release" \/ pc' = "panic"
      /\ fw' \in [Pages -> EfiTypes] /\ pool' \subseteq Pages /\ FirmwareInv'
  BY <1>0, PoolCall
<1>2. /\ regions' \subseteq RegionSet
      /\ \A r \in regions' : \A p \in Cells(r) : p \in Pages /\ untouched[p] = "usable"
      /\ \A p \in Pages : untouched[p] = "usable" => \E r \in regions' : p \in Cells(r)
      /\ \A r, s \in regions' : r # s => Cells(r) \cap Cells(s) = {}
  BY <1>0, RegionsAre
<1>3. TypeInv' BY <1>0, <1>1, <1>2 DEF TypeInv
<1>4. RegionPages' = {p \in Pages : untouched[p] = "usable"} /\ Apart' BY <1>2 DEF RegionPages, Apart
<1>5. granted = {p \in Pages : untouched[p] = "usable"} \cup image /\ \A p \in image : untouched[p] = "reserved"
  BY <1>0 DEF OwnInv, Owning
<1>6. ReleaseInv' BY <1>0, <1>1, <1>4, <1>5 DEF ReleaseInv
<1> QED BY <1>1, <1>3, <1>6, ElsewhereNext DEF EfiInv, Owning

(* FreePages() of a range releases what was granted there and not the      *)
(* image, and never fails                                                  *)
LEMMA ReleaseStepInv == EfiInv /\ Release => EfiInv'
<1> SUFFICES ASSUME EfiInv, Release PROVE EfiInv' OBVIOUS
<1>0. /\ TypeInv /\ FirmwareInv /\ ReleaseInv /\ pc = "release"
      /\ granted = RegionPages \cup image /\ RegionPages \cap image = {} /\ Apart
      /\ UNCHANGED <<pool, memmap, untouched, loans, recl, image, claim, outer, inner, chunk, exit>>
  BY DEF EfiInv, Release, ReleaseInv, loader
<1>1. CASE regions = {} /\ pc' = "started" /\ UNCHANGED <<fw, granted, regions>>
  <2>1. TypeInv' /\ FirmwareInv' BY <1>0, <1>1 DEF TypeInv, FirmwareInv
  <2>2. RegionPages = {} BY <1>1 DEF RegionPages
  <2>3. ReleaseInv' BY <1>0, <1>1, <2>2 DEF ReleaseInv
  <2> QED BY <1>1, <2>1, <2>3, ElsewhereNext DEF EfiInv, Owning
<1>2. ASSUME NEW r \in regions, regions' = regions \ {r},
             IF r.base .. r.top - 1 \subseteq granted
             THEN FreePages(r.base .. r.top - 1) /\ UNCHANGED pc
             ELSE pc' = "freefail" /\ UNCHANGED <<fw, granted>>
      PROVE  EfiInv'
  <2> DEFINE S == Cells(r)
  <2>1. S = r.base .. r.top - 1 BY DEF Cells
  <2>2. S \subseteq RegionPages BY DEF RegionPages
  <2>3. fw' = Mark(fw, S, "conventional") /\ granted' = granted \ S /\ pc' = "release"
    BY <1>0, <1>2, <2>1, <2>2 DEF FreePages
  <2> HIDE DEF S
  <2>4. fw' \in [Pages -> EfiTypes] BY <1>0, <2>3, MarkMap DEF TypeInv, EfiTypes
  <2>5. \A p \in Pages : fw'[p] = IF p \in S THEN "conventional" ELSE fw[p] BY <2>3, MarkIs
  <2>6. TypeInv' BY <1>0, <1>2, <2>3, <2>4 DEF TypeInv
  <2>7. FirmwareInv'
    <3>1. granted \cup pool \cup ImagePages \subseteq Pages BY <1>0, EfiMemoryConstants DEF TypeInv
    <3>2. S \subseteq granted BY <1>0, <2>2
    <3> QED BY <1>0, <2>3, <2>5, <3>1, <3>2 DEF FirmwareInv
  <2>8. RegionPages' = RegionPages \ S
    <3>1. \A s \in regions' : S \cap Cells(s) = {} BY <1>0, <1>2 DEF Apart, S
    <3> QED BY <3>1, <1>2 DEF RegionPages, S
  <2>9. Apart' BY <1>0, <1>2 DEF Apart
  <2>10. ReleaseInv' BY <1>0, <2>2, <2>3, <2>8, <2>9 DEF ReleaseInv
  <2> QED BY <2>3, <2>6, <2>7, <2>10, ElsewhereNext DEF EfiInv, Owning
<1> QED BY <1>1, <1>2 DEF Release

-----------------------------------------------------------------------------
(* Leaving boot services                                                   *)

(* The stages before ExitBootServices() know nothing of the loader's maps  *)
(* but that they stand                                                     *)
LEMMA Leaving ==
  ASSUME EfiInv, pc \in {"run", "getmap", "grow", "growcopy", "leave"},
         pc' \in {"getmap", "grow", "growcopy", "leave", "rebuild", "fail"},
         fw' \in [Pages -> EfiTypes], pool' \subseteq Pages, FirmwareInv', \A q \in Pages : Shifts(q),
         UNCHANGED <<granted, loader, claiming>>, DOMAIN exit' = DOMAIN NoExit,
         exit'.cur = 0, exit'.copy = {},
         pc' = "leave" /\ exit'.fresh => exit'.mmap = fw', pc' = "rebuild" => exit'.mmap = fw'
  PROVE  EfiInv'
<1>1. TypeInv' BY DEF EfiInv, TypeInv, loader, claiming
<1>2. OwnInv'
  <2>1. CASE pc' = "fail" BY <2>1, ElsewhereNext DEF Owning
  <2>2. CASE pc' # "fail"
    <3>1. pc \in Owning /\ pc # "path" /\ pc' \in Owning \ {"path"} BY <2>2 DEF Owning
    <3> QED BY <3>1, FirmwareShifts DEF loader, claiming
  <2> QED BY <2>1, <2>2
<1>3. RebuildInv'
  <2>1. NPages \in Nat /\ \A p \in Pages : ~ (p < 0) BY PagesAre
  <2>2. \A p : Describing(p)' = {} BY DEF Describing
  <2> QED BY <2>1, <2>2 DEF RebuildInv
<1> QED BY <1>1, <1>2, <1>3, ElsewhereNext DEF EfiInv, Owning

(* Nothing that the firmware has changes                                   *)
LEMMA Still ==
  ASSUME EfiInv, UNCHANGED <<fw, granted, pool>>
  PROVE  fw' \in [Pages -> EfiTypes] /\ pool' \subseteq Pages /\ FirmwareInv' /\ \A q \in Pages : Shifts(q)
BY DEF EfiInv, TypeInv, FirmwareInv, Shifts

(* The exit begins with the pools freed                                    *)
LEMMA ExitBeginsInv == EfiInv /\ ExitBegins => EfiInv'
<1> SUFFICES ASSUME EfiInv, ExitBegins PROVE EfiInv' OBVIOUS
<1>1. pc = "run" /\ FreePool /\ exit' = NoExit /\ pc' = "getmap" /\ UNCHANGED <<granted, loader, claiming>>
  BY DEF ExitBegins
<1>2. fw' \in [Pages -> EfiTypes] /\ pool' \subseteq Pages /\ FirmwareInv' /\ \A q \in Pages : Shifts(q)
  BY <1>1, PoolFreed DEF EfiInv
<1>3. exit'.cur = 0 /\ exit'.copy = {} BY <1>1 DEF NoExit
<1> QED BY <1>1, <1>2, <1>3, Leaving

(* GetMemoryMap() either has room or says how much it wants                *)
LEMMA GetMemoryMapInv == EfiInv /\ GetMemoryMap => EfiInv'
<1> SUFFICES ASSUME EfiInv, GetMemoryMap PROVE EfiInv' OBVIOUS
<1>0. pc = "getmap" /\ UNCHANGED <<granted, loader, claiming>> BY DEF GetMemoryMap
<1>1. exit.cur = 0 /\ exit.copy = {} /\ DOMAIN exit = DOMAIN NoExit /\ TypeInv /\ FirmwareInv
  BY <1>0 DEF EfiInv, RebuildInv, TypeInv
<1>2. CASE pc' = "fail" /\ UNCHANGED <<fw, pool, exit>> BY <1>0, <1>1, <1>2, Still, Leaving
<1>3. CASE exit' = [exit EXCEPT !.mmap = fw, !.fresh = TRUE] /\ pc' = "leave" /\ UNCHANGED <<fw, pool>>
  <2>1. DOMAIN exit' = DOMAIN NoExit /\ exit'.cur = 0 /\ exit'.copy = {} /\ exit'.mmap = fw'
    BY <1>1, <1>3, FieldsAre
  <2> QED BY <1>0, <1>3, <2>1, Still, Leaving
<1>4. CASE exit' = [exit EXCEPT !.want = Cardinality(Starts(fw)), !.fresh = FALSE] /\ FreePool /\ pc' = "grow"
  <2>1. DOMAIN exit' = DOMAIN NoExit /\ exit'.cur = 0 /\ exit'.copy = {} BY <1>1, <1>4, FieldsAre
  <2>2. fw' \in [Pages -> EfiTypes] /\ pool' \subseteq Pages /\ FirmwareInv' /\ \A q \in Pages : Shifts(q)
    BY <1>0, <1>1, <1>4, PoolFreed
  <2> QED BY <1>0, <1>4, <2>1, <2>2, Leaving
<1> QED BY <1>2, <1>3, <1>4 DEF GetMemoryMap

(* A retry touches the counter only                                        *)
LEMMA RetriesIs ==
  ASSUME NEW e, DOMAIN e = DOMAIN NoExit
  PROVE  /\ DOMAIN Retries(e) = DOMAIN NoExit /\ Retries(e).cur = e.cur /\ Retries(e).copy = e.copy
         /\ Retries(e).fresh = e.fresh /\ Retries(e).mmap = e.mmap
BY FieldsAre DEF Retries

(* A buffer that grows takes a pool, no granted page                       *)
LEMMA GrowInv == EfiInv /\ (GrowMap \/ GrowCopy) => EfiInv'
<1> SUFFICES ASSUME EfiInv, GrowMap \/ GrowCopy PROVE EfiInv' OBVIOUS
<1>0. pc \in {"grow", "growcopy"} /\ UNCHANGED <<granted, loader, claiming>> BY DEF GrowMap, GrowCopy
<1>1. exit.cur = 0 /\ exit.copy = {} /\ DOMAIN exit = DOMAIN NoExit /\ TypeInv /\ FirmwareInv
  BY <1>0 DEF EfiInv, RebuildInv, TypeInv
<1>2. DOMAIN exit' = DOMAIN NoExit /\ exit'.cur = 0 /\ exit'.copy = {}
  <2>1. CASE GrowMap BY <2>1, <1>1, FieldsAre DEF GrowMap
  <2>2. CASE GrowCopy
    <3> DEFINE e == [exit EXCEPT !.copy_alloc = efi_rebuilt_mmap_max_size(exit.want)]
    <3>1. DOMAIN e = DOMAIN NoExit /\ e.cur = 0 /\ e.copy = {} BY <1>1, FieldsAre
    <3>2. exit' = Retries(e) BY <2>2 DEF GrowCopy
    <3> HIDE DEF e
    <3> QED BY <3>1, <3>2, RetriesIs
  <2> QED BY <2>1, <2>2
<1>3. /\ pc' \in {"growcopy", "getmap", "fail"}
      /\ fw' \in [Pages -> EfiTypes] /\ pool' \subseteq Pages /\ FirmwareInv' /\ \A q \in Pages : Shifts(q)
  BY <1>0, <1>1, PoolCall DEF GrowMap, GrowCopy
<1> QED BY <1>0, <1>2, <1>3, Leaving

(* ExitBootServices() succeeds with a map that is the firmware's at that   *)
(* moment                                                                  *)
LEMMA ExitBootServicesInv == EfiInv /\ ExitBootServices => EfiInv'
<1> SUFFICES ASSUME EfiInv, ExitBootServices PROVE EfiInv' OBVIOUS
<1>0. pc = "leave" /\ UNCHANGED <<fw, granted, pool, loader, claiming>> BY DEF ExitBootServices
<1>4. exit.cur = 0 /\ exit.copy = {} /\ DOMAIN exit = DOMAIN NoExit BY <1>0 DEF EfiInv, RebuildInv, TypeInv
<1>2. CASE exit.fresh /\ pc' = "rebuild" /\ UNCHANGED exit
  <2>1. exit'.mmap = fw' BY <1>0, <1>2 DEF EfiInv, RebuildInv
  <2> QED BY <1>0, <1>2, <1>4, <2>1, Still, Leaving
<1>3. CASE exit' = Retries(exit) /\ pc' = "getmap" BY <1>0, <1>3, <1>4, RetriesIs, Still, Leaving
<1> QED BY <1>2, <1>3 DEF ExitBootServices

(* A run of the rebuilt map starts at the first page it does not describe  *)
(* and ends before the firmware's map or the loader's share changes        *)
LEMMA RunTopIs ==
  ASSUME NEW m \in [Pages -> EfiTypes], NEW cur \in Pages
  PROVE  LET to == run_top(cur, DescriptorTop(m, cur))
         IN  /\ to \in Nat /\ cur < to /\ to <= NPages
             /\ \A p \in Pages : cur <= p /\ p < to => m[p] = m[cur] /\ (Owned(p) <=> Owned(cur))
<1> DEFINE T == {q \in cur + 1 .. NPages : q = NPages \/ q \in Cuts \/ m[q] # m[cur]}
           top == DescriptorTop(m, cur)
           R == {top} \cup {q \in cur + 1 .. NPages - 1 : Owned(q) # Owned(cur)}
           to == run_top(cur, top)
<1>1. cur \in Nat /\ NPages \in Nat /\ cur < NPages BY PagesAre
<1>2. T \in SUBSET Nat /\ NPages \in T BY <1>1
<1>3. top = Min(T) BY DEF DescriptorTop
<1>4. top \in T /\ \A y \in T : top <= y
  <2> HIDE DEF T, top
  <2> QED BY <1>2, <1>3, MinIs
<1>5. top \in Nat /\ cur < top /\ top <= NPages BY <1>1, <1>4
<1>6. \A p \in Pages : cur <= p /\ p < top => m[p] = m[cur]
  <2> SUFFICES ASSUME NEW p \in Pages, cur <= p, p < top PROVE m[p] = m[cur] OBVIOUS
  <2>1. p \in Nat /\ p < NPages BY PagesAre
  <2>2. p \notin T BY <1>4, <1>5, <2>1
  <2> HIDE DEF top
  <2> QED BY <1>1, <2>1, <2>2
<1> HIDE DEF T, top
<1>7. R \in SUBSET Nat /\ top \in R BY <1>1, <1>5
<1>8. to = Min(R) BY DEF run_top
<1>9. to \in R /\ \A y \in R : to <= y
  <2> HIDE DEF R, to
  <2> QED BY <1>7, <1>8, MinIs
<1>10. to \in Nat /\ cur < to /\ to <= NPages /\ to <= top
  <2> HIDE DEF to
  <2> QED BY <1>1, <1>5, <1>7, <1>9
<1>11. \A p \in Pages : cur <= p /\ p < to => (Owned(p) <=> Owned(cur))
  <2> SUFFICES ASSUME NEW p \in Pages, cur <= p, p < to PROVE Owned(p) <=> Owned(cur) OBVIOUS
  <2>1. p \in Nat /\ p < NPages BY PagesAre
  <2> HIDE DEF to
  <2>2. p \notin R BY <1>9, <1>10, <2>1
  <2>3. p = cur \/ p \in cur + 1 .. NPages - 1 BY <1>1, <2>1
  <2>4. CASE p # cur
    <3>1. Owned(p) = Owned(cur) BY <2>2, <2>3, <2>4
    <3> QED BY <3>1
  <2> QED BY <2>4
<1>12. \A p \in Pages : cur <= p /\ p < to => m[p] = m[cur] /\ (Owned(p) <=> Owned(cur))
  <2> HIDE DEF to
  <2>1. \A p \in Pages : p < to => p < top BY <1>5, <1>10, PagesAre
  <2> QED BY <1>6, <1>11, <2>1
<1> QED BY <1>10, <1>12 DEF top

(* A descriptor of the copy covers pages of one owner, up to where the     *)
(* next begins, and none that was described                                *)
LEMMA RebuildStepInv == EfiInv /\ Rebuild => EfiInv'
<1> SUFFICES ASSUME EfiInv, Rebuild PROVE EfiInv' OBVIOUS
<1> DEFINE cur == Min(Undescribed)
           to == run_top(cur, DescriptorTop(exit.mmap, cur))
           type == IF Owned(cur) THEN "conventional" ELSE exit.mmap[cur]
           new == [base |-> cur, top |-> to, type |-> type]
<1>0. /\ TypeInv /\ FirmwareInv /\ OwnInv /\ RebuildInv /\ pc = "rebuild" /\ Undescribed # {}
      /\ exit' = [exit EXCEPT !.cur = to, !.copy = exit.copy \cup {new}]
      /\ pc' \in {"rebuild", "exhausted"}
      /\ UNCHANGED <<fw, granted, pool, loader, claiming>>
  BY DEF EfiInv, Rebuild
<1>1. /\ exit.mmap = fw /\ exit.cur \in 0 .. NPages /\ DOMAIN exit = DOMAIN NoExit /\ fw \in [Pages -> EfiTypes]
      /\ \A p \in Pages : IF p < exit.cur THEN Described(p) ELSE Describing(p) = {}
  BY <1>0 DEF RebuildInv, TypeInv
<1>2. exit.cur \in Nat /\ NPages \in Nat BY <1>1, PagesAre
<1>3. Undescribed \in SUBSET Nat /\ Undescribed = {p \in Pages : exit.cur <= p /\ fw[p] # "none"}
  <2>1. \A p : p \in exit.cur .. NPages - 1 <=> p \in Pages /\ exit.cur <= p BY <1>2, PagesAre
  <2> QED BY <2>1, <1>1, <1>2 DEF Undescribed
<1>4. cur \in Undescribed /\ \A y \in Undescribed : cur <= y BY <1>0, <1>3, MinIs
<1>5. cur \in Pages /\ cur \in Nat /\ exit.cur <= cur /\ fw[cur] # "none" BY <1>3, <1>4
<1> HIDE DEF cur
<1>6. /\ to \in Nat /\ cur < to /\ to <= NPages
      /\ \A p \in Pages : cur <= p /\ p < to => fw[p] = fw[cur] /\ (Owned(p) <=> Owned(cur))
  BY <1>1, <1>5, RunTopIs
<1> HIDE DEF to
<1>7. /\ exit'.cur = to /\ exit'.copy = exit.copy \cup {new} /\ exit'.mmap = exit.mmap /\ DOMAIN exit' = DOMAIN NoExit
  BY <1>0, <1>1, FieldsAre
<1>8. TypeInv' BY <1>0, <1>7 DEF TypeInv, loader, claiming
<1>9. FirmwareInv' BY <1>0 DEF FirmwareInv
<1>10. OwnInv' BY <1>0 DEF OwnInv, Owning, Told, loader
<1>11. \A p \in Pages : Owned(p) <=> p \in granted BY <1>0 DEF OwnInv, Owning, Owned
<1>12. new.base = cur /\ new.top = to /\ new.type = IF cur \in granted THEN "conventional" ELSE fw[cur]
  BY <1>1, <1>5, <1>11
<1> HIDE DEF new
<1>13. \A p \in Pages : Describing(p)' = IF cur <= p /\ p < to THEN Describing(p) \cup {new} ELSE Describing(p)
  BY <1>7, <1>12 DEF Describing
<1>14. \A p \in Pages : IF p < to THEN Described(p)' ELSE Describing(p)' = {}
  <2> SUFFICES ASSUME NEW p \in Pages PROVE IF p < to THEN Described(p)' ELSE Describing(p)' = {} OBVIOUS
  <2>0. p \in Nat BY PagesAre
  <2>1. CASE p < exit.cur
    <3>1. p < to /\ ~ (cur <= p) BY <2>0, <2>1, <1>2, <1>5, <1>6
    <3>2. Describing(p)' = Describing(p) /\ Described(p) BY <3>1, <2>1, <1>1, <1>13
    <3>3. Described(p)' BY <3>2, <1>0, <1>7 DEF Described
    <3> QED BY <3>1, <3>3
  <2>2. CASE exit.cur <= p /\ p < cur
    <3>1. ~ (p < exit.cur) /\ p < to /\ ~ (cur <= p) BY <2>0, <2>2, <1>2, <1>5, <1>6
    <3>2. Describing(p)' = {} BY <3>1, <1>1, <1>13
    <3>3. fw[p] = "none" BY <2>0, <2>2, <3>1, <1>3, <1>4
    <3> QED BY <3>1, <3>2, <3>3, <1>0 DEF Described
  <2>3. CASE cur <= p /\ p < to
    <3>1. ~ (p < exit.cur) BY <2>0, <2>3, <1>2, <1>5
    <3>2. Describing(p)' = {new} /\ new \in exit'.copy BY <2>3, <3>1, <1>1, <1>7, <1>13
    <3>3. fw[p] = fw[cur] /\ (p \in granted <=> cur \in granted) BY <2>3, <1>5, <1>6, <1>11
    <3>4. Described(p)' BY <3>2, <3>3, <1>0, <1>5, <1>12 DEF Described
    <3> QED BY <2>3, <3>4
  <2>4. CASE to <= p
    <3>1. ~ (p < exit.cur) /\ ~ (p < to) BY <2>0, <2>4, <1>2, <1>5, <1>6
    <3> QED BY <3>1, <1>1, <1>13
  <2> QED BY <2>0, <2>1, <2>2, <2>3, <2>4, <1>2, <1>5, <1>6
<1>15. RebuildInv'
  <2>1. to \in 0 .. NPages BY <1>2, <1>6
  <2>2. \A p \in Pages : IF p < exit'.cur THEN Described(p)' ELSE Describing(p)' = {} BY <1>7, <1>14
  <2> QED BY <2>1, <2>2, <1>0, <1>1, <1>7 DEF RebuildInv
<1> QED BY <1>0, <1>8, <1>9, <1>10, <1>15, ElsewhereNext DEF EfiInv, Owning

(* The copy is complete when every page of the map was described           *)
LEMMA RebuiltInv == EfiInv /\ Rebuilt => EfiInv'
<1> SUFFICES ASSUME EfiInv, Rebuilt PROVE EfiInv' OBVIOUS
<1>0. /\ TypeInv /\ FirmwareInv /\ OwnInv /\ RebuildInv /\ pc = "rebuild" /\ Undescribed = {} /\ pc' = "exited"
      /\ exit' = [NoExit EXCEPT !.copy = exit.copy] /\ UNCHANGED <<fw, granted, pool, loader, claiming>>
  BY DEF EfiInv, Rebuilt
<1>1. /\ exit.mmap = fw /\ exit.cur \in 0 .. NPages
      /\ \A p \in Pages : IF p < exit.cur THEN Described(p) ELSE Describing(p) = {}
  BY <1>0 DEF RebuildInv
<1>2. DOMAIN exit' = DOMAIN NoExit /\ exit'.copy = exit.copy BY <1>0, FieldsAre
<1>3. TypeInv' BY <1>0, <1>2 DEF TypeInv, loader, claiming
<1>4. FirmwareInv' BY <1>0 DEF FirmwareInv
<1>5. OwnInv' BY <1>0 DEF OwnInv, Owning, Told, loader
<1>6. \A p \in Pages : Described(p)
  <2> SUFFICES ASSUME NEW p \in Pages, ~ (p < exit.cur) PROVE Described(p) BY <1>1
  <2>1. exit.cur \in Nat /\ NPages \in Nat BY <1>1, PagesAre
  <2>2. p \in exit.cur .. NPages - 1 BY <2>1, PagesAre
  <2>3. exit.mmap[p] = "none" BY <2>2, <1>0 DEF Undescribed
  <2> QED BY <2>3, <1>1 DEF Described
<1>7. \A p \in Pages : Described(p)' BY <1>0, <1>2, <1>6 DEF Described, Describing
<1>8. RebuildInv' BY <1>0, <1>7 DEF RebuildInv
<1> QED BY <1>0, <1>3, <1>4, <1>5, <1>8, ElsewhereNext DEF EfiInv, Owning

-----------------------------------------------------------------------------
(* The published maps                                                      *)

(* The type that the copy gives a page                                     *)
LEMMA EfiTypeIs ==
  ASSUME NEW p \in Pages, Described(p), fw \in [Pages -> EfiTypes]
  PROVE  EfiType(p) = IF fw[p] # "none" /\ p \in granted THEN "conventional" ELSE fw[p]
<1> DEFINE at == {d \in exit.copy : d.base <= p /\ p < d.top}
<1>1. at = Describing(p) BY DEF Describing
<1>2. EfiType(p) = IF at = {} THEN "none" ELSE (CHOOSE d \in at : TRUE).type BY DEF EfiType
<1> HIDE DEF at
<1>3. CASE fw[p] = "none" BY <1>1, <1>2, <1>3 DEF Described
<1>4. CASE fw[p] # "none"
  <2>1. PICK d \in exit.copy : at = {d} /\ d.type = IF p \in granted THEN "conventional" ELSE fw[p]
    BY <1>1, <1>4 DEF Described
  <2>2. (CHOOSE e \in at : TRUE) = d BY <2>1
  <2> QED BY <1>2, <1>4, <2>1, <2>2
<1> QED BY <1>3, <1>4

(* get_memmap() calls usable and reclaimable what the firmware does not    *)
(* need any more, and keeps the loader's own marks                         *)
LEMMA GetMemmapInv ==
  ASSUME EfiInv, NEW keep \in BOOLEAN, get_memmap(keep)
  PROVE  EfiInv'
<1> DEFINE m == pmm_reclaim_uefi_mem(memmap, FALSE)
<1>0. /\ TypeInv /\ FirmwareInv /\ OwnInv /\ RebuildInv /\ pc = "exited" /\ pc' = "mapped"
      /\ memmap' = DropFirst(m, keep)
      /\ UNCHANGED <<fw, granted, pool, moves, untouched, loans, recl, image, claiming, exit>>
  BY DEF EfiInv, get_memmap
<1>1. /\ fw \in [Pages -> EfiTypes] /\ memmap \in [Pages -> Types] /\ granted \subseteq Pages /\ 0 \in Pages
      /\ ImagePages \cap granted = {} /\ recl \subseteq granted /\ ImagePages \subseteq Pages
      /\ 0 \notin granted /\ 0 \notin ImagePages
      /\ \A p \in ImagePages \cup recl : memmap[p] = "bootloader"
      /\ \A p \in granted : memmap[p] \in {"usable", "bootloader", "reserved"}
      /\ \A p \in Pages \ granted : p \notin ImagePages => Told(memmap, p)
  BY <1>0, PagesAre, EfiMemoryConstants DEF TypeInv, Map, OwnInv, Owning, FirmwareInv
<1>2. \A p \in Pages : Described(p) BY <1>0 DEF RebuildInv
<1>3. \A p \in Pages : EfiType(p) = IF fw[p] # "none" /\ p \in granted THEN "conventional" ELSE fw[p]
  BY <1>1, <1>2, EfiTypeIs
<1>4. \A p \in Pages : m[p] = IF memmap[p] = "efi_reclaimable" /\ EfiType(p) # "none"
                              THEN ReclaimedType(FALSE, EfiType(p)) ELSE memmap[p]
  BY DEF pmm_reclaim_uefi_mem
<1>5. m \in Map
  <2>1. \A type : ReclaimedType(FALSE, type) \in Types BY DEF ReclaimedType, Types
  <2> QED BY <2>1, <1>1 DEF pmm_reclaim_uefi_mem, Map
<1> HIDE DEF m
<1>6. memmap' \in Map
  <2>1. Mark(m, {0}, "none") \in Map BY <1>5, MarkMap DEF Map, Types
  <2> QED BY <2>1, <1>0, <1>5 DEF DropFirst
<1>7. \A p \in Pages : memmap'[p] = IF p = 0 /\ ~keep /\ m[0] = "usable" THEN "none" ELSE m[p]
  BY <1>0, MarkIs DEF DropFirst
<1>8. TypeInv' BY <1>0, <1>6 DEF TypeInv, claiming
<1>9. FirmwareInv' BY <1>0 DEF FirmwareInv
<1>10. RebuildInv'
  <2>1. \A p \in Pages : Described(p)' BY <1>0, <1>2 DEF Described, Describing
  <2> QED BY <2>1, <1>0 DEF RebuildInv
<1>11. ASSUME NEW p \in Pages, p \in granted \cup ImagePages
       PROVE  memmap'[p] = memmap[p] /\ memmap[p] \in {"usable", "bootloader", "reserved"}
  <2>1. memmap[p] \in {"usable", "bootloader", "reserved"} /\ p # 0 BY <1>1, <1>11
  <2> QED BY <2>1, <1>4, <1>7
<1>12. ASSUME NEW p \in Pages, p \notin granted \cup ImagePages
       PROVE  /\ m[p] # "efi_reclaimable"
              /\ m[p] = CASE fw[p] = "conventional" -> "usable"
                          [] fw[p] \in {"loader", "boot"} -> "bootloader"
                          [] OTHER -> our_type(fw[p])
  <2>1. Told(memmap, p) /\ EfiType(p) = fw[p] /\ fw[p] \in EfiTypes BY <1>1, <1>3, <1>12
  <2>2. m[p] = IF memmap[p] = "efi_reclaimable" /\ fw[p] # "none" THEN ReclaimedType(FALSE, fw[p]) ELSE memmap[p]
    BY <1>4, <2>1
  <2>3. CASE memmap[p] = "efi_reclaimable" /\ fw[p] # "none"
    BY <2>1, <2>2, <2>3 DEF ReclaimedType, our_type, EfiTypes
  <2>4. CASE memmap[p] \in {"reserved", "acpi", "none"} /\ memmap[p] = our_type(fw[p])
    <3>1. m[p] = our_type(fw[p]) /\ our_type(fw[p]) \in {"reserved", "acpi", "none"} BY <2>2, <2>4
    <3> QED BY <3>1, <2>1 DEF our_type, EfiTypes
  <2> QED BY <2>1, <2>3, <2>4 DEF Told
<1>13. PublishedInv'
  <2> SUFFICES ASSUME NEW p \in Pages
               PROVE  /\ memmap'[p] # "efi_reclaimable"
                      /\ p \notin granted \cup ImagePages =>
                           memmap'[p] \in CASE fw[p] = "conventional" /\ p # 0 -> {"usable"}
                                            [] fw[p] = "conventional" /\ p = 0 -> {"usable", "none"}
                                            [] fw[p] \in {"loader", "boot"} -> {"bootloader"}
                                            [] OTHER -> {our_type(fw[p])}
                      /\ p \in ImagePages \cup recl => memmap'[p] = "bootloader"
    BY <1>0 DEF PublishedInv
  <2>1. CASE p \in granted \cup ImagePages BY <2>1, <1>1, <1>11
  <2>2. CASE p \notin granted \cup ImagePages
    <3>1. p \notin ImagePages \cup recl BY <2>2, <1>1
    <3>2. CASE memmap'[p] = m[p] BY <2>2, <3>1, <3>2, <1>12
    <3>3. CASE p = 0 /\ m[0] = "usable" /\ memmap'[p] = "none"
      <4>1. fw[p] \in EfiTypes BY <1>1
      <4>2. fw[p] = "conventional" BY <2>2, <3>3, <4>1, <1>12 DEF our_type, EfiTypes
      <4> QED BY <3>1, <3>3, <4>2
    <3> QED BY <3>2, <3>3, <1>7
  <2> QED BY <2>1, <2>2
<1> QED BY <1>0, <1>8, <1>9, <1>10, <1>13, ElsewhereNext DEF EfiInv, Owning

(* get_raw_memmap() calls usable all that the firmware does not need any   *)
(* more                                                                    *)
LEMMA GetRawMemmapInv == EfiInv /\ get_raw_memmap => EfiInv'
<1> SUFFICES ASSUME EfiInv, get_raw_memmap PROVE EfiInv' OBVIOUS
<1> DEFINE m == pmm_reclaim_uefi_mem(untouched, TRUE)
<1>0. /\ TypeInv /\ FirmwareInv /\ OwnInv /\ RebuildInv /\ pc = "exited" /\ pc' = "raw" /\ untouched' = m
      /\ UNCHANGED <<fw, granted, pool, moves, memmap, loans, recl, image, claiming, exit>>
  BY DEF EfiInv, get_raw_memmap
<1>1. /\ fw \in [Pages -> EfiTypes] /\ untouched \in [Pages -> Types]
      /\ granted = {p \in Pages : untouched[p] = "usable"}
      /\ \A p \in granted : fw[p] = "loader"
      /\ \A p \in Pages \ granted : Told(untouched, p)
  BY <1>0 DEF TypeInv, Map, OwnInv, Owning, FirmwareInv
<1>2. \A p \in Pages : Described(p) BY <1>0 DEF RebuildInv
<1>3. \A p \in Pages : EfiType(p) = IF fw[p] # "none" /\ p \in granted THEN "conventional" ELSE fw[p]
  BY <1>1, <1>2, EfiTypeIs
<1>4. \A p \in Pages : m[p] = IF untouched[p] = "efi_reclaimable" /\ EfiType(p) # "none"
                              THEN ReclaimedType(TRUE, EfiType(p)) ELSE untouched[p]
  BY DEF pmm_reclaim_uefi_mem
<1>5. m \in Map
  <2>1. \A type : ReclaimedType(TRUE, type) \in Types BY DEF ReclaimedType, Types
  <2> QED BY <2>1, <1>1 DEF pmm_reclaim_uefi_mem, Map
<1> HIDE DEF m
<1>6. TypeInv' BY <1>0, <1>5 DEF TypeInv, claiming
<1>7. FirmwareInv' BY <1>0 DEF FirmwareInv
<1>8. RebuildInv'
  <2>1. \A p \in Pages : Described(p)' BY <1>0, <1>2 DEF Described, Describing
  <2> QED BY <2>1, <1>0 DEF RebuildInv
<1>9. ASSUME NEW p \in Pages
      PROVE  m[p] = IF fw[p] \in {"conventional", "loader", "boot"} THEN "usable" ELSE our_type(fw[p])
  <2>1. CASE p \in granted
    <3>1. untouched[p] = "usable" /\ fw[p] = "loader" BY <1>1, <2>1
    <3> QED BY <3>1, <1>4
  <2>2. CASE p \notin granted
    <3>1. Told(untouched, p) /\ EfiType(p) = fw[p] /\ fw[p] \in EfiTypes BY <1>1, <1>3, <2>2
    <3>2. m[p] = IF untouched[p] = "efi_reclaimable" /\ fw[p] # "none" THEN ReclaimedType(TRUE, fw[p]) ELSE untouched[p]
      BY <1>4, <3>1
    <3>3. CASE untouched[p] = "efi_reclaimable" /\ fw[p] # "none"
      BY <3>1, <3>2, <3>3 DEF ReclaimedType, our_type, EfiTypes
    <3>4. CASE untouched[p] \in {"reserved", "acpi", "none"} /\ untouched[p] = our_type(fw[p])
      <4>1. m[p] = our_type(fw[p]) /\ our_type(fw[p]) \in {"reserved", "acpi", "none"} BY <3>2, <3>4
      <4> QED BY <4>1, <3>1 DEF our_type, EfiTypes
    <3> QED BY <3>1, <3>3, <3>4 DEF Told
  <2> QED BY <2>1, <2>2
<1>10. PublishedInv' BY <1>0, <1>9 DEF PublishedInv
<1> QED BY <1>0, <1>6, <1>7, <1>8, <1>10, ElsewhereNext DEF EfiInv, Owning

(* A step that changes nothing keeps the invariant                         *)
LEMMA StutterInv == EfiInv /\ UNCHANGED vars => EfiInv'
<1> SUFFICES ASSUME EfiInv, UNCHANGED vars PROVE EfiInv' OBVIOUS
<1> USE DEF vars, loader, claiming
<1>1. TypeInv' /\ StartInv' /\ FirmwareInv' BY DEF EfiInv, TypeInv, StartInv, FirmwareInv
<1>2. ClaimInv' /\ OwnInv'
  <2>1. \A p \in Pages : Shifts(p) BY DEF Shifts
  <2> QED BY <2>1, FirmwareShifts DEF EfiInv, TypeInv
<1>3. ReleaseInv' BY DEF EfiInv, ReleaseInv, RegionPages, Apart
<1>4. RebuildInv' BY DEF EfiInv, RebuildInv, Described, Describing
<1>5. PublishedInv' BY DEF EfiInv, PublishedInv
<1> QED BY <1>1, <1>2, <1>3, <1>4, <1>5 DEF EfiInv

(* For every memory size, firmware map and sequence of firmware answers,   *)
(* the loader's maps and the firmware's agree on who owns each page, from  *)
(* init_memmap() over the claim in chunks with its fallbacks to            *)
(* efi_exit_boot_services() or pmm_release_uefi_mem(): EfiInv holds        *)
(* throughout                                                              *)
THEOREM EfiInvariant == Spec => []EfiInv
<1>1. EfiInv /\ [Next]_vars => EfiInv'
  <2> SUFFICES ASSUME EfiInv, [Next]_vars PROVE EfiInv' OBVIOUS
  <2>1. CASE Claiming
    BY <2>1, ReadMapInv, NextRegionInv, ClaimPagesInv, FallbackInv, FallbackByPageInv, FallbackByPageReturnsInv,
       FallbackReturnsInv, OwnImageInv DEF Claiming
  <2>2. CASE Running
    BY <2>2, AllocInv, FreeInv, ChainloadReadInv, ChainloadPathInv, ReleaseStepInv, GetMemmapInv, GetRawMemmapInv
       DEF Running
  <2>3. CASE Exiting
    BY <2>3, ExitBeginsInv, GetMemoryMapInv, GrowInv, ExitBootServicesInv, RebuildStepInv, RebuiltInv DEF Exiting
  <2>4. CASE Firmware BY <2>4, FirmwareMovesInv
  <2>5. CASE UNCHANGED vars BY <2>5, StutterInv
  <2> QED BY <2>1, <2>2, <2>3, <2>4, <2>5 DEF Next, Over
<1> QED BY <1>1, InitInv, PTL DEF Spec

(* The loader uses only pages that AllocatePages() granted, however the    *)
(* claim was cut into pieces and whatever was refused: UsesOnlyGrants      *)
(* holds for every memory size                                             *)
THEOREM GrantsSuffice == Spec => []UsesOnlyGrants
<1>1. EfiInv => UsesOnlyGrants
  <2> SUFFICES ASSUME EfiInv, pc \in Owning
               PROVE  /\ granted = {p \in Pages : untouched[p] = "usable"} \cup image
                      /\ \A p \in Pages : memmap[p] \in {"usable", "bootloader"} => p \in granted \cup ImagePages
                      /\ \A p \in granted : fw[p] = "loader"
                      /\ \A p \in StackPages \cup {0} : p \notin granted /\ memmap[p] \notin {"usable", "bootloader"}
    BY DEF UsesOnlyGrants
  <2>1. OwnInv /\ FirmwareInv /\ StackPages \cup {0} \subseteq Pages /\ ImagePages \cap (StackPages \cup {0}) = {}
    BY PagesAre, EfiMemoryConstants DEF EfiInv
  <2>2. \A p \in Pages : memmap[p] \in {"usable", "bootloader"} => p \in granted \cup ImagePages
    BY <2>1, UsableIsGranted
  <2>3. \A p \in StackPages \cup {0} : p \notin granted BY <2>1 DEF FirmwareInv
  <2>4. \A p \in StackPages \cup {0} : memmap[p] \notin {"usable", "bootloader"} BY <2>1, <2>2, <2>3
  <2> QED BY <2>1, <2>2, <2>3, <2>4 DEF OwnInv, FirmwareInv
<1> QED BY <1>1, EfiInvariant, PTL

(* Releasing memory for a chainloaded image never asks FreePages() for a   *)
(* page it does not have and never lets go of the image: ReleaseKeepsImage *)
(* holds for every memory size                                             *)
THEOREM ChainloadReleases == Spec => []ReleaseKeepsImage
<1>1. EfiInv => ReleaseKeepsImage
  BY DEF EfiInv, ReleaseInv, OwnInv, Owning, FirmwareInv, ReleaseKeepsImage
<1> QED BY <1>1, EfiInvariant, PTL

(* The maps that are published after ExitBootServices() are exact on every *)
(* page, whatever the firmware changed while the loader ran:               *)
(* PublishedMapsExact holds for every memory size                          *)
THEOREM PublishedMaps == Spec => []PublishedMapsExact
<1>1. EfiInv => PublishedMapsExact
  <2> SUFFICES ASSUME EfiInv, NEW p \in Pages, pc \in {"exited", "mapped", "raw"}
               PROVE  LET at == {d \in exit.copy : d.base <= p /\ p < d.top}
                      IN  IF fw[p] = "none" THEN at = {}
                          ELSE /\ \E d \in at : at = {d}
                               /\ EfiType(p) = IF p \in granted THEN "conventional" ELSE fw[p]
    BY DEF EfiInv, PublishedInv, PublishedMapsExact
  <2>1. Described(p) /\ fw \in [Pages -> EfiTypes] BY DEF EfiInv, RebuildInv, TypeInv
  <2>2. EfiType(p) = IF fw[p] # "none" /\ p \in granted THEN "conventional" ELSE fw[p] BY <2>1, EfiTypeIs
  <2>3. fw[p] = "none" => Describing(p) = {} BY <2>1 DEF Described
  <2>4. ASSUME fw[p] # "none" PROVE \E d \in Describing(p) : Describing(p) = {d}
    <3>1. PICK d : Describing(p) = {d} BY <2>1, <2>4 DEF Described
    <3> QED BY <3>1
  <2> QED BY <2>2, <2>3, <2>4 DEF Describing
<1> QED BY <1>1, EfiInvariant, PTL
=============================================================================
