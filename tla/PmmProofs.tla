------------------------------ MODULE PmmProofs ------------------------------
(***************************************************************************)
(* The allocator never hands out memory twice, and implements AddressSpace *)
(* for every firmware map, every size of the map's array and every order   *)
(* of calls.                                                               *)
(***************************************************************************)
EXTENDS Pmm, MemmapProofs

\* The usual order of the provers, and then both again with more time.
USE SMT, Zenon, SMTT(60), ZenonT(60)

LoanSet == [base: Nat, size: Nat \ {0}, type: MemTypes \ {"usable"}]

Within(l, a) == l.base <= a /\ a < l.base + l.size

(* Ranges handed out do not wrap, have their type as the one owner of all  *)
(* their addresses, in every turn of every loop, and are apart             *)
LoanInv ==
  /\ live \subseteq LoanSet
  /\ \A l \in live : l.base + l.size < AddrTop
  /\ \A l \in live, a \in Nat : Within(l, a) => Owners(a) = {l.type}
  /\ \A l, k \in live, a \in Nat : Within(l, a) /\ Within(k, a) => l = k
  /\ stage = "self" => live = {}

PmmInv ==
  /\ MapInv /\ LoanInv
  /\ stage \in {"self", "ready", "final"} /\ convBase \in Nat

LEMMA ClaimsType ==
  ASSUME NEW m \in Seq(EntrySet), NEW a
  PROVE  Claims(m, a) \subseteq MemTypes
<1>1. \A k \in 1..Len(m) : m[k] \in EntrySet BY ElementOfSeq
<1> QED BY <1>1, EntryType DEF Claims

LEMMA OwnerType ==
  ASSUME MapInv
  PROVE  [a \in Addresses |-> Settled(a)] \in [Addresses -> SUBSET MemTypes]
<1> SUFFICES ASSUME NEW a \in Addresses PROVE Settled(a) \in SUBSET MemTypes
  OBVIOUS
<1>1. Claims(memmap, a) \subseteq MemTypes /\ ins.type \in MemTypes
  BY ClaimsType, EntryType DEF MapInv, MapType
<1>2. Owners(a) \subseteq MemTypes BY <1>1 DEF Owners
<1> QED BY <1>2 DEF Settled

LEMMA OwnerTypeNext ==
  ASSUME MapInv'
  PROVE  [a \in Addresses |-> Settled(a)'] \in [Addresses -> SUBSET MemTypes]
<1> SUFFICES ASSUME NEW a \in Addresses PROVE Settled(a)' \in SUBSET MemTypes
  OBVIOUS
<1>1. memmap' \in Seq(EntrySet) /\ ins' \in EntrySet BY DEF MapInv, MapType
<1>2. Claims(memmap', a) \subseteq MemTypes /\ ins'.type \in MemTypes BY <1>1, ClaimsType, EntryType
<1>3. Owners(a)' = {ins'.type} \/ Owners(a)' = Claims(memmap', a)
  BY DEF Owners, Claims, Covers, Top, Wraps
<1>4. Owners(a)' \subseteq MemTypes BY <1>2, <1>3
<1> QED BY <1>4 DEF Settled

LEMMA AddressesNat == \A a \in Addresses : a \in Nat
BY MemmapConstants DEF Addresses

(* Calls of pmm_new_entry()                                                *)
LEMMA InsertStarts ==
  ASSUME PmmInv, phase = "idle", NEW b \in Nat, NEW n \in Nat, NEW t \in MemTypes, NEW more \in Nat,
         b + n < AddrTop, StartInsert(b, n, t, more)
  PROVE  /\ MapInv'
         /\ \A a \in Nat : Owners(a)' = IF b <= a /\ a < b + n THEN {t} ELSE Owners(a)
<1>1. /\ memmap' = memmap /\ phase' = "insert" /\ i' = 1 /\ j' = 1 /\ align' = FALSE /\ passes' = more
      /\ ins' = [base |-> b, length |-> n, type |-> t]
  BY DEF StartInsert, Entry
<1>2. /\ ins'.base = b /\ ins'.length = n /\ ins'.type = t BY <1>1
<1>3. Top(ins') = b + n BY <1>2 DEF Top
<1>4. ~Wraps(ins') BY <1>3, MemmapConstants DEF Wraps
<1>5. ins' \in EntrySet BY <1>1, <1>4 DEF EntrySet
<1>6. MapType'
  <2>1. memmap' \in Seq(EntrySet) BY <1>1 DEF PmmInv, MapInv, MapType
  <2>2. phase' \in Phases BY <1>1 DEF Phases
  <2>3. i' \in Nat \ {0} /\ j' \in Nat \ {0} /\ passes' \in Nat BY <1>1
  <2>4. align' \in BOOLEAN BY DEF StartInsert
  <2> QED BY <1>5, <2>1, <2>2, <2>3, <2>4 DEF MapType
<1>7. ClipInv' /\ UsableInv' BY <1>1 DEF ClipInv, UsableInv
<1>8. InsertInv'
  <2>1. \A k \in 1..Len(memmap') : ~(k < 1) OBVIOUS
  <2>2. ~Wraps(ins)' BY <1>4 DEF Wraps, Top
  <2> QED BY <1>1, <2>1, <2>2 DEF InsertInv
<1>9. ASSUME NEW a \in Nat PROVE Owners(a)' = IF b <= a /\ a < b + n THEN {t} ELSE Owners(a)
  <2>1. Owners(a) = Claims(memmap, a) BY DEF Owners
  <2>2. Owners(a)' = IF Covers(ins', a) THEN {ins'.type} ELSE Claims(memmap', a)
    BY <1>1 DEF Owners, Covers, Top, Claims, Wraps
  <2>3. Covers(ins', a) <=> b <= a /\ a < b + n BY <1>2, <1>3 DEF Covers
  <2> QED BY <1>1, <1>2, <2>1, <2>2, <2>3
<1> QED BY <1>6, <1>7, <1>8, <1>9 DEF MapInv

(* Usable memory is free: it is nobody's loan                              *)
LEMMA UsableIsFree ==
  ASSUME PmmInv, phase = "idle", NEW k \in 1..Len(memmap), memmap[k].type = "usable", ~Wraps(memmap[k]),
         NEW a \in Nat, memmap[k].base <= a, a < Top(memmap[k])
  PROVE  Owners(a) = {"usable"} /\ \A l \in live : ~Within(l, a)
<1>1. Has(memmap, a, "usable") BY DEF Has, Hit, Covers
<1>2. \A t : Has(memmap, a, t) => t = "usable" BY <1>1 DEF PmmInv, MapInv, UsableInv, UsableApart
<1>3. Owners(a) = Claims(memmap, a) BY DEF Owners
<1>4. \A t : t \in Claims(memmap, a) <=> Has(memmap, a, t) BY HasClaims
<1>5. Owners(a) = {"usable"} BY <1>1, <1>2, <1>3, <1>4
<1>6. ASSUME NEW l \in live, Within(l, a) PROVE FALSE
  <2>1. Owners(a) = {l.type} /\ l.type # "usable" BY <1>6 DEF PmmInv, LoanInv, LoanSet
  <2> QED BY <1>5, <2>1
<1> QED BY <1>5, <1>6

LEMMA CellsWithin ==
  ASSUME NEW l
  PROVE  Promise!Cells(l) = {a \in Addresses : Within(l, a)}
BY DEF Promise!Cells, Within

(* Usable memory is handed out: n bytes are taken from b on, of which the  *)
(* first size are the caller's                                             *)
LEMMA ClaimStep ==
  ASSUME PmmInv, phase = "idle", stage = "ready", stage' = "ready", convBase' \in Nat,
         NEW k \in 1..Len(memmap), memmap[k].type = "usable", ~Wraps(memmap[k]),
         NEW b \in Nat, NEW n \in Nat, NEW size \in Nat \ {0}, NEW t \in MemTypes \ {"usable"}, NEW more \in Nat,
         memmap[k].base <= b, size <= n, b + n <= Top(memmap[k]),
         StartInsert(b, n, t, more), live' = live \cup {Loan(b, size, t)}
  PROVE  PmmInv' /\ Promise!Next
<1> DEFINE l == Loan(b, size, t)
<1>1. memmap[k] \in EntrySet BY ElementOfSeq DEF PmmInv, MapInv, MapType
<1>2. Top(memmap[k]) \in Nat /\ memmap[k].base \in Nat /\ Top(memmap[k]) < AddrTop /\ AddrTop \in Nat
  BY <1>1, EntryType, MemmapConstants DEF Wraps
<1>3. b + n < AddrTop BY <1>2
<1>4. /\ MapInv'
      /\ \A a \in Nat : Owners(a)' = IF b <= a /\ a < b + n THEN {t} ELSE Owners(a)
  BY <1>3, InsertStarts
<1>5. ASSUME NEW a \in Nat, b <= a, a < b + n PROVE Owners(a) = {"usable"} /\ \A x \in live : ~Within(x, a)
  <2>1. memmap[k].base <= a /\ a < Top(memmap[k]) BY <1>2, <1>5
  <2> QED BY <2>1, UsableIsFree
<1>6. l \in LoanSet /\ l.base = b /\ l.size = size /\ l.type = t BY DEF Loan, LoanSet
<1> HIDE DEF l
<1>7. \A a \in Nat : Within(l, a) => b <= a /\ a < b + n BY <1>6 DEF Within
<1>8. live' = live \cup {l} BY DEF l
<1>9. l \notin live
  <2>1. Within(l, b) BY <1>6 DEF Within
  <2>2. b <= b /\ b < b + n OBVIOUS
  <2> QED BY <1>5, <2>1, <2>2
<1>10. LoanInv'
  <2>1. live' \subseteq LoanSet BY <1>6, <1>8 DEF PmmInv, LoanInv
  <2>2. \A x \in live' : x.base + x.size < AddrTop
    <3>1. l.base + l.size < AddrTop BY <1>2, <1>6
    <3> QED BY <1>8, <3>1 DEF PmmInv, LoanInv
  <2>3. ASSUME NEW x \in live', NEW a \in Nat, Within(x, a) PROVE Owners(a)' = {x.type}
    <3>1. CASE x = l BY <1>4, <1>6, <1>7, <2>3, <3>1
    <3>2. CASE x # l
      <4>1. x \in live BY <1>8, <3>2
      <4>2. ~(b <= a /\ a < b + n) BY <1>5, <2>3, <4>1
      <4> QED BY <1>4, <2>3, <4>1, <4>2 DEF PmmInv, LoanInv
    <3> QED BY <3>1, <3>2
  <2>4. ASSUME NEW x \in live', NEW y \in live', NEW a \in Nat, Within(x, a), Within(y, a) PROVE x = y
    <3>1. \A z \in live : ~(Within(l, a) /\ Within(z, a)) BY <1>5, <1>7
    <3> QED BY <1>8, <2>4, <3>1 DEF PmmInv, LoanInv
  <2> QED BY <2>1, <2>2, <2>3, <2>4 DEF LoanInv, Within
<1>11. PmmInv' BY <1>4, <1>10 DEF PmmInv
<1>12. Promise!Claim(l)
  <2>1. l.type \in MemTypes \ {"usable"} BY <1>6
  <2>2. ASSUME NEW a \in Nat, b <= a, a < b + n PROVE Settled(a) = {"usable"} /\ Settled(a)' = {t}
    <3>1. Owners(a) = {"usable"} /\ Owners(a)' = {t} BY <1>4, <1>5, <2>2
    <3> QED BY <3>1 DEF Settled
  <2>3. ASSUME NEW a \in Nat, ~(b <= a /\ a < b + n) PROVE Settled(a)' = Settled(a)
    <3>1. Owners(a)' = Owners(a) BY <1>4, <2>3
    <3> QED BY <3>1 DEF Settled
  <2>4. ASSUME NEW a \in Promise!Cells(l)
        PROVE  a \in Addresses /\ Settled(a) = {"usable"} /\ Settled(a)' = {l.type}
    BY <1>6, <1>7, <2>2, CellsWithin, AddressesNat
  <2>5. ASSUME NEW a \in Addresses
        PROVE  Settled(a)' = Settled(a) \/ (Settled(a) = {"usable"} /\ Settled(a)' = {l.type})
    BY <1>6, <2>2, <2>3, AddressesNat
  <2> QED BY <1>8, <2>1, <2>4, <2>5 DEF Promise!Claim
<1>13. [a \in Addresses |-> Settled(a)'] \in [Addresses -> SUBSET MemTypes]
  BY <1>4, OwnerTypeNext
<1>14. l \in live' \ live BY <1>8, <1>9
<1> QED BY <1>11, <1>12, <1>13, <1>14 DEF Promise!Next

-----------------------------------------------------------------------------
(* The operations that hand out usable memory                              *)

LEMMA RoundedType ==
  ASSUME NEW count \in Nat, NEW alignment \in Nat \ {0}
  PROVE  Rounded(count, alignment) \in Nat \ {0}
<1> DEFINE c == IF count = 0 THEN 1 ELSE count
<1>1. c \in Nat /\ c >= 1 OBVIOUS
<1>2. Rounded(count, alignment) = AlignUp(c, alignment) BY DEF Rounded
<1> HIDE DEF c
<1>3. AlignUp(c, alignment) \in Nat /\ c <= AlignUp(c, alignment) BY <1>1, AlignUpFacts
<1> QED BY <1>1, <1>2, <1>3

LEMMA CutFacts ==
  ASSUME PmmInv, NEW k \in 1..Len(memmap), NEW limit \in Nat
  PROVE  /\ memmap[k] \in EntrySet /\ memmap[k].base \in Nat /\ Top(memmap[k]) \in Nat
         /\ Cut(k, limit) \in Nat /\ Cut(k, limit) <= Top(memmap[k])
<1>1. memmap[k] \in EntrySet BY ElementOfSeq DEF PmmInv, MapInv, MapType
<1>2. memmap[k].base \in Nat /\ Top(memmap[k]) \in Nat BY <1>1, EntryType
<1> QED BY <1>1, <1>2 DEF Cut

(* Where the entry has room, the range is in it                            *)
LEMMA TopDownFits ==
  ASSUME PmmInv, NEW size \in Nat \ {0}, NEW alignment \in Nat \ {0}, NEW limit \in Nat,
         NEW k \in Fitting(size, alignment, limit)
  PROVE  LET base == TopDownBase(k, size, alignment, limit)
         IN  /\ base \in Nat /\ memmap[k].base <= base /\ base + size <= Cut(k, limit)
             /\ k \in 1..Len(memmap) /\ memmap[k].type = "usable" /\ ~Wraps(memmap[k])
<1> DEFINE c == Cut(k, limit)
           base == TopDownBase(k, size, alignment, limit)
<1>1. /\ k \in 1..Len(memmap) /\ memmap[k].type = "usable" /\ ~Wraps(memmap[k])
      /\ memmap[k].base < c /\ c - memmap[k].base >= size /\ base >= memmap[k].base
  BY DEF Fitting
<1>2. memmap[k].base \in Nat /\ c \in Nat BY <1>1, CutFacts
<1>3. base = AlignDown(c - size, alignment) BY DEF TopDownBase
<1> HIDE DEF c, base
<1>4. c - size \in Nat BY <1>1, <1>2
<1>5. base \in Nat /\ base <= c - size BY <1>3, <1>4, AlignDownFacts
<1>6. base + size <= c /\ memmap[k].base <= base BY <1>1, <1>2, <1>5
<1> QED BY <1>1, <1>5, <1>6 DEF c, base

LEMMA BottomUpFits ==
  ASSUME PmmInv, NEW size \in Nat \ {0}, NEW alignment \in Nat \ {0}, NEW limit \in Nat,
         NEW k \in FittingUp(size, alignment, limit)
  PROVE  LET base == BottomUpBase(k, alignment)
         IN  /\ base \in Nat /\ memmap[k].base <= base /\ base + size <= Cut(k, limit)
             /\ k \in 1..Len(memmap) /\ memmap[k].type = "usable" /\ ~Wraps(memmap[k])
<1> DEFINE c == Cut(k, limit)
           base == BottomUpBase(k, alignment)
<1>1. /\ k \in 1..Len(memmap) /\ memmap[k].type = "usable" /\ ~Wraps(memmap[k])
      /\ memmap[k].base < c /\ base <= c - size
  BY DEF FittingUp
<1>2. memmap[k].base \in Nat /\ c \in Nat BY <1>1, CutFacts
<1>3. base \in Nat /\ memmap[k].base <= base BY <1>2, AlignUpFacts DEF BottomUpBase
<1> HIDE DEF c, base
<1>4. base + size <= c BY <1>1, <1>2, <1>3
<1> QED BY <1>1, <1>3, <1>4 DEF c, base

LEMMA ExtStep ==
  ASSUME PmmInv, NEW count \in Sizes, NEW type \in AllocTypes, NEW alignment \in Alignments, NEW high,
         ext_mem_alloc(count, type, alignment, high)
  PROVE  PmmInv' /\ Promise!Next
<1> DEFINE size == Rounded(count, alignment)
           limit == ExtLimit(size, alignment, high)
<1>1. count \in Nat /\ alignment \in Nat \ {0} /\ type \in MemTypes \ {"usable"} BY PmmConstants
<1>2. size \in Nat \ {0} BY <1>1, RoundedType
<1>3. limit \in Nat BY PmmConstants, MemmapConstants DEF ExtLimit
<1>4. PICK k \in Fitting(size, alignment, limit) :
        /\ StartInsert(TopDownBase(k, size, alignment, limit),
                       Cut(k, limit) - TopDownBase(k, size, alignment, limit), type, 1)
        /\ live' = live \cup {Loan(TopDownBase(k, size, alignment, limit), size, type)}
  BY DEF ext_mem_alloc
<1> HIDE DEF size, limit
<1> DEFINE base == TopDownBase(k, size, alignment, limit)
           c == Cut(k, limit)
<1>5. /\ base \in Nat /\ memmap[k].base <= base /\ base + size <= c
      /\ k \in 1..Len(memmap) /\ memmap[k].type = "usable" /\ ~Wraps(memmap[k])
  BY <1>1, <1>2, <1>3, TopDownFits
<1>6. c \in Nat /\ c <= Top(memmap[k]) BY <1>3, <1>5, CutFacts
<1>7. StartInsert(base, c - base, type, 1) /\ live' = live \cup {Loan(base, size, type)} BY <1>4
<1>8. phase = "idle" /\ stage = "ready" /\ stage' = "ready" /\ convBase' \in Nat
  BY DEF ext_mem_alloc, Ready, PmmInv
<1> HIDE DEF base, c
<1>9. c - base \in Nat /\ size <= c - base /\ base + (c - base) <= Top(memmap[k])
  <2>1. base + (c - base) = c BY <1>5, <1>6
  <2> QED BY <1>2, <1>5, <1>6, <2>1
<1> QED BY <1>1, <1>2, <1>5, <1>7, <1>8, <1>9, ClaimStep

LEMMA BelowStep ==
  ASSUME PmmInv, NEW count \in Sizes, NEW type \in AllocTypes, NEW alignment \in Alignments,
         NEW limit \in Limits, NEW bottomUp \in BOOLEAN,
         alloc_below(count, type, alignment, limit, bottomUp)
  PROVE  PmmInv' /\ Promise!Next
<1> DEFINE size == Rounded(count, alignment)
<1>1. count \in Nat /\ alignment \in Nat \ {0} /\ type \in MemTypes \ {"usable"} /\ limit \in Nat
  BY PmmConstants, MemmapConstants
<1>2. size \in Nat \ {0} BY <1>1, RoundedType
<1>3. PICK k \in FittingBelow(size, alignment, limit, bottomUp) :
        LET base == IF bottomUp THEN BottomUpBase(k, alignment) ELSE TopDownBase(k, size, alignment, limit)
        IN  /\ StartInsert(base, size, type, 1)
            /\ live' = live \cup {Loan(base, size, type)}
  BY DEF alloc_below
<1> HIDE DEF size
<1> DEFINE base == IF bottomUp THEN BottomUpBase(k, alignment) ELSE TopDownBase(k, size, alignment, limit)
           c == Cut(k, limit)
<1>4. /\ base \in Nat /\ memmap[k].base <= base /\ base + size <= c
      /\ k \in 1..Len(memmap) /\ memmap[k].type = "usable" /\ ~Wraps(memmap[k])
  <2>1. CASE bottomUp BY <1>1, <1>2, <2>1, BottomUpFits DEF FittingBelow
  <2>2. CASE ~bottomUp BY <1>1, <1>2, <2>2, TopDownFits DEF FittingBelow
  <2> QED BY <2>1, <2>2
<1>5. c \in Nat /\ c <= Top(memmap[k]) /\ Top(memmap[k]) \in Nat BY <1>1, <1>4, CutFacts
<1>6. StartInsert(base, size, type, 1) /\ live' = live \cup {Loan(base, size, type)} BY <1>3
<1>7. phase = "idle" /\ stage = "ready" /\ stage' = "ready" /\ convBase' \in Nat
  BY DEF alloc_below, Ready, PmmInv
<1> HIDE DEF base, c
<1>8. size \in Nat /\ size <= size /\ base + size <= Top(memmap[k]) BY <1>2, <1>4, <1>5
<1> QED BY <1>1, <1>2, <1>4, <1>6, <1>7, <1>8, ClaimStep

(* memmap_alloc_range() of usable memory                                   *)
LEMMA RangeStep ==
  ASSUME PmmInv, Ready, stage' = stage, convBase' \in Nat,
         NEW base \in Nat, NEW size \in Nat \ {0}, NEW type \in MemTypes \ {"usable"}, NEW more \in Nat,
         AllocRangeOK(base, base + size, {"usable"}),
         StartInsert(base, size, type, more), live' = live \cup {Loan(base, size, type)}
  PROVE  PmmInv' /\ Promise!Next
<1>1. PICK k \in 1..Len(memmap) :
        /\ memmap[k].type = "usable" /\ ~Wraps(memmap[k])
        /\ base >= memmap[k].base /\ base + size <= Top(memmap[k])
  BY DEF AllocRangeOK
<1>2. memmap[k] \in EntrySet BY ElementOfSeq DEF PmmInv, MapInv, MapType
<1>3. memmap[k].base <= base /\ size <= size /\ size \in Nat BY <1>1, <1>2, EntryType
<1>4. phase = "idle" /\ stage = "ready" /\ stage' = "ready" BY DEF Ready
<1> QED BY <1>1, <1>3, <1>4, ClaimStep

LEMMA ConvStep ==
  ASSUME PmmInv, NEW count \in Sizes, conv_mem_alloc(count)
  PROVE  PmmInv' /\ Promise!Next
<1> DEFINE size == Rounded(count, PageSize)
<1>1. size \in Nat \ {0} BY RoundedType, PmmConstants, MemmapConstants
<1>2. PICK base \in convBase..OneMiB :
        /\ AllocRangeOK(base, base + size, {"usable"})
        /\ StartInsert(base, size, "bootloader", 1)
        /\ live' = live \cup {Loan(base, size, "bootloader")}
        /\ convBase' = base + size
  BY DEF conv_mem_alloc, ConvFits
<1> HIDE DEF size
<1>3. base \in Nat /\ convBase' \in Nat
  <2>1. convBase \in Nat /\ OneMiB \in Nat BY PmmConstants DEF PmmInv
  <2> QED BY <1>1, <1>2, <2>1
<1>4. Ready /\ stage' = stage /\ "bootloader" \in MemTypes \ {"usable"} BY DEF conv_mem_alloc, MemTypes
<1> QED BY <1>1, <1>2, <1>3, <1>4, RangeStep

LEMMA FixedStep ==
  ASSUME PmmInv, NEW r \in Fixed, ClaimRange(r[1], r[2], "kernel")
  PROVE  PmmInv' /\ Promise!Next
<1>1. r[1] \in Nat /\ r[2] \in Nat \ {0} BY PmmConstants
<1>2. /\ Ready /\ stage' = stage /\ convBase' \in Nat /\ "kernel" \in MemTypes \ {"usable"}
      /\ AllocRangeOK(r[1], r[1] + r[2], {"usable"})
      /\ StartInsert(r[1], r[2], "kernel", 0) /\ live' = live \cup {Loan(r[1], r[2], "kernel")}
  BY DEF ClaimRange, MemTypes, PmmInv
<1> QED BY <1>1, <1>2, RangeStep

-----------------------------------------------------------------------------
(* The other operations                                                    *)

LEMMA SelfStep ==
  ASSUME PmmInv, AllocSelf
  PROVE  PmmInv' /\ Promise!Next
<1> DEFINE n == BssEnd - PageSize
<1>1. /\ PageSize \in Nat /\ BssEnd \in Nat /\ n \in Nat \ {0} /\ PageSize + n < AddrTop
      /\ AddrTop \in Nat
  BY PmmConstants, MemmapConstants
<1>2. /\ phase = "idle" /\ stage = "self" /\ stage' = "ready" /\ convBase' = convBase
      /\ StartInsert(PageSize, n, "bootloader", 1) /\ live' = {Self} /\ live = {}
  BY DEF AllocSelf, PmmInv, LoanInv
<1>3. Self \in LoanSet /\ Self.base = PageSize /\ Self.size = n /\ Self.type = "bootloader"
  <2>1. "bootloader" \in MemTypes \ {"usable"} BY DEF MemTypes
  <2> QED BY <1>1, <2>1 DEF Self, Loan, LoanSet
<1> HIDE DEF n
<1>4. /\ MapInv'
      /\ \A a \in Nat : Owners(a)' = IF PageSize <= a /\ a < PageSize + n THEN {"bootloader"} ELSE Owners(a)
  <2>1. "bootloader" \in MemTypes /\ n \in Nat BY <1>1 DEF MemTypes
  <2> QED BY <1>1, <1>2, <2>1, InsertStarts
<1>5. \A a \in Nat : Within(Self, a) <=> PageSize <= a /\ a < PageSize + n BY <1>3 DEF Within
<1>6. LoanInv'
  <2>1. live' \subseteq LoanSet BY <1>2, <1>3
  <2>2. \A l \in live' : l.base + l.size < AddrTop BY <1>1, <1>2, <1>3
  <2>3. \A l \in live', a \in Nat : Within(l, a) => Owners(a)' = {l.type} BY <1>2, <1>3, <1>4, <1>5
  <2>4. \A l, k \in live' : l = k BY <1>2
  <2> QED BY <1>2, <2>1, <2>2, <2>3, <2>4 DEF LoanInv, Within
<1>7. PmmInv' BY <1>2, <1>4, <1>6 DEF PmmInv
<1>8. Promise!Adopt(Self)
  <2>1. Self.type \in MemTypes \ {"usable"} BY <1>3 DEF MemTypes
  <2>2. ASSUME NEW a \in Promise!Cells(Self) PROVE a \in Addresses /\ Settled(a)' = {Self.type}
    <3>1. a \in Addresses /\ a \in Nat /\ Within(Self, a) BY <2>2, CellsWithin, AddressesNat
    <3>2. Owners(a)' = {Self.type} BY <1>3, <1>4, <1>5, <3>1
    <3>3. Self.type # "usable" BY <1>3
    <3> QED BY <3>1, <3>2, <3>3 DEF Settled
  <2>3. ASSUME NEW a \in Addresses \ Promise!Cells(Self) PROVE Settled(a)' = Settled(a)
    <3>1. a \in Nat /\ ~Within(Self, a) BY <2>3, CellsWithin, AddressesNat
    <3>2. Owners(a)' = Owners(a) BY <1>4, <1>5, <3>1
    <3> QED BY <3>2 DEF Settled
  <2>4. Promise!LiveCells = {} BY <1>2 DEF Promise!LiveCells
  <2>5. live' = live \cup {Self} BY <1>2
  <2> QED BY <2>1, <2>2, <2>3, <2>4, <2>5 DEF Promise!Adopt
<1>9. [a \in Addresses |-> Settled(a)'] \in [Addresses -> SUBSET MemTypes] BY <1>4, OwnerTypeNext
<1>10. Self \in live' \ live BY <1>2
<1> QED BY <1>7, <1>8, <1>9, <1>10 DEF Promise!Next

LEMMA FreeStep ==
  ASSUME PmmInv, NEW l \in live, pmm_free(l)
  PROVE  PmmInv' /\ Promise!Next
<1>1. l \in LoanSet /\ l.base + l.size < AddrTop BY DEF PmmInv, LoanInv
<1>2. l.base \in Nat /\ l.size \in Nat /\ AddrTop \in Nat BY <1>1, MemmapConstants DEF LoanSet
<1>3. PICK count \in 1..l.size : StartInsert(l.base, count, "usable", 0) BY DEF pmm_free
<1>4. phase = "idle" /\ stage' = stage /\ convBase' = convBase /\ live' = live \ {l} /\ stage = "ready"
  BY DEF pmm_free, Ready
<1>5. count \in Nat /\ l.base + count < AddrTop /\ count <= l.size BY <1>1, <1>2
<1>6. /\ MapInv'
      /\ \A a \in Nat : Owners(a)' = IF l.base <= a /\ a < l.base + count THEN {"usable"} ELSE Owners(a)
  <2>1. "usable" \in MemTypes BY DEF MemTypes
  <2> QED BY <1>2, <1>3, <1>4, <1>5, <2>1, InsertStarts
<1>7. \A a \in Nat : l.base <= a /\ a < l.base + count => Within(l, a) BY <1>2, <1>5 DEF Within
<1>8. LoanInv'
  <2>1. live' \subseteq LoanSet /\ live' \subseteq live BY <1>4 DEF PmmInv, LoanInv
  <2>2. ASSUME NEW k \in live', NEW a \in Nat, Within(k, a) PROVE Owners(a)' = {k.type}
    <3>1. k \in live /\ k # l BY <1>4
    <3>2. ~Within(l, a) BY <2>2, <3>1 DEF PmmInv, LoanInv
    <3>3. Owners(a)' = Owners(a) BY <1>6, <1>7, <3>2
    <3> QED BY <2>2, <3>1, <3>3 DEF PmmInv, LoanInv
  <2>3. \A k \in live' : k.base + k.size < AddrTop BY <2>1 DEF PmmInv, LoanInv
  <2>4. \A k, m \in live', a \in Nat : Within(k, a) /\ Within(m, a) => k = m BY <2>1 DEF PmmInv, LoanInv
  <2> QED BY <1>4, <2>1, <2>2, <2>3, <2>4 DEF LoanInv, Within
<1>9. PmmInv' BY <1>4, <1>6, <1>8 DEF PmmInv
<1>10. Promise!Release(l)
  <2>1. ASSUME NEW a \in Addresses
        PROVE  Settled(a)' = Settled(a) \/ (Settled(a)' = {"usable"} /\ a \in Promise!Cells(l))
    <3>1. a \in Nat BY AddressesNat
    <3>2. CASE l.base <= a /\ a < l.base + count
      <4>1. Owners(a)' = {"usable"} /\ Within(l, a) BY <1>6, <1>7, <3>1, <3>2
      <4> QED BY <4>1, CellsWithin DEF Settled
    <3>3. CASE ~(l.base <= a /\ a < l.base + count)
      <4>1. Owners(a)' = Owners(a) BY <1>6, <3>1, <3>3
      <4> QED BY <4>1 DEF Settled
    <3> QED BY <3>2, <3>3
  <2> QED BY <1>4, <2>1 DEF Promise!Release
<1>11. [a \in Addresses |-> Settled(a)'] \in [Addresses -> SUBSET MemTypes] BY <1>6, OwnerTypeNext
<1> QED BY <1>9, <1>10, <1>11 DEF Promise!Next

LEMMA TableStep ==
  ASSUME PmmInv, NEW r \in Tables, MapTable(r[1], r[2], r[3])
  PROVE  PmmInv' /\ Promise!Next
<1> DEFINE b == r[1]
           n == r[2]
           t == r[3]
<1>1. b \in Nat /\ n \in Nat /\ b + n < AddrTop /\ t \in MemTypes \ {"usable"}
  BY PmmConstants DEF MemTypes
<1>2. /\ phase = "idle" /\ stage' = stage /\ convBase' = convBase /\ live' = live
      /\ StartInsert(b, n, t, 0)
      /\ \A l \in live : b + n <= l.base \/ l.base + l.size <= b
  BY DEF MapTable, Ready, pmmvars
<1> HIDE DEF b, n, t
<1>3. /\ MapInv'
      /\ \A a \in Nat : Owners(a)' = IF b <= a /\ a < b + n THEN {t} ELSE Owners(a)
  BY <1>1, <1>2, InsertStarts
<1>4. ASSUME NEW l \in live, NEW a \in Nat, Within(l, a) PROVE ~(b <= a /\ a < b + n)
  <2>1. l.base \in Nat /\ l.size \in Nat BY DEF PmmInv, LoanInv, LoanSet
  <2> QED BY <1>1, <1>2, <1>4, <2>1 DEF Within
<1>5. LoanInv'
  <2>1. \A l \in live, a \in Nat : Within(l, a) => Owners(a)' = {l.type}
    BY <1>3, <1>4 DEF PmmInv, LoanInv
  <2> QED BY <1>2, <2>1 DEF PmmInv, LoanInv, Within
<1>6. PmmInv' BY <1>2, <1>3, <1>5 DEF PmmInv
<1>7. Promise!Reserve(t)
  <2>1. ASSUME NEW a \in Addresses
        PROVE  Settled(a)' = Settled(a) \/ (Settled(a)' = {t} /\ a \notin Promise!LiveCells)
    <3>1. a \in Nat BY AddressesNat
    <3>2. CASE b <= a /\ a < b + n
      <4>1. Owners(a)' = {t} /\ t # "usable" BY <1>1, <1>3, <3>1, <3>2
      <4>2. \A l \in live : a \notin Promise!Cells(l) BY <1>4, <3>1, <3>2, CellsWithin
      <4> QED BY <4>1, <4>2 DEF Settled, Promise!LiveCells
    <3>3. CASE ~(b <= a /\ a < b + n)
      <4>1. Owners(a)' = Owners(a) BY <1>3, <3>1, <3>3
      <4> QED BY <4>1 DEF Settled
    <3> QED BY <3>2, <3>3
  <2> QED BY <1>1, <1>2, <2>1 DEF Promise!Reserve
<1>8. [a \in Addresses |-> Settled(a)'] \in [Addresses -> SUBSET MemTypes] BY <1>3, OwnerTypeNext
<1> QED BY <1>1, <1>6, <1>7, <1>8 DEF Promise!Next

(* Steps that neither change the map nor start pmm_new_entry()             *)
LEMMA QuietStep ==
  ASSUME PmmInv, phase = "idle", phase' \in {"clip", "panic"}, UNCHANGED <<memmap, ins, live, convBase>>,
         (i' = 1 /\ j' = 1) \/ phase' = "panic", MapType', stage' \in {"self", "ready", "final"},
         stage' = "self" => stage = "self"
  PROVE  PmmInv' /\ UNCHANGED Promise!vars
<1>1. InsertInv' /\ UsableInv' BY DEF InsertInv, UsableInv
<1>2. ClipInv'
  <2> SUFFICES ASSUME NEW k \in 1..Len(memmap'), NEW n \in 1..Len(memmap'),
                      k < 1 \/ (k = 1 /\ n < 1)
               PROVE  FALSE
    BY DEF ClipInv
  <2> QED OBVIOUS
<1>3. \A a : Owners(a)' = Owners(a) BY DEF Owners, Claims, Covers, Top, Wraps
<1>4. \A a : Settled(a)' = Settled(a) BY <1>3 DEF Settled
<1>5. LoanInv' BY <1>3 DEF PmmInv, LoanInv, Within
<1>6. PmmInv' BY <1>1, <1>2, <1>5 DEF PmmInv, MapInv
<1> QED BY <1>4, <1>6 DEF Promise!vars

LEMMA LoopKeeps ==
  ASSUME PmmInv, LoopStep
  PROVE  PmmInv' /\ Promise!Next
<1>1. /\ MapInv'
      /\ \A a \in Nat : Owners(a)' = Owners(a) \/ Owners(a)' = Owners(a) \ {"usable"}
  BY MapTurn DEF PmmInv, LoopStep
<1>2. live' = live /\ stage' = stage /\ convBase' = convBase BY DEF LoopStep, pmmvars
<1>3. LoanInv'
  <2>1. ASSUME NEW l \in live, NEW a \in Nat, Within(l, a) PROVE Owners(a)' = {l.type}
    <3>1. Owners(a) = {l.type} /\ l.type # "usable" BY <2>1 DEF PmmInv, LoanInv, LoanSet
    <3> QED BY <1>1, <3>1
  <2> QED BY <1>2, <2>1 DEF PmmInv, LoanInv, Within
<1>4. PmmInv' BY <1>1, <1>2, <1>3 DEF PmmInv
<1>5. Promise!Trim
  <2>1. ASSUME NEW a \in Addresses
        PROVE  Settled(a)' = Settled(a) \/ (Settled(a) = {"usable"} /\ Settled(a)' = {})
    <3>1. Owners(a)' = Owners(a) \/ Owners(a)' = Owners(a) \ {"usable"} BY <1>1, AddressesNat
    <3> QED BY <3>1 DEF Settled
  <2> QED BY <1>2, <2>1 DEF Promise!Trim
<1>6. [a \in Addresses |-> Settled(a)'] \in [Addresses -> SUBSET MemTypes] BY <1>1, OwnerTypeNext
<1> QED BY <1>4, <1>5, <1>6 DEF Promise!Next

LEMMA PanicStep ==
  ASSUME PmmInv, phase = "idle", Panic, UNCHANGED pmmvars
  PROVE  PmmInv' /\ UNCHANGED Promise!vars
<1>1. /\ phase' = "panic" /\ UNCHANGED <<memmap, ins, live, convBase>> /\ stage' = stage
  BY DEF Panic, pmmvars
<1>2. MapType' BY DEF Panic, PmmInv, MapInv, MapType, Phases
<1>3. stage' \in {"self", "ready", "final"} BY <1>1 DEF PmmInv
<1> QED BY <1>1, <1>2, <1>3, QuietStep

LEMMA SanitiseStep ==
  ASSUME PmmInv, SanitiseAligned \/ get_memmap
  PROVE  PmmInv' /\ UNCHANGED Promise!vars
<1>1. /\ phase = "idle" /\ phase' = "clip" /\ i' = 1 /\ j' = 1 /\ UNCHANGED <<memmap, ins, live, convBase>>
      /\ stage' \in {"ready", "final"} /\ align' = TRUE /\ passes' = 0
  BY DEF SanitiseAligned, get_memmap, StartSanitise, Ready, pmmvars
<1>2. MapType' BY <1>1 DEF PmmInv, MapInv, MapType, Phases
<1> QED BY <1>1, <1>2, QuietStep

LEMMA StepKeeps ==
  ASSUME PmmInv, Next
  PROVE  PmmInv' /\ (Promise!Next \/ UNCHANGED Promise!vars)
<1>1. CASE LoopStep BY <1>1, LoopKeeps
<1>2. CASE AllocSelf BY <1>2, SelfStep
<1>3. CASE AllocSelfFails BY <1>3, PanicStep DEF AllocSelfFails
<1>4. CASE \E count \in Sizes, alignment \in Alignments, type \in AllocTypes, high \in BOOLEAN :
             ext_mem_alloc(count, type, alignment, high)
  BY <1>4, ExtStep
<1>5. CASE \E count \in Sizes, alignment \in Alignments, type \in AllocTypes,
              limit \in Limits, bottomUp \in BOOLEAN :
             alloc_below(count, type, alignment, limit, bottomUp)
  BY <1>5, BelowStep
<1>6. CASE \E count \in Sizes, alignment \in Alignments, high \in BOOLEAN : ExtMemFails(count, alignment, high)
  BY <1>6, PanicStep DEF ExtMemFails, Ready
<1>7. CASE \E count \in Sizes, alignment \in Alignments, limit \in Limits, bottomUp \in BOOLEAN :
             AllocBelowFails(count, alignment, limit, bottomUp)
  BY <1>7, PanicStep DEF AllocBelowFails, Ready
<1>8. CASE \E count \in Sizes : conv_mem_alloc(count) BY <1>8, ConvStep
<1>9. CASE \E count \in Sizes : ConvMemFails(count) BY <1>9, PanicStep DEF ConvMemFails, Ready
<1>10. CASE \E r \in Fixed : ClaimRange(r[1], r[2], "kernel") BY <1>10, FixedStep
<1>11. CASE \E l \in live : pmm_free(l) BY <1>11, FreeStep
<1>12. CASE \E r \in Tables : MapTable(r[1], r[2], r[3]) BY <1>12, TableStep
<1>13. CASE SanitiseAligned \/ get_memmap BY <1>13, SanitiseStep
<1> QED BY <1>1, <1>2, <1>3, <1>4, <1>5, <1>6, <1>7, <1>8, <1>9, <1>10, <1>11, <1>12, <1>13
        DEF Next, Operation

(* init_memmap() imports entries, and none of a type that may not wrap     *)
LEMMA ImportType ==
  ASSUME NEW e \in [base: Nat, length: Nat, type: E820Types], Imported(e)
  PROVE  Import(e) \in EntrySet
<1>1. /\ e.base \in Nat /\ e.length \in Nat /\ e.type \in MemTypes /\ Top(e) \in Nat
      /\ e.type \notin Mergeable \ {"usable"}
  BY DEF E820Types, MemTypes, Mergeable, Top
<1>2. \A b, n \in Nat : Entry(b, n, e.type) \in EntrySet BY <1>1 DEF Entry, EntrySet
<1>3. CASE InHole(e)
  <2>1. Top(e) - OneMiB \in Nat /\ OneMiB \in Nat BY <1>1, <1>3, PmmConstants DEF Imported
  <2>2. Import(e) = Entry(OneMiB, Top(e) - OneMiB, e.type) BY <1>3 DEF Import, Span
  <2> QED BY <1>2, <2>1, <2>2
<1>4. CASE ~InHole(e) /\ e.type = "usable" /\ Top(e) > Ebda /\ Top(e) <= OneMiB
  <2>1. (Ebda - e.base) % AddrTop \in Nat BY <1>1, PmmConstants, MemmapConstants
  <2>2. Import(e) = Entry(e.base, (Ebda - e.base) % AddrTop, e.type) BY <1>4 DEF Import
  <2> QED BY <1>1, <1>2, <2>1, <2>2
<1>5. CASE ~InHole(e) /\ ~(e.type = "usable" /\ Top(e) > Ebda /\ Top(e) <= OneMiB)
  <2>1. Import(e) = e BY <1>5 DEF Import
  <2> QED BY <1>1, <2>1 DEF EntrySet, E820Types, MemTypes
<1> QED BY <1>3, <1>4, <1>5

LEMMA InitKeeps ==
  ASSUME Init
  PROVE  PmmInv /\ Promise!Init
<1>0. PICK m \in E820Maps : \E f \in ImportOrder(m) : memmap = [k \in DOMAIN f |-> Import(m[f[k]])]
  BY DEF Init
<1>1. PICK f \in ImportOrder(m) : memmap = [k \in DOMAIN f |-> Import(m[f[k]])] BY <1>0
<1> DEFINE kept == {k \in 1..Len(m) : Imported(m[k])}
<1>2. m \in Seq([base: Nat, length: Nat, type: E820Types]) BY PmmConstants
<1>3. Len(m) \in Nat /\ \A k \in 1..Len(m) : m[k] \in [base: Nat, length: Nat, type: E820Types]
  BY <1>2, LenProperties, ElementOfSeq
<1>4. PICK c \in 0..Len(m) : f \in [1..c -> kept] BY DEF ImportOrder
<1>5. c \in Nat BY <1>3
<1> HIDE DEF kept
<1>6. \A k \in 1..c : Import(m[f[k]]) \in EntrySet
  <2> SUFFICES ASSUME NEW k \in 1..c PROVE Import(m[f[k]]) \in EntrySet OBVIOUS
  <2>1. f[k] \in kept BY <1>4
  <2>2. f[k] \in 1..Len(m) /\ Imported(m[f[k]]) BY <2>1 DEF kept
  <2> QED BY <1>3, <2>2, ImportType
<1>7. memmap \in Seq(EntrySet)
  <2>1. memmap \in [1..c -> EntrySet] BY <1>1, <1>4, <1>6
  <2> QED BY <1>5, <2>1, SeqDef
<1>8. MapType
  <2>1. ins \in EntrySet BY MemmapConstants DEF Init, Entry, EntrySet, MemTypes
  <2>2. phase \in Phases BY DEF Init, Phases
  <2>3. align \in BOOLEAN BY DEF Init
  <2>4. i \in Nat \ {0} /\ j \in Nat \ {0} /\ passes \in Nat BY DEF Init
  <2> QED BY <1>7, <2>1, <2>2, <2>3, <2>4 DEF MapType
<1>9. ClipInv
  <2>1. \A k, n \in 1..Len(memmap) : ~(k < 1 \/ (k = 1 /\ n < 1)) OBVIOUS
  <2> QED BY <2>1 DEF ClipInv, Init
<1>10. InsertInv /\ UsableInv BY DEF InsertInv, UsableInv, Init
<1>11. MapInv BY <1>8, <1>9, <1>10 DEF MapInv
<1>12. LoanInv BY DEF LoanInv, Init
<1>13. PmmInv
  <2>1. convBase \in Nat /\ stage = "self" BY MemmapConstants DEF Init
  <2> QED BY <1>11, <1>12, <2>1 DEF PmmInv
<1>14. [a \in Addresses |-> Settled(a)] \in [Addresses -> SUBSET MemTypes] BY <1>11, OwnerType
<1> QED BY <1>13, <1>14 DEF Promise!Init, Init

LEMMA StutterKeeps ==
  ASSUME PmmInv, UNCHANGED vars
  PROVE  PmmInv' /\ UNCHANGED Promise!vars
<1>1. UNCHANGED <<memmap, phase, i, j, ins, align, passes, stage, convBase, live>>
  BY DEF vars, mapvars, pmmvars
<1>2. \A a : Owners(a)' = Owners(a) BY <1>1 DEF Owners, Claims, Covers, Top, Wraps
<1>3. \A a : Settled(a)' = Settled(a) BY <1>2 DEF Settled
<1>4. MapType' BY <1>1 DEF PmmInv, MapInv, MapType
<1>5. InsertInv' BY <1>1 DEF PmmInv, MapInv, InsertInv, Clash, Covers, Top, Wraps
<1>6. ClipInv' BY <1>1 DEF PmmInv, MapInv, ClipInv, Clash, Covers, Top, Wraps
<1>7. UsableInv' BY <1>1 DEF PmmInv, MapInv, UsableInv
<1>8. LoanInv' BY <1>1, <1>2 DEF PmmInv, LoanInv, Within
<1>9. PmmInv' BY <1>1, <1>4, <1>5, <1>6, <1>7, <1>8 DEF PmmInv, MapInv
<1> QED BY <1>1, <1>3, <1>9 DEF Promise!vars
-----------------------------------------------------------------------------
(* The invariant of the allocator and of the loops it runs over the map:   *)
(* in every state of every call, what was handed out is owned by its type  *)
(* alone.                                                                  *)
THEOREM PmmInvariant == Spec => []PmmInv
<1>1. Init => PmmInv BY InitKeeps
<1>2. PmmInv /\ [Next]_vars => PmmInv' BY StepKeeps, StutterKeeps
<1> QED BY <1>1, <1>2, PTL DEF Spec

(* Memory is never handed out twice and keeps its type until it is freed,  *)
(* whatever the firmware's map, the sizes and the order of the calls: the  *)
(* invariant LoansAreExclusive of the allocator.                           *)
THEOREM LoansStayExclusive == Spec => []LoansAreExclusive
<1>1. PmmInv => LoansAreExclusive
  <2> SUFFICES ASSUME PmmInv PROVE LoansAreExclusive OBVIOUS
  <2>1. \A l \in live : l.base \in Nat /\ l.size \in Nat BY DEF PmmInv, LoanInv, LoanSet
  <2>2. \A l \in live : \A a \in Cells(l) : a \in Nat /\ Within(l, a) BY <2>1 DEF Cells, Within
  <2> QED BY <2>2 DEF PmmInv, LoanInv, LoansAreExclusive
<1> QED BY <1>1, PmmInvariant, PTL

(* The allocator, with all its loops over the map, implements what         *)
(* AddressSpace promises of each address: KeepsPromise.                    *)
THEOREM PmmKeepsPromise == Spec => KeepsPromise
<1>1. Init => Promise!Init BY InitKeeps
<1>2. PmmInv /\ [Next]_vars => [Promise!Next]_(Promise!vars) BY StepKeeps, StutterKeeps
<1> QED BY <1>1, <1>2, PmmInvariant, PTL DEF Spec, KeepsPromise, Promise!Spec
=============================================================================
